---------------------------- MODULE ArrayMeaning ----------------------------
(***************************************************************************)
(* What an array promises to a script: a list, that every call of a method  *)
(* changes and answers as the method means.  Three things it does not       *)
(* promise: what elements reappear when an array that was longer grows      *)
(* again, what a splice does that counts more elements than there are, and  *)
(* that removeElements takes the second of two equal neighbours.            *)
(***************************************************************************)
EXTENDS Integers, Sequences

CONSTANTS Value, Undefined, Inputs, MaxLen

VARIABLES
    list,           \* the elements
    call,           \* the last call: its method, arguments and result
    high            \* how many elements a longer list, or such a splice, may have left

Items(k) == call'.args[k]
Gives(s) == call'.gives = s

Greater(a, b) == IF a > b THEN a ELSE b
Lesser(a, b) == IF a < b THEN a ELSE b
Within(i) == Greater(0, IF i < 0 THEN i + Len(list) ELSE i)

Elements(s) == {s[k] : k \in DOMAIN s}
Before(k) == SubSeq(list, 1, k)
After(k) == SubSeq(list, k + 1, Len(list))

\* Grown to n elements, of which those that the array never had are undefined
Grown(s, n) ==
    /\ Len(s) = Greater(n, Len(list)) /\ Before(Len(list)) = SubSeq(s, 1, Len(list))
    /\ \A k \in DOMAIN s : k > Len(list) /\ k > high => s[k] = Undefined

Stays == list' = list

\* The elements of t are some of those of s, f says which, in their order
Along(f, s, t) ==
    /\ \A k \in DOMAIN t : t[k] = s[f[k]]
    /\ \A k, m \in DOMAIN t : k < m => f[k] < f[m]
Taken(f) == {f[k] : k \in DOMAIN f}

Set(i, v) ==
    LET k == IF i < 0 THEN Len(list) + 1 ELSE i + 1
    IN  /\ Len(list') = Greater(Len(list), k)
        /\ list'[k] = v
        /\ Grown([list' EXCEPT ![k] = IF k <= Len(list) THEN list[k] ELSE Undefined], k)

Delete(i) ==
    IF i \notin 0..(Len(list) - 1) THEN Stays
    ELSE list' = IF i + 1 = Len(list) THEN Before(i) ELSE [list EXCEPT ![i + 1] = Undefined]

SetLength(n) == IF n <= Len(list) THEN list' = Before(Greater(n, 0)) ELSE Grown(list', n)

Insert(i, items) ==
    LET at == Lesser(Within(i), Len(list)) IN list' = Before(at) \o items \o After(at)

Splice(start, count, items) ==
    LET at == Lesser(Within(start), Len(list) - 1)
    IN  IF list = <<>> THEN Stays /\ Gives(IF count <= 0 THEN <<>> ELSE <<"Array is empty">>)
        ELSE count \in 0..(Len(list) - at) =>
                 /\ list' = Before(at) \o items \o After(at + count)
                 /\ Gives(SubSeq(list, at + 1, at + count))

\* Only elements that are named go, at least one if there are any, and all of those
\* when no two are equal
RemoveElements(items) ==
    \E f \in [DOMAIN list' -> DOMAIN list] :
        /\ Along(f, list, list')
        /\ \A k \in DOMAIN list \ Taken(f) : list[k] \in Elements(items)
        /\ (\A k, m \in DOMAIN list : list[k] = list[m] => k = m) => Elements(list') \cap Elements(items) = {}
        /\ Elements(items) \cap Elements(list) # {} => Len(list') < Len(list)

Compact == \E f \in [DOMAIN list' -> DOMAIN list] :
               Along(f, list, list') /\ Taken(f) = {k \in DOMAIN list : list[k] # Undefined}

\* The first of each of the elements, of those in some, in their order
Distinct(s, some, t) ==
    \E f \in [DOMAIN t -> DOMAIN s] :
        Along(f, s, t) /\ Taken(f) = {k \in DOMAIN s : s[k] \in some /\ \A m \in 1..(k - 1) : s[m] # s[k]}

IndexOf(v, start) ==
    LET found == {k \in 0..(Len(list) - 1) : k >= Within(start) /\ list[k + 1] = v}
    IN  IF found = {} THEN Gives(<<-1>>)
        ELSE Gives(<<CHOOSE k \in found : \A m \in found : k <= m>>)

LastIndexOf(v, start) ==
    LET found == {k \in 0..(Len(list) - 1) : k <= (IF start < 0 THEN start + Len(list) ELSE start) /\ list[k + 1] = v}
    IN  IF found = {} THEN Gives(<<-1>>)
        ELSE Gives(<<CHOOSE k \in found : \A m \in found : k >= m>>)

\* Elements from start on, up to and without end, in steps of either direction
Slice(start, end, step) ==
    LET from == Lesser(Within(start), Len(list))
        to == Lesser(Within(end), Len(list))
        by == IF step = 0 THEN 1 ELSE step
    IN  by > 0 \/ from < Len(list) =>
            Gives([k \in {k \in 1..Len(list) : IF by > 0 THEN from + (k - 1) * by < to ELSE from + (k - 1) * by > to}
                      |-> list[from + (k - 1) * by + 1]])

Reading ==
    /\ Stays
    /\ CASE call'.op = "get" -> Gives(<<IF Items(1) \in 0..(Len(list) - 1) THEN list[Items(1) + 1] ELSE Undefined>>)
         [] call'.op = "indexOf" -> IndexOf(Items(1), Items(2))
         [] call'.op = "lastIndexOf" -> LastIndexOf(Items(1), Items(2))
         [] call'.op = "clone" -> Gives(list)
         [] call'.op = "concat" -> Gives(list \o Items(1))
         [] call'.op = "slice" -> Slice(Items(1), Items(2), Items(3))
         [] call'.op = "&" -> Distinct(list, Elements(Items(1)), call'.gives)
         [] call'.op = "|" -> Distinct(list \o Items(1), Elements(list \o Items(1)), call'.gives)
         [] OTHER -> FALSE

Changing ==
    CASE call'.op = "set" -> Set(Items(1), Items(2))
      [] call'.op = "append" -> list' = Append(list, Items(1))
      [] call'.op = "delete" -> Delete(Items(1))
      [] call'.op = "length" -> SetLength(Items(1))
      [] call'.op = "clear" -> list' = <<>>
      [] call'.op = "push" -> list' = list \o Items(1) /\ Gives(<<Len(list')>>)
      [] call'.op = "pop" ->
             IF list = <<>> THEN Stays /\ Gives(<<Undefined>>)
             ELSE list' = Before(Len(list) - 1) /\ Gives(After(Len(list) - 1))
      [] call'.op = "shift" ->
             IF list = <<>> THEN Stays /\ Gives(<<Undefined>>) ELSE list' = After(1) /\ Gives(Before(1))
      [] call'.op = "unshift" -> list' = Items(1) \o list
      [] call'.op = "insert" -> Insert(Items(1), Items(2))
      [] call'.op = "splice" -> Splice(Items(1), Items(2), Items(3))
      [] call'.op = "removeElements" -> RemoveElements(Items(1))
      [] call'.op = "unique" -> Distinct(list, Elements(list), list')
      [] call'.op = "compact" -> Compact
      [] call'.op = "reverse" -> list' = [k \in DOMAIN list |-> list[Len(list) + 1 - k]]
      [] OTHER -> FALSE

\* A loop changes nothing, and a sort changes elements, not how many there are
Silent == call'.op = "none" /\ Len(list') = Len(list)

ListInit == \E s \in Inputs : list = s /\ high = Len(s) /\ call.op = "none"

\* A splice that counts more elements than there are
Overcounts ==
    call'.op = "splice" /\ list # <<>> /\ Items(2) \notin 0..(Len(list) - Lesser(Within(Items(1)), Len(list) - 1))

ListNext ==
    /\ IF Overcounts THEN high' >= Greater(high, Len(list')) ELSE high' = Greater(high, Len(list'))
    /\ Silent \/ Reading \/ Changing

ListSpec == ListInit /\ [][ListNext]_<<list, call, high>>
=============================================================================
