-------------------------- MODULE EjsEmitterProofs --------------------------
(***************************************************************************)
(* Theorems about EjsEmitter, for any names and functions and any number of *)
(* calls of scripts and callbacks.                                          *)
(***************************************************************************)
EXTENDS EjsEmitter, FiniteSetTheorems, SequenceTheorems, TLAPS

-----------------------------------------------------------------------------
(***************************************************************************)
(* The inductive invariant.                                                 *)
(***************************************************************************)

\* How many calls on a stack are of a kind
Count(s, kinds) == Cardinality({i \in 1..Len(s) : s[i] \in kinds})

EpsOf == 1..Len(eps)
ListsOf == 1..Len(arrays)
PlacesOf(a) == 1..Len(arrays[a])
NameOf(e) == eps[e].name

\* Arrays hold endpoints, each once, and those of a name hold endpoints of that
\* name that were not cleared; an endpoint that is elsewhere was cleared.
ListsOK ==
    /\ \A a \in ListsOf : \A p \in PlacesOf(a) : arrays[a][p] \in EpsOf
    /\ \A a, b \in ListsOf : \A p \in PlacesOf(a), q \in PlacesOf(b) : arrays[a][p] = arrays[b][q] => a = b /\ p = q
    /\ \A n \in Name : endpoints[n] # None =>
         /\ endpoints[n] \in ListsOf
         /\ \A p \in PlacesOf(endpoints[n]) :
              NameOf(arrays[endpoints[n]][p]) = n /\ cleared[n] <= since[arrays[endpoints[n]][p]]
    /\ \A m, n \in Name : endpoints[m] = endpoints[n] /\ endpoints[m] # None => m = n
    /\ \A a \in ListsOf : \A p \in PlacesOf(a) :
         endpoints[NameOf(arrays[a][p])] # a => cleared[NameOf(arrays[a][p])] > since[arrays[a][p]]
    /\ \A e \in EpsOf : Undisturbed(e) =>
         endpoints[NameOf(e)] # None /\ \E p \in PlacesOf(endpoints[NameOf(e)]) : arrays[endpoints[NameOf(e)]][p] = e
    /\ \A e \in EpsOf : since[e] < Len(fired)
    /\ \A n \in Name : cleared[n] <= Len(fired)

\* A call on the stack is about an array, whose endpoints are of its name
FrameOK(f) ==
    /\ f.arr \in ListsOf /\ f.index >= 1
    /\ f.at = "callback" => f.kind = "fire" /\ f.e \in EpsOf /\ NameOf(f.e) = f.name
                            /\ (endpoints[f.name] # f.arr => cleared[f.name] > since[f.e])
    /\ f.at = "splice" => f.kind = "off"
    /\ f.kind = "fire" => f.arg \in 1..Len(fired)
    /\ \A n \in Name : endpoints[n] = f.arr => n = f.name
    /\ \A p \in PlacesOf(f.arr) : NameOf(arrays[f.arr][p]) = f.name
    /\ f.name \notin removed => f.len <= Len(arrays[f.arr])

\* Below a call is a callback, or a removal that fires its event
StackOK(s) ==
    /\ \A i \in 1..Len(s) : FrameOK(s[i])
    /\ \A i \in 1..Len(s) : i > 1 => s[i].at = "callback" \/ (s[i].at = "splice" /\ s[i - 1].kind = "fire")

\* Calls of an observer
CallsOf(e) == {f \in Frame : f.at = "callback" /\ f.e = e}

\* An observer is active while it is called, and only then events wait for it
RunningOK(s) ==
    \A e \in EpsOf : /\ Count(s, CallsOf(e)) = IF eps[e].active THEN 1 ELSE 0
                     /\ eps[e].pending # <<>> => eps[e].active

\* An observer that was cleared is not going to be called with later events
Given(e) == {f \in Frame : f.kind = "fire" /\ ((f.at = "callback" /\ f.e = e) \/ \E p \in PlacesOf(f.arr) : arrays[f.arr][p] = e)}
SilentOK(s) ==
    \A e \in EpsOf :
        /\ \A i \in 1..Len(seen[e]) : seen[e][i] \in 1..Len(fired)
        /\ \A i \in 1..Len(eps[e].pending) : eps[e].pending[i] \in 1..Len(fired)
        /\ cleared[NameOf(e)] > since[e] =>
             /\ \A i \in 1..Len(seen[e]) : seen[e][i] <= cleared[NameOf(e)]
             /\ \A i \in 1..Len(eps[e].pending) : eps[e].pending[i] <= cleared[NameOf(e)]
             /\ \A i \in 1..Len(s) : s[i] \in Given(e) => s[i].arg <= cleared[NameOf(e)]

\* Loops that have yet to come to an observer
Coming(e) ==
    {f \in Frame : /\ f.kind = "fire" /\ f.arr = endpoints[NameOf(e)]
                   /\ \E p \in PlacesOf(f.arr) :
                        arrays[f.arr][p] = e /\ p <= f.len /\ (IF f.at = "loop" THEN f.index <= p ELSE f.index < p)}

\* An observer that nobody disturbed was called, waits, or is going to be called
\* as often as its event was fired
CountsOK(s) ==
    \A e \in EpsOf : Undisturbed(e) =>
        Len(seen[e]) + Len(eps[e].pending) + Count(s, Coming(e)) = Cardinality(Meant(e))

\* The first observer has seen, waits for, or is about to see each event in order
AboutTo(s, n) ==
    s # <<>> /\ s[1].kind = "fire" /\ s[1].at = "loop" /\ s[1].index = 1 /\ s[1].arr = endpoints[n] /\ s[1].len >= 1
Known(e) == seen[e] \o eps[e].pending
FirstOK(s) ==
    \A n \in Name : (n \notin removed /\ endpoints[n] # None /\ Len(arrays[endpoints[n]]) >= 1) =>
        LET e == arrays[endpoints[n]][1]
        IN  /\ Ascending(Known(e))
            /\ IF AboutTo(s, n)
               THEN /\ \A i \in 1..Len(Known(e)) : Known(e)[i] < s[1].arg
                    /\ Range(Known(e)) \cup {s[1].arg} = Meant(e)
               ELSE Range(Known(e)) = Meant(e)

Holds(s) == StackOK(s) /\ RunningOK(s) /\ SilentOK(s) /\ CountsOK(s) /\ FirstOK(s)

IInv == TypeOK /\ ListsOK /\ Holds(stack)

-----------------------------------------------------------------------------
(***************************************************************************)
(* Stacks of calls, and how many of them are of a kind.                     *)
(***************************************************************************)

\* A stack with one more call.
LEMMA PushIs ==
    ASSUME NEW S, NEW st \in Seq(S), NEW f \in S
    PROVE  /\ push(st, f) \in Seq(S) /\ Len(push(st, f)) = Len(st) + 1 /\ push(st, f) # <<>>
           /\ push(st, f)[1] = f /\ \A i \in 1..Len(st) : push(st, f)[i + 1] = st[i]
           /\ Head(push(st, f)) = f /\ Tail(push(st, f)) = st
<1> DEFINE p == push(st, f)
           a == <<f>>
           n == Len(st)
<1>1. a \in Seq(S) /\ Len(a) = 1 /\ a[1] = f /\ n \in Nat
  BY LenProperties
<1> HIDE DEF a
<1>2. a \o st \in Seq(S) /\ Len(a \o st) = Len(a) + Len(st)
      /\ \A i \in 1..Len(a) + Len(st) : (a \o st)[i] = IF i <= Len(a) THEN a[i] ELSE st[i - Len(a)]
  BY <1>1, ConcatProperties
<1>3. p = a \o st
  BY DEF push, a
<1> HIDE DEF p
<1>4. p \in Seq(S) /\ Len(p) = n + 1 /\ \A i \in 1..n + 1 : p[i] = IF i <= 1 THEN f ELSE st[i - 1]
  <2>1. Len(a) + Len(st) = n + 1
    BY <1>1
  <2>2. \A i \in 1..n + 1 : p[i] = IF i <= 1 THEN a[i] ELSE st[i - 1]
    BY <1>1, <1>2, <1>3, <2>1
  <2>3. \A i \in 1..n + 1 : i <= 1 => i = 1
    BY <1>1
  <2> QED BY <1>1, <1>2, <1>3, <2>1, <2>2, <2>3
<1>5. p # <<>> /\ p[1] = f
  BY <1>1, <1>4, EmptySeq
<1>6. ASSUME NEW i \in 1..n PROVE p[i + 1] = st[i]
  <2>1. i + 1 \in 1..n + 1 /\ ~(i + 1 <= 1) /\ (i + 1) - 1 = i
    BY <1>1
  <2> QED BY <1>4, <2>1
<1>7. Head(p) = f
  BY <1>4, <1>5
<1>8. Tail(p) = st
  <2>1. Tail(p) \in Seq(S) /\ Len(Tail(p)) = Len(p) - 1 /\ \A i \in 1..Len(Tail(p)) : Tail(p)[i] = p[i + 1]
    BY <1>4, <1>5, HeadTailProperties
  <2> DEFINE q == Tail(p)
  <2> HIDE DEF q
  <2>2. q \in Seq(S) /\ Len(q) = n /\ \A i \in 1..n : q[i] = st[i]
    BY <1>1, <1>4, <1>6, <2>1 DEF q
  <2>3. q = st
    BY <2>2, SeqEqual
  <2> QED BY <2>3 DEF q
<1> QED BY <1>4, <1>5, <1>6, <1>7, <1>8 DEF p, n

\* A stack is its top on what is below it.
LEMMA PopIs ==
    ASSUME NEW S, NEW s \in Seq(S), s # <<>>
    PROVE  /\ Tail(s) \in Seq(S) /\ Head(s) \in S /\ Head(s) = s[1] /\ s = push(Tail(s), Head(s))
           /\ Len(Tail(s)) = Len(s) - 1 /\ Len(s) >= 1
<1> DEFINE q == Tail(s)
           f == Head(s)
           p == push(q, f)
<1>1. q \in Seq(S) /\ f \in S /\ Len(q) = Len(s) - 1 /\ f = s[1] /\ Len(s) \in Nat /\ Len(s) >= 1
      /\ \A i \in 1..Len(q) : q[i] = s[i + 1]
  <2>1. q \in Seq(S) /\ f \in S /\ Len(q) = Len(s) - 1 /\ \A i \in 1..Len(q) : q[i] = s[i + 1]
    BY HeadTailProperties
  <2>2. Len(s) \in Nat /\ Len(s) >= 1
    BY LenProperties, EmptySeq
  <2>3. f = s[1]
    OBVIOUS
  <2> QED BY <2>1, <2>2, <2>3
<1> HIDE DEF q, f
<1>2. p \in Seq(S) /\ Len(p) = Len(q) + 1 /\ p[1] = f /\ \A i \in 1..Len(q) : p[i + 1] = q[i]
  <2>1. q \in Seq(S) /\ f \in S
    BY <1>1
  <2> QED BY <2>1, PushIs
<1> HIDE DEF p
<1>3. \A i \in 1..Len(s) : p[i] = s[i]
  <2> SUFFICES ASSUME NEW i \in 1..Len(s) PROVE p[i] = s[i]
    OBVIOUS
  <2>1. CASE i = 1
    BY <1>1, <1>2, <2>1
  <2>2. CASE i # 1
    <3>1. i - 1 \in 1..Len(q) /\ (i - 1) + 1 = i
      BY <1>1, <2>2
    <3> QED BY <1>1, <1>2, <3>1
  <2> QED BY <2>1, <2>2
<1>4. p = s
  BY <1>1, <1>2, <1>3, SeqEqual
<1> QED BY <1>1, <1>4 DEF p, q, f

\* A count is a number.
LEMMA CountIs ==
    ASSUME NEW S, NEW s \in Seq(S), NEW X
    PROVE  /\ Count(s, X) \in Nat /\ IsFiniteSet({i \in 1..Len(s) : s[i] \in X})
           /\ (\A i \in 1..Len(s) : s[i] \notin X) => Count(s, X) = 0
<1> DEFINE A == {i \in 1..Len(s) : s[i] \in X}
<1>1. Len(s) \in Nat
  BY LenProperties
<1>2. IsFiniteSet(1..Len(s)) /\ A \in SUBSET (1..Len(s))
  BY <1>1, FS_Interval
<1>3. IsFiniteSet(A)
  BY <1>2, FS_Subset
<1>4. (\A i \in 1..Len(s) : s[i] \notin X) => A = {}
  OBVIOUS
<1> HIDE DEF A
<1>5. Cardinality(A) \in Nat /\ (A = {} => Cardinality(A) = 0)
  BY <1>3, FS_CardinalityType, FS_EmptySet
<1> QED BY <1>3, <1>4, <1>5 DEF Count, A

\* One more call counts if it is of the kind.
LEMMA CountPush ==
    ASSUME NEW S, NEW st \in Seq(S), NEW f \in S, NEW X
    PROVE  Count(push(st, f), X) = Count(st, X) + (IF f \in X THEN 1 ELSE 0)
<1> DEFINE p == push(st, f)
           n == Len(st)
           A == {i \in 1..n : st[i] \in X}
           B == {i \in 2..n + 1 : p[i] \in X}
           C == {i \in 1..n + 1 : p[i] \in X}
           g == [i \in A |-> i + 1]
<1>1. n \in Nat /\ Len(p) = n + 1 /\ p[1] = f /\ \A i \in 1..n : p[i + 1] = st[i]
  BY PushIs, LenProperties
<1>2. IsFiniteSet(A) /\ Cardinality(A) = Count(st, X) /\ Cardinality(A) \in Nat
  BY CountIs DEF Count
<1> HIDE DEF p, n
<1>3. g \in Bijection(A, B)
  <2>1. \A i \in A : i + 1 \in B
    BY <1>1
  <2>2. g \in [A -> B]
    BY <2>1
  <2>3. \A i, j \in A : g[i] = g[j] => i = j
    BY <1>1
  <2>4. \A j \in B : \E i \in A : g[i] = j
    <3> SUFFICES ASSUME NEW j \in B PROVE \E i \in A : g[i] = j
      OBVIOUS
    <3>1. j - 1 \in 1..n /\ (j - 1) + 1 = j
      BY <1>1
    <3>2. j - 1 \in A
      BY <1>1, <3>1
    <3> QED BY <3>1, <3>2
  <2> HIDE DEF g, A, B
  <2>5. g \in Injection(A, B)
    BY <2>2, <2>3 DEF Injection, IsInjective
  <2>6. g \in Surjection(A, B)
    BY <2>2, <2>4 DEF Surjection
  <2> QED BY <2>5, <2>6 DEF Bijection
<1> HIDE DEF g
<1>4. IsFiniteSet(B) /\ Cardinality(B) = Cardinality(A)
  <2>1. ExistsBijection(A, B)
    BY <1>3 DEF ExistsBijection
  <2> HIDE DEF A, B
  <2> QED BY <1>2, <2>1, FS_Bijection
<1>7. Count(p, X) = Cardinality(C)
  BY <1>1 DEF Count
<1>5. CASE f \in X
  <2>1. C = B \cup {1} /\ 1 \notin B
    BY <1>1, <1>5
  <2> HIDE DEF B, C, A
  <2>2. Cardinality(C) = Cardinality(B) + 1
    BY <1>4, <2>1, FS_AddElement
  <2> QED BY <1>2, <1>4, <1>5, <1>7, <2>2 DEF p
<1>6. CASE f \notin X
  <2>1. C = B
    BY <1>1, <1>6
  <2> HIDE DEF B, C, A
  <2> QED BY <1>2, <1>4, <1>6, <1>7, <2>1 DEF p
<1> QED BY <1>5, <1>6

\* Kinds that are the same for the calls of a stack count the same.
LEMMA CountSame ==
    ASSUME NEW S, NEW s \in Seq(S), NEW X, NEW Y, \A i \in 1..Len(s) : s[i] \in X <=> s[i] \in Y
    PROVE  Count(s, X) = Count(s, Y)
<1>1. {i \in 1..Len(s) : s[i] \in X} = {i \in 1..Len(s) : s[i] \in Y}
  OBVIOUS
<1> QED BY <1>1 DEF Count

\* What is put behind the second of two sequences is behind both.
LEMMA Behind ==
    ASSUME NEW S, NEW s \in Seq(S), NEW t \in Seq(S), NEW x \in S
    PROVE  s \o Append(t, x) = Append(s \o t, x)
<1> DEFINE a == Append(t, x)
           b == s \o t
           l == s \o a
           r == Append(b, x)
<1>1. Len(s) \in Nat /\ Len(t) \in Nat
  BY LenProperties
<1>2. a \in Seq(S) /\ Len(a) = Len(t) + 1 /\ a[Len(t) + 1] = x /\ \A i \in 1..Len(t) : a[i] = t[i]
  BY AppendProperties
<1>3. b \in Seq(S) /\ Len(b) = Len(s) + Len(t) /\ \A i \in 1..Len(s) + Len(t) : b[i] = IF i <= Len(s) THEN s[i] ELSE t[i - Len(s)]
  BY ConcatProperties
<1> HIDE DEF a, b
<1>4. l \in Seq(S) /\ Len(l) = Len(s) + Len(a) /\ \A i \in 1..Len(s) + Len(a) : l[i] = IF i <= Len(s) THEN s[i] ELSE a[i - Len(s)]
  BY <1>2, ConcatProperties
<1>5. r \in Seq(S) /\ Len(r) = Len(b) + 1 /\ r[Len(b) + 1] = x /\ \A i \in 1..Len(b) : r[i] = b[i]
  BY <1>3, AppendProperties
<1> HIDE DEF l, r
<1>6. Len(l) = Len(r)
  BY <1>1, <1>2, <1>3, <1>4, <1>5
<1>7. ASSUME NEW i \in 1..Len(l) PROVE l[i] = r[i]
  <2>1. CASE i = Len(s) + Len(t) + 1
    <3>1. ~(i <= Len(s)) /\ i - Len(s) = Len(t) + 1 /\ i = Len(b) + 1 /\ i \in 1..Len(s) + Len(a)
      BY <1>1, <1>2, <1>3, <2>1
    <3> QED BY <1>2, <1>4, <1>5, <3>1
  <2>2. CASE i # Len(s) + Len(t) + 1
    <3>0. Len(l) = Len(s) + Len(t) + 1 /\ Len(a) = Len(t) + 1 /\ Len(b) = Len(s) + Len(t)
      BY <1>1, <1>2, <1>3, <1>4
    <3>1. i \in 1..Len(s) + Len(t) /\ i \in 1..Len(s) + Len(a) /\ i \in 1..Len(b)
      BY <1>1, <2>2, <3>0
    <3>2. ~(i <= Len(s)) => i - Len(s) \in 1..Len(t)
      BY <1>1, <3>1
    <3> QED BY <1>2, <1>3, <1>4, <1>5, <3>1, <3>2
  <2> QED BY <2>1, <2>2
<1>8. l = r
  BY <1>4, <1>5, <1>6, <1>7, SeqEqual
<1> QED BY <1>8 DEF l, r, a, b

\* The first of the second sequence, put behind the first one, leaves both together as they were.
LEMMA Moved ==
    ASSUME NEW S, NEW s \in Seq(S), NEW t \in Seq(S), t # <<>>
    PROVE  Append(s, Head(t)) \o Tail(t) = s \o t
<1> DEFINE h == Head(t)
           u == Tail(t)
           a == Append(s, h)
           l == a \o u
           r == s \o t
<1>1. Len(s) \in Nat /\ Len(t) \in Nat /\ Len(t) >= 1
  BY LenProperties, EmptySeq
<1>2. h \in S /\ u \in Seq(S) /\ Len(u) = Len(t) - 1 /\ h = t[1] /\ \A i \in 1..Len(u) : u[i] = t[i + 1]
  <2>1. h \in S /\ u \in Seq(S) /\ Len(u) = Len(t) - 1 /\ \A i \in 1..Len(u) : u[i] = t[i + 1]
    BY HeadTailProperties
  <2> QED BY <2>1
<1> HIDE DEF h, u
<1>3. a \in Seq(S) /\ Len(a) = Len(s) + 1 /\ a[Len(s) + 1] = h /\ \A i \in 1..Len(s) : a[i] = s[i]
  BY <1>2, AppendProperties
<1> HIDE DEF a
<1>4. l \in Seq(S) /\ Len(l) = Len(a) + Len(u) /\ \A i \in 1..Len(a) + Len(u) : l[i] = IF i <= Len(a) THEN a[i] ELSE u[i - Len(a)]
  BY <1>2, <1>3, ConcatProperties
<1>5. r \in Seq(S) /\ Len(r) = Len(s) + Len(t) /\ \A i \in 1..Len(s) + Len(t) : r[i] = IF i <= Len(s) THEN s[i] ELSE t[i - Len(s)]
  BY ConcatProperties
<1> HIDE DEF l, r
<1>6. Len(l) = Len(r)
  BY <1>1, <1>2, <1>3, <1>4, <1>5
<1>7. ASSUME NEW i \in 1..Len(l) PROVE l[i] = r[i]
  <2>1. i \in 1..Len(a) + Len(u) /\ i \in 1..Len(s) + Len(t)
    BY <1>4, <1>5, <1>6
  <2>2. CASE i <= Len(s)
    <3>1. i \in 1..Len(s) /\ i <= Len(a)
      BY <1>1, <1>3, <2>1, <2>2
    <3> QED BY <1>3, <1>4, <1>5, <2>1, <2>2, <3>1
  <2>3. CASE i = Len(s) + 1
    <3>1. i <= Len(a) /\ ~(i <= Len(s)) /\ i - Len(s) = 1
      BY <1>1, <1>3, <2>1, <2>3
    <3> QED BY <1>2, <1>3, <1>4, <1>5, <2>1, <2>3, <3>1
  <2>4. CASE i > Len(s) + 1
    <3>1. ~(i <= Len(a)) /\ ~(i <= Len(s)) /\ i - Len(a) \in 1..Len(u) /\ (i - Len(a)) + 1 = i - Len(s)
      BY <1>1, <1>2, <1>3, <2>1, <2>4
    <3>2. l[i] = u[i - Len(a)] /\ r[i] = t[i - Len(s)]
      BY <1>4, <1>5, <2>1, <3>1
    <3>3. u[i - Len(a)] = t[(i - Len(a)) + 1]
      BY <1>2, <3>1
    <3> QED BY <3>1, <3>2, <3>3
  <2> QED BY <1>1, <2>1, <2>2, <2>3, <2>4
<1>8. l = r
  BY <1>4, <1>5, <1>6, <1>7, SeqEqual
<1> QED BY <1>8 DEF l, r, a, h, u

-----------------------------------------------------------------------------
(***************************************************************************)
(* What holds of endpoints, arrays and calls.                               *)
(***************************************************************************)
EndpointSet == [name : Name, callback : Callback, active : BOOLEAN, pending : Seq(Nat)]

\* The types of what the variables hold.
LEMMA TypesOf ==
    ASSUME TypeOK
    PROVE  /\ Len(eps) \in Nat /\ Len(arrays) \in Nat /\ Len(fired) \in Nat
           /\ \A e \in EpsOf : /\ eps[e] \in EndpointSet /\ NameOf(e) \in Name /\ since[e] \in Nat
                               /\ seen[e] \in Seq(Nat) /\ Len(seen[e]) \in Nat
                               /\ eps[e].pending \in Seq(Nat) /\ Len(eps[e].pending) \in Nat /\ eps[e].active \in BOOLEAN
           /\ \A a \in ListsOf : arrays[a] \in Seq(Nat) /\ Len(arrays[a]) \in Nat
           /\ \A n \in Name : endpoints[n] \in Nat /\ cleared[n] \in Nat
           /\ stack \in Seq(Frame)
<1>1. /\ eps \in Seq(EndpointSet) /\ arrays \in Seq(Seq(Nat)) /\ fired \in Seq(Name)
      /\ seen \in Seq(Seq(Nat)) /\ since \in Seq(Nat) /\ Len(seen) = Len(eps) /\ Len(since) = Len(eps)
      /\ endpoints \in [Name -> Nat] /\ cleared \in [Name -> Nat] /\ stack \in Seq(Frame)
  BY DEF TypeOK, EndpointSet
<1>2. Len(eps) \in Nat /\ Len(arrays) \in Nat /\ Len(fired) \in Nat
  BY <1>1, LenProperties
<1>3. ASSUME NEW e \in EpsOf
      PROVE  /\ eps[e] \in EndpointSet /\ NameOf(e) \in Name /\ since[e] \in Nat
             /\ seen[e] \in Seq(Nat) /\ Len(seen[e]) \in Nat
             /\ eps[e].pending \in Seq(Nat) /\ Len(eps[e].pending) \in Nat /\ eps[e].active \in BOOLEAN
  <2>1. e \in 1..Len(eps) /\ e \in 1..Len(seen) /\ e \in 1..Len(since)
    BY <1>1 DEF EpsOf
  <2>2. eps[e] \in EndpointSet /\ since[e] \in Nat /\ seen[e] \in Seq(Nat)
    BY <1>1, <2>1
  <2>3. eps[e].name \in Name /\ eps[e].pending \in Seq(Nat) /\ eps[e].active \in BOOLEAN
    BY <2>2 DEF EndpointSet
  <2> QED BY <2>2, <2>3, LenProperties DEF NameOf
<1>4. ASSUME NEW a \in ListsOf PROVE arrays[a] \in Seq(Nat) /\ Len(arrays[a]) \in Nat
  BY <1>1, LenProperties DEF ListsOf
<1> QED BY <1>1, <1>2, <1>3, <1>4

\* Only a loop that begins is about to come to the first observer.
Busy(s) == s = <<>> \/ s[1].at # "loop" \/ s[1].kind = "off"

\* So in a busy stack the next step of a loop comes to no first observer.
LEMMA BusyIs ==
    ASSUME NEW s, Busy(s)
    PROVE  \A n : ~AboutTo(s, n)
BY DEF Busy, AboutTo

\* What holds of the first observers does not depend on the stack otherwise.
LEMMA FirstKept ==
    ASSUME NEW s, NEW t, FirstOK(s), Busy(s), Busy(t)
    PROVE  FirstOK(t)
BY BusyIs DEF FirstOK

\* Below the top are callbacks and removals only.
LEMMA BelowBusy ==
    ASSUME NEW s \in Seq(Frame), s # <<>>, StackOK(s)
    PROVE  Busy(Tail(s)) /\ StackOK(Tail(s)) /\ FrameOK(s[1])
<1> DEFINE f == Head(s)
           st == Tail(s)
<1>1. /\ st \in Seq(Frame) /\ f \in Frame /\ f = s[1] /\ s = push(st, f) /\ Len(st) = Len(s) - 1 /\ Len(s) >= 1
      /\ Len(st) \in Nat /\ Len(s) \in Nat
  BY PopIs, LenProperties
<1> HIDE DEF f, st
<1>2. \A i \in 1..Len(st) : s[i + 1] = st[i]
  <2>1. st \in Seq(Frame) /\ f \in Frame
    BY <1>1
  <2>2. \A i \in 1..Len(st) : push(st, f)[i + 1] = st[i]
    BY <2>1, PushIs
  <2> QED BY <1>1, <2>2
<1>3. FrameOK(s[1])
  BY <1>1 DEF StackOK
<1>4. \A i \in 1..Len(st) : FrameOK(st[i])
  <2> SUFFICES ASSUME NEW i \in 1..Len(st) PROVE FrameOK(st[i])
    OBVIOUS
  <2>1. i + 1 \in 1..Len(s)
    BY <1>1
  <2> QED BY <1>2, <2>1 DEF StackOK
<1>5. ASSUME NEW i \in 1..Len(st), i > 1
      PROVE  st[i].at = "callback" \/ (st[i].at = "splice" /\ st[i - 1].kind = "fire")
  <2>1. i + 1 \in 1..Len(s) /\ i + 1 > 1 /\ (i + 1) - 1 = i /\ i - 1 \in 1..Len(st) /\ (i - 1) + 1 = i
    BY <1>1, <1>5
  <2>2. s[i + 1].at = "callback" \/ (s[i + 1].at = "splice" /\ s[i].kind = "fire")
    BY <2>1 DEF StackOK
  <2>3. s[i + 1] = st[i] /\ s[i] = st[i - 1]
    BY <1>2, <2>1
  <2> QED BY <2>2, <2>3
<1>6. StackOK(st)
  BY <1>4, <1>5 DEF StackOK
<1>7. Busy(st)
  <2>1. CASE st = <<>>
    BY <2>1 DEF Busy
  <2>2. CASE st # <<>>
    <3>1. Len(st) >= 1
      BY <1>1, <2>2, EmptySeq
    <3>2. 2 \in 1..Len(s) /\ 2 > 1 /\ 1 \in 1..Len(st) /\ 1 + 1 = 2
      BY <1>1, <3>1
    <3>3. s[2].at = "callback" \/ s[2].at = "splice"
      BY <3>2 DEF StackOK
    <3>4. st[1] = s[2]
      BY <1>2, <3>2
    <3> QED BY <3>3, <3>4 DEF Busy
  <2> QED BY <2>1, <2>2
<1> QED BY <1>3, <1>6, <1>7 DEF st

\* A stack with a call that is in order.
LEMMA PushStack ==
    ASSUME NEW st \in Seq(Frame), StackOK(st), NEW f \in Frame, FrameOK(f),
           st # <<>> => st[1].at = "callback" \/ (st[1].at = "splice" /\ f.kind = "fire")
    PROVE  StackOK(push(st, f))
<1> DEFINE s == push(st, f)
<1>1. /\ Len(s) = Len(st) + 1 /\ s[1] = f /\ \A i \in 1..Len(st) : s[i + 1] = st[i]
      /\ Len(st) \in Nat
  BY PushIs, LenProperties
<1> HIDE DEF s
<1>2. ASSUME NEW i \in 1..Len(s)
      PROVE  FrameOK(s[i]) /\ (i > 1 => s[i].at = "callback" \/ (s[i].at = "splice" /\ s[i - 1].kind = "fire"))
  <2>1. CASE i = 1
    BY <1>1, <2>1
  <2>2. CASE i # 1
    <3>1. i - 1 \in 1..Len(st) /\ (i - 1) + 1 = i
      BY <1>1, <2>2
    <3>2. s[i] = st[i - 1]
      BY <1>1, <3>1
    <3>3. FrameOK(s[i])
      BY <3>1, <3>2 DEF StackOK
    <3>4. CASE i = 2
      <4>1. st # <<>> /\ s[i - 1] = f /\ s[i] = st[1]
        BY <1>1, <3>1, <3>2, <3>4, EmptySeq
      <4> QED BY <3>3, <4>1
    <3>5. CASE i # 2
      <4>1. i - 1 > 1 /\ i - 2 \in 1..Len(st) /\ (i - 2) + 1 = i - 1 /\ (i - 1) - 1 = i - 2
        BY <1>1, <3>1, <3>5
      <4>2. s[i - 1] = st[(i - 1) - 1]
        BY <1>1, <4>1
      <4> QED BY <3>1, <3>2, <3>3, <4>1, <4>2 DEF StackOK
    <3> QED BY <3>4, <3>5
  <2> QED BY <2>1, <2>2
<1> QED BY <1>2 DEF StackOK, s

\* A call that is counted nowhere may go or come.
Uncounted(f) ==
    \A e \in EpsOf : f \notin CallsOf(e) /\ (Undisturbed(e) => f \notin Coming(e))

\* With it or without it the same callbacks run and the same counts stand.
LEMMA CountsDrop ==
    ASSUME NEW st \in Seq(Frame), NEW f \in Frame, Uncounted(f)
    PROVE  /\ RunningOK(push(st, f)) <=> RunningOK(st)
           /\ CountsOK(push(st, f)) <=> CountsOK(st)
<1>1. ASSUME NEW e \in EpsOf PROVE Count(push(st, f), CallsOf(e)) = Count(st, CallsOf(e))
  <2> DEFINE X == CallsOf(e)
  <2>1. f \notin X
    BY DEF Uncounted
  <2> HIDE DEF X
  <2>2. Count(push(st, f), X) = Count(st, X) + 0 /\ Count(st, X) \in Nat
    BY <2>1, CountPush, CountIs
  <2>3. Count(push(st, f), X) = Count(st, X)
    BY <2>2
  <2> QED BY <2>3 DEF X
<1>2. ASSUME NEW e \in EpsOf, Undisturbed(e) PROVE Count(push(st, f), Coming(e)) = Count(st, Coming(e))
  <2> DEFINE X == Coming(e)
  <2>1. f \notin X
    BY <1>2 DEF Uncounted
  <2> HIDE DEF X
  <2>2. Count(push(st, f), X) = Count(st, X) + 0 /\ Count(st, X) \in Nat
    BY <2>1, CountPush, CountIs
  <2>3. Count(push(st, f), X) = Count(st, X)
    BY <2>2
  <2> QED BY <2>3 DEF X
<1>3. RunningOK(push(st, f)) <=> RunningOK(st)
  BY <1>1 DEF RunningOK
<1>4. CountsOK(push(st, f)) <=> CountsOK(st)
  BY <1>2 DEF CountsOK
<1> QED BY <1>3, <1>4

\* What the calls of a stack are given is so for the top and those below it.
LEMMA SilentPush ==
    ASSUME NEW st \in Seq(Frame), NEW f \in Frame
    PROVE  SilentOK(push(st, f)) <=>
           /\ SilentOK(st)
           /\ \A e \in EpsOf : cleared[NameOf(e)] > since[e] => (f \in Given(e) => f.arg <= cleared[NameOf(e)])
<1> DEFINE s == push(st, f)
<1>1. /\ Len(s) = Len(st) + 1 /\ s[1] = f /\ \A i \in 1..Len(st) : s[i + 1] = st[i]
      /\ Len(st) \in Nat
  BY PushIs, LenProperties
<1> HIDE DEF s
<1>2. ASSUME NEW e \in EpsOf
      PROVE  (\A i \in 1..Len(s) : s[i] \in Given(e) => s[i].arg <= cleared[NameOf(e)]) <=>
             /\ \A i \in 1..Len(st) : st[i] \in Given(e) => st[i].arg <= cleared[NameOf(e)]
             /\ f \in Given(e) => f.arg <= cleared[NameOf(e)]
  <2> DEFINE X == Given(e)
             c == cleared[NameOf(e)]
  <2> HIDE DEF X, c
  <2>1. ASSUME \A i \in 1..Len(s) : s[i] \in X => s[i].arg <= c
        PROVE  (\A i \in 1..Len(st) : st[i] \in X => st[i].arg <= c) /\ (f \in X => f.arg <= c)
    <3>1. 1 \in 1..Len(s) /\ \A i \in 1..Len(st) : i + 1 \in 1..Len(s)
      BY <1>1
    <3> QED BY <1>1, <2>1, <3>1
  <2>2. ASSUME \A i \in 1..Len(st) : st[i] \in X => st[i].arg <= c, f \in X => f.arg <= c, NEW i \in 1..Len(s)
        PROVE  s[i] \in X => s[i].arg <= c
    <3>1. CASE i = 1
      BY <1>1, <2>2, <3>1
    <3>2. CASE i # 1
      <4>1. i - 1 \in 1..Len(st) /\ (i - 1) + 1 = i
        BY <1>1, <3>2
      <4> QED BY <1>1, <2>2, <4>1
    <3> QED BY <3>1, <3>2
  <2> QED BY <2>1, <2>2 DEF X, c
<1> QED BY <1>2 DEF SilentOK, s

-----------------------------------------------------------------------------
(***************************************************************************)
(* Calls that come and go.                                                  *)
(***************************************************************************)

\* A loop at its end, or a removal, is counted nowhere.
LEMMA EndsUncounted ==
    ASSUME TypeOK, NEW f \in Frame, FrameOK(f), f.at # "callback", f.kind = "off" \/ AtEnd(f)
    PROVE  Uncounted(f)
<1>1. CASE f.kind = "off"
  BY <1>1 DEF Uncounted, CallsOf, Coming
<1>2. CASE f.kind # "off"
  <2>1. f.at = "loop" /\ AtEnd(f)
    BY <1>2 DEF FrameOK, Frame
  <2> SUFFICES ASSUME NEW e \in EpsOf, f \in Coming(e) PROVE FALSE
    BY <2>1 DEF Uncounted, CallsOf
  <2>2. PICK p \in PlacesOf(f.arr) : p <= f.len /\ f.index <= p
    BY <2>1 DEF Coming
  <2>3. Len(arrays[f.arr]) \in Nat /\ f.index \in Nat /\ f.len \in Nat
    BY TypesOf DEF FrameOK, Frame
  <2> QED BY <2>1, <2>2, <2>3 DEF AtEnd, PlacesOf
<1> QED BY <1>1, <1>2

\* A loop at its end goes, as does a removal that fails.
LEMMA DropHolds ==
    ASSUME TypeOK, ListsOK, NEW s \in Seq(Frame), s # <<>>, Holds(s), s[1].at # "callback", s[1].kind = "off" \/ AtEnd(s[1])
    PROVE  Holds(Tail(s)) /\ Busy(Tail(s)) /\ \A n \in Name : n \notin removed /\ endpoints[n] # None
             /\ Len(arrays[endpoints[n]]) >= 1 => ~AboutTo(s, n)
<1> DEFINE f == s[1]
           st == Tail(s)
<1>1. st \in Seq(Frame) /\ f \in Frame /\ s = push(st, f)
  BY PopIs
<1>2. StackOK(st) /\ FrameOK(f) /\ Busy(st)
  BY BelowBusy DEF Holds
<1>3. f.at # "callback" /\ (f.kind = "off" \/ AtEnd(f))
  OBVIOUS
<1>4. ASSUME NEW n \in Name, n \notin removed, endpoints[n] # None, Len(arrays[endpoints[n]]) >= 1, AboutTo(s, n)
      PROVE  FALSE
  <2>1. f.kind = "fire" /\ f.index = 1 /\ f.arr = endpoints[n] /\ f.len >= 1
    BY <1>4 DEF AboutTo
  <2>2. AtEnd(f)
    BY <1>3, <2>1
  <2>3. f.index > f.len \/ f.index > Len(arrays[endpoints[n]])
    BY <2>1, <2>2 DEF AtEnd
  <2>4. Len(arrays[endpoints[n]]) \in Nat /\ f.len \in Nat
    BY <1>1, <1>4, TypesOf DEF ListsOK, Frame
  <2> QED BY <1>4, <2>1, <2>3, <2>4
<1> HIDE DEF f, st
<1>5. Uncounted(f)
  BY <1>1, <1>2, <1>3, EndsUncounted
<1>6. RunningOK(st) /\ CountsOK(st) /\ SilentOK(st)
  BY <1>1, <1>5, CountsDrop, SilentPush DEF Holds
<1>7. FirstOK(st)
  <2>1. \A n : ~AboutTo(st, n)
    BY <1>2, BusyIs
  <2>2. FirstOK(s)
    BY DEF Holds
  <2> QED BY <1>4, <2>1, <2>2 DEF FirstOK
<1>8. Holds(st)
  BY <1>2, <1>6, <1>7 DEF Holds
<1> QED BY <1>2, <1>4, <1>8 DEF st

\* A removal goes on or fires its event: it is counted nowhere, whatever it does.
LEMMA RemovalHolds ==
    ASSUME TypeOK, NEW st \in Seq(Frame), NEW f \in Frame, Holds(st), Busy(st), f.kind = "off", FrameOK(f),
           st # <<>> => st[1].at = "callback"
    PROVE  Holds(push(st, f)) /\ Busy(push(st, f))
<1>1. StackOK(push(st, f))
  BY PushStack DEF Holds
<1>2. Uncounted(f)
  BY DEF Uncounted, CallsOf, Coming, FrameOK
<1>3. RunningOK(push(st, f)) /\ CountsOK(push(st, f))
  BY <1>2, CountsDrop DEF Holds
<1>4. SilentOK(push(st, f))
  <2>1. \A e \in EpsOf : f \notin Given(e)
    BY DEF Given
  <2>2. SilentOK(st)
    BY DEF Holds
  <2> QED BY <2>1, <2>2, SilentPush
<1>5. Busy(push(st, f))
  <2>1. push(st, f)[1] = f
    BY PushIs
  <2> QED BY <2>1 DEF Busy
<1>6. FirstOK(push(st, f))
  <2> DEFINE s == push(st, f)
  <2>1. Busy(s) /\ FirstOK(st)
    BY <1>5 DEF Holds
  <2> HIDE DEF s
  <2>2. FirstOK(s)
    BY <2>1, FirstKept
  <2> QED BY <2>2 DEF s
<1> QED BY <1>1, <1>3, <1>4, <1>5, <1>6 DEF Holds

\* What holds of a stack after a step holds of the one that the step leaves.
LEMMA HoldsAs ==
    ASSUME NEW s, Holds(s)', stack' = s
    PROVE  Holds(stack)'
<1>1. StackOK(stack)'
  BY DEF Holds, StackOK
<1>2. RunningOK(stack)'
  BY DEF Holds, RunningOK
<1>3. SilentOK(stack)'
  BY DEF Holds, SilentOK
<1>4. CountsOK(stack)'
  BY DEF Holds, CountsOK
<1>5. FirstOK(stack)'
  BY DEF Holds, FirstOK, AboutTo
<1> QED BY <1>1, <1>2, <1>3, <1>4, <1>5 DEF Holds

\* A step that changes nothing but the stack.
LEMMA OnlyStack ==
    ASSUME TypeOK, ListsOK, UNCHANGED <<state, fired, seen, since, cleared, removed>>, NEW s \in Seq(Frame), Holds(s), stack' = s
    PROVE  IInv'
<1>1. TypeOK'
  BY DEF TypeOK, state, Frame
<1>2. ListsOK'
  BY DEF ListsOK, state, EpsOf, ListsOf, PlacesOf, NameOf, Undisturbed
<1>3. /\ EpsOf' = EpsOf /\ \A e : NameOf(e)' = NameOf(e) /\ (Undisturbed(e)' <=> Undisturbed(e)) /\ Coming(e)' = Coming(e)
                               /\ Given(e)' = Given(e) /\ Meant(e)' = Meant(e) /\ Known(e)' = Known(e)
      /\ \A f : FrameOK(f)' <=> FrameOK(f)
      /\ \A n : AboutTo(s, n)' <=> AboutTo(s, n)
  BY DEF state, EpsOf, NameOf, Undisturbed, Coming, Given, Meant, Known, FrameOK, AboutTo, ListsOf, PlacesOf
<1>4. StackOK(s)'
  BY <1>3 DEF Holds, StackOK
<1>5. RunningOK(s)'
  BY <1>3 DEF Holds, RunningOK, state
<1>6. SilentOK(s)'
  BY <1>3 DEF Holds, SilentOK, state
<1>7. CountsOK(s)'
  BY <1>3 DEF Holds, CountsOK, state
<1>8. FirstOK(s)'
  BY <1>3 DEF Holds, FirstOK, state
<1>9. Holds(s)'
  BY <1>4, <1>5, <1>6, <1>7, <1>8 DEF Holds
<1>10. Holds(stack)'
  BY <1>9, HoldsAs
<1> QED BY <1>1, <1>2, <1>10 DEF IInv

-----------------------------------------------------------------------------
(***************************************************************************)
(* Loops over the observers.                                                *)
(***************************************************************************)

\* A loop that goes on has the same array and argument at the next place.
LEMMA GoOnIs ==
    ASSUME NEW f \in Frame
    PROVE  /\ GoOn(f) \in Frame /\ GoOn(f).kind = f.kind /\ GoOn(f).name = f.name /\ GoOn(f).arg = f.arg
           /\ GoOn(f).callback = f.callback /\ GoOn(f).arr = f.arr /\ GoOn(f).index = f.index + 1
           /\ GoOn(f).len = f.len /\ GoOn(f).e = f.e /\ GoOn(f).at = "loop"
<1> DEFINE g == [f EXCEPT !.index = f.index + 1]
           h == [g EXCEPT !.at = "loop"]
<1>1. GoOn(f) = h
  BY DEF GoOn
<1>2. f.index + 1 \in Nat
  BY DEF Frame
<1>3. /\ g \in Frame /\ g.kind = f.kind /\ g.name = f.name /\ g.arg = f.arg /\ g.callback = f.callback
      /\ g.arr = f.arr /\ g.index = f.index + 1 /\ g.len = f.len /\ g.e = f.e
  BY <1>2 DEF Frame
<1> HIDE DEF g
<1>4. /\ h \in Frame /\ h.kind = g.kind /\ h.name = g.name /\ h.arg = g.arg /\ h.callback = g.callback
      /\ h.arr = g.arr /\ h.index = g.index /\ h.len = g.len /\ h.e = g.e /\ h.at = "loop"
  BY <1>3 DEF Frame
<1> HIDE DEF h
<1> QED BY <1>1, <1>3, <1>4

\* A loop that calls an observer is the same call at its callback.
CallOf(f, e) == [f EXCEPT !.at = "callback", !.e = e]

\* What the call of an observer keeps of the loop.
LEMMA CallIs ==
    ASSUME NEW f \in Frame, NEW e \in Nat
    PROVE  /\ CallOf(f, e) \in Frame /\ CallOf(f, e).kind = f.kind /\ CallOf(f, e).name = f.name /\ CallOf(f, e).arg = f.arg
           /\ CallOf(f, e).arr = f.arr /\ CallOf(f, e).index = f.index
           /\ CallOf(f, e).len = f.len /\ CallOf(f, e).e = e /\ CallOf(f, e).at = "callback"
<1> DEFINE a == [f EXCEPT !.at = "callback"]
           h == [a EXCEPT !.e = e]
<1>1. CallOf(f, e) = h
  BY DEF CallOf
<1>2. /\ a \in Frame /\ a.kind = f.kind /\ a.name = f.name /\ a.arg = f.arg
      /\ a.arr = f.arr /\ a.index = f.index /\ a.len = f.len /\ a.at = "callback"
  BY DEF Frame
<1> HIDE DEF a
<1>3. /\ h \in Frame /\ h.kind = a.kind /\ h.name = a.name /\ h.arg = a.arg
      /\ h.arr = a.arr /\ h.index = a.index /\ h.len = a.len /\ h.e = e /\ h.at = a.at
  BY <1>2 DEF Frame
<1> HIDE DEF h
<1> QED BY <1>1, <1>2, <1>3

\* The events fired up to a time that an observer is meant to see.
MeantBy(e, F) == {i \in since[e] + 1..Len(F) : F[i] = NameOf(e)}

\* They are finitely many.
LEMMA MeantIs ==
    ASSUME TypeOK, NEW e \in EpsOf, NEW F \in Seq(Name)
    PROVE  /\ IsFiniteSet(MeantBy(e, F)) /\ Cardinality(MeantBy(e, F)) \in Nat
           /\ MeantBy(e, F) \subseteq 1..Len(F)
<1>1. since[e] \in Nat /\ Len(F) \in Nat
  BY TypesOf, LenProperties
<1>2. IsFiniteSet(1..Len(F)) /\ MeantBy(e, F) \in SUBSET (1..Len(F))
  <2>1. IsFiniteSet(1..Len(F))
    BY <1>1, FS_Interval
  <2>2. \A i \in since[e] + 1..Len(F) : i \in 1..Len(F)
    BY <1>1
  <2> QED BY <2>1, <2>2 DEF MeantBy
<1>3. IsFiniteSet(MeantBy(e, F))
  BY <1>2, FS_Subset
<1> QED BY <1>2, <1>3, FS_CardinalityType

\* One more event is meant for the observers of its name that were there before.
LEMMA MeantGrows ==
    ASSUME TypeOK, NEW e \in EpsOf, NEW F \in Seq(Name), since[e] <= Len(F), NEW name \in Name, fired = Append(F, name)
    PROVE  /\ Meant(e) = IF NameOf(e) = name THEN MeantBy(e, F) \cup {Len(F) + 1} ELSE MeantBy(e, F)
           /\ Cardinality(Meant(e)) = Cardinality(MeantBy(e, F)) + IF NameOf(e) = name THEN 1 ELSE 0
<1> DEFINE M == MeantBy(e, F)
<1>1. since[e] \in Nat /\ Len(F) \in Nat
  BY TypesOf, LenProperties
<1>2. Len(fired) = Len(F) + 1 /\ fired[Len(F) + 1] = name /\ \A i \in 1..Len(F) : fired[i] = F[i]
  BY AppendProperties
<1>3. Meant(e) = {i \in since[e] + 1..Len(F) + 1 : fired[i] = NameOf(e)}
  BY <1>2 DEF Meant, NameOf
<1>4. Meant(e) = IF NameOf(e) = name THEN M \cup {Len(F) + 1} ELSE M
  <2>1. \A i \in since[e] + 1..Len(F) : i \in 1..Len(F) /\ fired[i] = F[i]
    BY <1>1, <1>2
  <2>2. since[e] + 1..Len(F) + 1 = (since[e] + 1..Len(F)) \cup {Len(F) + 1}
    BY <1>1
  <2> QED BY <1>2, <1>3, <2>1, <2>2 DEF MeantBy
<1>5. IsFiniteSet(M) /\ Cardinality(M) \in Nat /\ Len(F) + 1 \notin M
  <2>1. IsFiniteSet(M) /\ Cardinality(M) \in Nat /\ M \subseteq 1..Len(F)
    BY MeantIs
  <2> QED BY <1>1, <2>1
<1> HIDE DEF M
<1>6. Cardinality(M \cup {Len(F) + 1}) = Cardinality(M) + 1
  BY <1>5, FS_AddElement
<1>7. CASE NameOf(e) = name
  <2>1. Meant(e) = M \cup {Len(F) + 1}
    BY <1>4, <1>7
  <2>2. Cardinality(Meant(e)) = Cardinality(M) + 1
    BY <1>6, <2>1
  <2> QED BY <1>7, <2>1, <2>2 DEF M
<1>8. CASE NameOf(e) # name
  <2>1. Meant(e) = M
    BY <1>4, <1>8
  <2>2. Cardinality(Meant(e)) = Cardinality(M) + 0
    BY <1>5, <2>1
  <2> QED BY <1>8, <2>1, <2>2 DEF M
<1> QED BY <1>7, <1>8

-----------------------------------------------------------------------------
(***************************************************************************)
(* Steps that change the endpoints' states only.                            *)
(***************************************************************************)
SameShape ==
    /\ UNCHANGED <<endpoints, arrays, fired, since, cleared, removed>>
    /\ Len(eps') = Len(eps) /\ \A e \in EpsOf : eps'[e].name = eps[e].name

\* Firing and returning change neither the arrays nor what is meant.
LEMMA EpsOnly ==
    ASSUME TypeOK, ListsOK, SameShape
    PROVE  /\ ListsOK' /\ EpsOf' = EpsOf
           /\ \A e \in EpsOf : /\ NameOf(e)' = NameOf(e) /\ (Undisturbed(e)' <=> Undisturbed(e)) /\ Coming(e)' = Coming(e)
                               /\ Given(e)' = Given(e) /\ Meant(e)' = Meant(e)
           /\ \A f : FrameOK(f) => FrameOK(f)'
           /\ \A s : StackOK(s) => StackOK(s)'
<1>1. EpsOf' = EpsOf /\ ListsOf' = ListsOf /\ \A a : PlacesOf(a)' = PlacesOf(a)
  BY DEF SameShape, EpsOf, ListsOf, PlacesOf
<1>2. \A e \in EpsOf : NameOf(e)' = NameOf(e)
  BY DEF SameShape, NameOf
<1>3. \A e \in EpsOf : Undisturbed(e)' <=> Undisturbed(e)
  BY DEF SameShape, Undisturbed
<1>4. \A e \in EpsOf : Coming(e)' = Coming(e)
  BY <1>1, <1>2 DEF SameShape, Coming
<1>5. \A e \in EpsOf : Given(e)' = Given(e)
  BY <1>1 DEF SameShape, Given
<1>6. \A e \in EpsOf : Meant(e)' = Meant(e)
  BY DEF SameShape, Meant
<1>7. \A a \in ListsOf : \A p \in PlacesOf(a) : NameOf(arrays[a][p])' = NameOf(arrays[a][p]) /\ arrays'[a][p] = arrays[a][p]
  BY <1>2 DEF ListsOK, SameShape
<1>8. \A f : FrameOK(f) => FrameOK(f)'
  <2> SUFFICES ASSUME NEW f, FrameOK(f) PROVE FrameOK(f)'
    OBVIOUS
  <2>1. f.arr \in ListsOf /\ (f.at = "callback" => f.e \in EpsOf)
    BY DEF FrameOK
  <2>2. f.at = "callback" => NameOf(f.e)' = NameOf(f.e)
    BY <1>2, <2>1
  <2>3. \A p \in PlacesOf(f.arr) : NameOf(arrays[f.arr][p])' = NameOf(arrays[f.arr][p])
    BY <1>7, <2>1
  <2> QED BY <1>1, <2>1, <2>2, <2>3 DEF FrameOK, SameShape
<1>9. \A s : StackOK(s) => StackOK(s)'
  BY <1>8 DEF StackOK
<1>10. ListsOK'
  <2>1. /\ endpoints' = endpoints /\ arrays' = arrays /\ fired' = fired /\ since' = since /\ cleared' = cleared
    BY DEF SameShape
  <2>2. (\A a \in ListsOf : \A p \in PlacesOf(a) : arrays[a][p] \in EpsOf)'
    BY <1>1, <2>1 DEF ListsOK
  <2>3. (\A a, b \in ListsOf : \A p \in PlacesOf(a), q \in PlacesOf(b) : arrays[a][p] = arrays[b][q] => a = b /\ p = q)'
    BY <1>1, <2>1 DEF ListsOK
  <2>4. (\A n \in Name : endpoints[n] # None =>
         /\ endpoints[n] \in ListsOf
         /\ \A p \in PlacesOf(endpoints[n]) :
              NameOf(arrays[endpoints[n]][p]) = n /\ cleared[n] <= since[arrays[endpoints[n]][p]])'
    BY <1>1, <1>7, <2>1 DEF ListsOK
  <2>5. (\A m, n \in Name : endpoints[m] = endpoints[n] /\ endpoints[m] # None => m = n)'
    BY <2>1 DEF ListsOK
  <2>6. (\A a \in ListsOf : \A p \in PlacesOf(a) :
         endpoints[NameOf(arrays[a][p])] # a => cleared[NameOf(arrays[a][p])] > since[arrays[a][p]])'
    BY <1>1, <1>7, <2>1 DEF ListsOK
  <2>7. (\A e \in EpsOf : Undisturbed(e) =>
         endpoints[NameOf(e)] # None /\ \E p \in PlacesOf(endpoints[NameOf(e)]) : arrays[endpoints[NameOf(e)]][p] = e)'
    BY <1>1, <1>2, <1>3, <2>1 DEF ListsOK
  <2>8. (\A e \in EpsOf : since[e] < Len(fired))' /\ (\A n \in Name : cleared[n] <= Len(fired))'
    BY <1>1, <2>1 DEF ListsOK
  <2> QED BY <2>2, <2>3, <2>4, <2>5, <2>6, <2>7, <2>8 DEF ListsOK
<1> QED BY <1>1, <1>2, <1>3, <1>4, <1>5, <1>6, <1>8, <1>9, <1>10

\* The observer that a loop has come to.
LEMMA CurrentIs ==
    ASSUME TypeOK, ListsOK, NEW f \in Frame, FrameOK(f), ~AtEnd(f)
    PROVE  /\ f.index \in PlacesOf(f.arr) /\ f.index \in Nat /\ f.len \in Nat /\ f.index <= f.len /\ f.index >= 1
           /\ f.arr \in ListsOf /\ arrays[f.arr][f.index] \in EpsOf /\ NameOf(arrays[f.arr][f.index]) = f.name
           /\ \A a \in ListsOf : \A p \in PlacesOf(a) : arrays[a][p] = arrays[f.arr][f.index] => a = f.arr /\ p = f.index
<1>1. f.index \in Nat /\ f.len \in Nat /\ f.arr \in ListsOf /\ f.index >= 1
  BY DEF Frame, FrameOK
<1>2. Len(arrays[f.arr]) \in Nat
  BY <1>1, TypesOf
<1>3. f.index <= f.len /\ f.index \in PlacesOf(f.arr)
  BY <1>1, <1>2 DEF AtEnd, PlacesOf
<1>4. arrays[f.arr][f.index] \in EpsOf
  BY <1>1, <1>3 DEF ListsOK
<1>5. NameOf(arrays[f.arr][f.index]) = f.name
  BY <1>3 DEF FrameOK
<1>6. \A a \in ListsOf : \A p \in PlacesOf(a) : arrays[a][p] = arrays[f.arr][f.index] => a = f.arr /\ p = f.index
  BY <1>1, <1>3 DEF ListsOK
<1> QED BY <1>1, <1>3, <1>4, <1>5, <1>6

\* The call that a loop has become is past the observer that it had come to.
IsPast(f, g) ==
    /\ f \in Frame /\ g \in Frame /\ f.kind = "fire" /\ f.at = "loop"
    /\ g.kind = f.kind /\ g.arr = f.arr /\ g.len = f.len
    /\ \/ g.at = "loop" /\ g.index = f.index + 1
       \/ g.at = "callback" /\ g.index = f.index

\* The observer that a loop has come to
IsAt(f, e) == e = arrays[f.arr][f.index]

\* The event of a loop is taken note of by one observer, at its end.
Takes(e, arg) ==
    /\ SameShape /\ \A x \in EpsOf : x # e => seen'[x] = seen[x] /\ eps'[x].pending = eps[x].pending
    /\ Known(e)' = Append(Known(e), arg)
    /\ Len(seen'[e]) + Len(eps'[e].pending) = Len(seen[e]) + Len(eps[e].pending) + 1

\* The loop goes past an observer that has taken note of its event: the count of
\* each observer is still right, and the first have all events in their order.
LEMMA StepPast ==
    ASSUME TypeOK, TypeOK', ListsOK, NEW st \in Seq(Frame), NEW f \in Frame, NEW g \in Frame, FrameOK(f), ~AtEnd(f), IsPast(f, g),
           CountsOK(push(st, f)), FirstOK(push(st, f)), NEW e \in EpsOf, IsAt(f, e), Takes(e, f.arg)
    PROVE  CountsOK(push(st, g))' /\ FirstOK(push(st, g))'
<1>1. /\ f.index \in PlacesOf(f.arr) /\ f.index \in Nat /\ f.len \in Nat /\ f.index <= f.len /\ f.index >= 1
      /\ f.arr \in ListsOf /\ e \in EpsOf /\ NameOf(e) = f.name
      /\ \A a \in ListsOf : \A p \in PlacesOf(a) : arrays[a][p] = e => a = f.arr /\ p = f.index
  BY CurrentIs DEF IsAt
<1>2. Takes(e, f.arg) /\ SameShape
  BY DEF Takes
<1>3. arrays[f.arr][f.index] = e
  BY DEF IsAt
<1>4. \A p \in PlacesOf(f.arr) : p \in Nat /\ p >= 1
  <2>1. Len(arrays[f.arr]) \in Nat
    BY <1>1, TypesOf
  <2> QED BY <2>1 DEF PlacesOf
<1>5. ASSUME NEW x \in EpsOf, x # e PROVE f \in Coming(x) <=> g \in Coming(x)
  <2>1. \A p \in PlacesOf(f.arr) : arrays[f.arr][p] = x => p # f.index
    BY <1>3, <1>5
  <2>2. \A p \in PlacesOf(f.arr) : arrays[f.arr][p] = x =>
          (f.index <= p <=> (IF g.at = "loop" THEN g.index <= p ELSE g.index < p))
    BY <1>1, <1>4, <2>1 DEF IsPast
  <2>3. f \in Coming(x) <=> f.arr = endpoints[NameOf(x)]
                            /\ \E p \in PlacesOf(f.arr) : arrays[f.arr][p] = x /\ p <= f.len /\ f.index <= p
    BY DEF Coming, IsPast
  <2>4. g \in Coming(x) <=> f.arr = endpoints[NameOf(x)]
                            /\ \E p \in PlacesOf(f.arr) : arrays[f.arr][p] = x /\ p <= f.len
                                                          /\ (IF g.at = "loop" THEN g.index <= p ELSE g.index < p)
    BY DEF Coming, IsPast
  <2> QED BY <2>2, <2>3, <2>4
<1>6. Undisturbed(e) => f \in Coming(e)
  <2> SUFFICES ASSUME Undisturbed(e) PROVE f \in Coming(e)
    OBVIOUS
  <2>1. endpoints[NameOf(e)] # None /\ \E p \in PlacesOf(endpoints[NameOf(e)]) : arrays[endpoints[NameOf(e)]][p] = e
    BY <1>1 DEF ListsOK
  <2>2. NameOf(e) \in Name
    BY <1>1, TypesOf
  <2>3. endpoints[NameOf(e)] \in ListsOf
    BY <2>1, <2>2 DEF ListsOK
  <2>4. f.arr = endpoints[NameOf(e)]
    BY <1>1, <2>1, <2>3
  <2> QED BY <1>1, <1>3, <2>4 DEF Coming, IsPast
<1>7. g \notin Coming(e)
  <2> SUFFICES ASSUME g \in Coming(e) PROVE FALSE
    OBVIOUS
  <2>1. PICK p \in PlacesOf(f.arr) : arrays[f.arr][p] = e /\ (IF g.at = "loop" THEN g.index <= p ELSE g.index < p)
    BY DEF Coming, IsPast
  <2>2. p = f.index
    BY <1>1, <2>1
  <2> QED BY <1>1, <2>1, <2>2 DEF IsPast
<1>8. /\ EpsOf' = EpsOf
      /\ \A x \in EpsOf : /\ NameOf(x)' = NameOf(x) /\ (Undisturbed(x)' <=> Undisturbed(x)) /\ Coming(x)' = Coming(x)
                          /\ Meant(x)' = Meant(x)
  BY <1>2, EpsOnly
<1>9. CountsOK(push(st, g))'
  <2> SUFFICES ASSUME NEW x \in EpsOf, Undisturbed(x)
               PROVE  Len(seen'[x]) + Len(eps'[x].pending) + Count(push(st, g), Coming(x)) = Cardinality(Meant(x))
    BY <1>8 DEF CountsOK
  <2> DEFINE X == Coming(x)
  <2>1. Len(seen[x]) + Len(eps[x].pending) + Count(push(st, f), X) = Cardinality(Meant(x))
    BY DEF CountsOK
  <2>2. Len(seen[x]) \in Nat /\ Len(eps[x].pending) \in Nat
    BY TypesOf
  <2>3. CASE x = e
    <3>1. f \in X /\ g \notin X
      BY <1>6, <1>7, <2>3
    <3> HIDE DEF X
    <3>2. Count(push(st, f), X) = Count(st, X) + 1 /\ Count(push(st, g), X) = Count(st, X) + 0 /\ Count(st, X) \in Nat
      <4>1. Count(push(st, f), X) = Count(st, X) + 1
        BY <3>1, CountPush
      <4>2. Count(push(st, g), X) = Count(st, X) + 0
        BY <3>1, CountPush
      <4> QED BY <4>1, <4>2, CountIs
    <3>3. Len(seen'[x]) + Len(eps'[x].pending) = Len(seen[x]) + Len(eps[x].pending) + 1
      BY <1>2, <2>3 DEF Takes
    <3> DEFINE l == Len(seen[x])
               m == Len(eps[x].pending)
               c == Count(st, X)
    <3>4. l \in Nat /\ m \in Nat /\ c \in Nat /\ l + m + (c + 1) = Cardinality(Meant(x)) /\ Count(push(st, g), X) = c + 0
      BY <2>1, <2>2, <3>2
    <3> HIDE DEF l, m, c
    <3>5. (l + m + 1) + Count(push(st, g), X) = Cardinality(Meant(x))
      BY <3>4
    <3> QED BY <3>3, <3>5 DEF X, l, m
  <2>4. CASE x # e
    <3>1. f \in X <=> g \in X
      BY <1>5, <2>4
    <3> HIDE DEF X
    <3>2. Count(push(st, f), X) = Count(push(st, g), X)
      BY <3>1, CountPush
    <3>3. seen'[x] = seen[x] /\ eps'[x].pending = eps[x].pending
      BY <1>2, <2>4 DEF Takes
    <3> QED BY <2>1, <3>2, <3>3 DEF X
  <2> QED BY <2>3, <2>4
<1>10. FirstOK(push(st, g))'
  <2> DEFINE s == push(st, f)
             t == push(st, g)
  <2>1. s[1] = f /\ t[1] = g /\ s # <<>>
    BY PushIs
  <2>2. endpoints' = endpoints /\ arrays' = arrays /\ removed' = removed
    BY <1>2 DEF SameShape
  <2>3. FirstOK(s)
    OBVIOUS
  <2> HIDE DEF s, t
  <2> SUFFICES ASSUME NEW n \in Name, n \notin removed, endpoints[n] # None, Len(arrays[endpoints[n]]) >= 1,
                      NEW x, x = arrays[endpoints[n]][1]
               PROVE  Ascending(Known(x))' /\ ~AboutTo(t, n)' /\ Range(Known(x))' = Meant(x)'
    BY <2>2 DEF FirstOK, t
  <2>4. endpoints[n] \in ListsOf /\ 1 \in PlacesOf(endpoints[n]) /\ x \in EpsOf
    <3>1. endpoints[n] \in ListsOf
      BY DEF ListsOK
    <3>2. 1 \in PlacesOf(endpoints[n])
      BY <3>1, TypesOf DEF PlacesOf
    <3> QED BY <3>1, <3>2 DEF ListsOK
  <2>5. ~AboutTo(t, n)'
    BY <1>1, <2>1 DEF AboutTo, IsPast
  <2>6. /\ Ascending(Known(x))
        /\ IF AboutTo(s, n)
           THEN /\ \A i \in 1..Len(Known(x)) : Known(x)[i] < s[1].arg
                /\ Range(Known(x)) \cup {s[1].arg} = Meant(x)
           ELSE Range(Known(x)) = Meant(x)
    BY <2>3 DEF FirstOK
  <2>7. AboutTo(s, n) <=> x = e
    <3>1. AboutTo(s, n) <=> f.index = 1 /\ f.arr = endpoints[n]
      BY <1>1, <2>1 DEF AboutTo, IsPast
    <3> QED BY <1>1, <1>3, <2>4, <3>1
  <2>8. Meant(x)' = Meant(x)
    BY <1>8, <2>4
  <2>9. CASE x # e
    <3>1. seen'[x] = seen[x] /\ eps'[x].pending = eps[x].pending
      BY <1>2, <2>4, <2>9 DEF Takes
    <3>2. Known(x)' = Known(x)
      BY <2>2, <3>1 DEF Known
    <3> QED BY <2>2, <2>5, <2>6, <2>7, <2>8, <2>9, <3>2
  <2>10. CASE x = e
    <3> DEFINE k == Known(x)
               a == f.arg
    <3>1. k \in Seq(Nat) /\ a \in Nat /\ Len(k) \in Nat
      <4>1. seen[x] \in Seq(Nat) /\ eps[x].pending \in Seq(Nat)
        BY <2>4, TypesOf
      <4>2. k \in Seq(Nat)
        BY <4>1, ConcatProperties DEF Known
      <4> QED BY <4>2, LenProperties DEF Frame
    <3>2. Ascending(k) /\ (\A i \in 1..Len(k) : k[i] < a) /\ Range(k) \cup {a} = Meant(x)
      BY <2>1, <2>6, <2>7, <2>10
    <3>3. Known(x)' = Append(k, a)
      <4>1. Known(e)' = Append(Known(e), f.arg)
        BY <1>2 DEF Takes
      <4> QED BY <2>2, <2>10, <4>1
    <3> HIDE DEF k, a
    <3>4. /\ Append(k, a) \in Seq(Nat) /\ Len(Append(k, a)) = Len(k) + 1 /\ Append(k, a)[Len(k) + 1] = a
          /\ \A i \in 1..Len(k) : Append(k, a)[i] = k[i]
      BY <3>1, AppendProperties
    <3>5. Ascending(Append(k, a)) /\ Range(Append(k, a)) = Range(k) \cup {a}
      <4> DEFINE q == Append(k, a)
      <4>1. Len(q) = Len(k) + 1 /\ q[Len(k) + 1] = a /\ (\A i \in 1..Len(k) : q[i] = k[i]) /\ q \in Seq(Nat)
        BY <3>4
      <4> HIDE DEF q
      <4>2. DOMAIN q = 1..Len(k) + 1 /\ DOMAIN k = 1..Len(k)
        BY <3>1, <4>1
      <4>3. ASSUME NEW i \in DOMAIN q, NEW j \in DOMAIN q, i < j PROVE q[i] < q[j]
        <5>1. i \in 1..Len(k)
          BY <3>1, <4>2, <4>3
        <5>2. CASE j = Len(k) + 1
          BY <3>2, <4>1, <5>1, <5>2
        <5>3. CASE j # Len(k) + 1
          <6>1. j \in 1..Len(k)
            BY <3>1, <4>2, <5>3
          <6>2. k[i] < k[j]
            BY <3>2, <4>2, <4>3, <5>1, <6>1 DEF Ascending
          <6> QED BY <4>1, <5>1, <6>1, <6>2
        <5> QED BY <5>2, <5>3
      <4>4. Range(q) = Range(k) \cup {a}
        <5>1. \A y \in Range(q) : y \in Range(k) \cup {a}
          BY <3>1, <4>1, <4>2 DEF Range
        <5>2. \A y \in Range(k) : y \in Range(q)
          BY <3>1, <4>1, <4>2 DEF Range
        <5>3. Len(k) + 1 \in DOMAIN q
          BY <3>1, <4>2
        <5>4. a \in Range(q)
          BY <4>1, <5>3 DEF Range
        <5> QED BY <5>1, <5>2, <5>4
      <4> QED BY <4>3, <4>4 DEF Ascending, q
    <3>6. Ascending(Known(x))' /\ Range(Known(x))' = Meant(x)'
      BY <2>2, <2>8, <3>2, <3>3, <3>5 DEF Ascending, Range
    <3> QED BY <2>5, <3>6
  <2> QED BY <2>9, <2>10
<1> QED BY <1>9, <1>10

-----------------------------------------------------------------------------
(***************************************************************************)
(* The steps of a loop.                                                     *)
(***************************************************************************)

\* The call on the top and what is below it.
LEMMA TopIs ==
    ASSUME NEW s \in Seq(Frame), s # <<>>, Holds(s)
    PROVE  /\ s[1] \in Frame /\ Tail(s) \in Seq(Frame) /\ s = push(Tail(s), s[1])
           /\ FrameOK(s[1]) /\ StackOK(Tail(s)) /\ Busy(Tail(s))
           /\ Tail(s) # <<>> => Tail(s)[1].at = "callback" \/ (Tail(s)[1].at = "splice" /\ s[1].kind = "fire")
<1>1. s[1] \in Frame /\ Tail(s) \in Seq(Frame) /\ s = push(Tail(s), s[1]) /\ Len(Tail(s)) = Len(s) - 1 /\ Len(s) >= 1
  BY PopIs
<1>2. FrameOK(s[1]) /\ StackOK(Tail(s)) /\ Busy(Tail(s))
  BY BelowBusy DEF Holds
<1>3. ASSUME Tail(s) # <<>> PROVE Tail(s)[1].at = "callback" \/ (Tail(s)[1].at = "splice" /\ s[1].kind = "fire")
  <2>1. Len(s) \in Nat /\ Len(Tail(s)) \in Nat /\ Len(Tail(s)) # 0
    BY <1>1, <1>3, LenProperties, EmptySeq
  <2>2. 2 \in 1..Len(s) /\ 1 \in 1..Len(Tail(s))
    BY <1>1, <2>1
  <2>3. Tail(s)[1] = s[2]
    <3>1. \A i \in 1..Len(Tail(s)) : Tail(s)[i] = s[i + 1]
      BY HeadTailProperties
    <3> QED BY <2>2, <3>1
  <2>4. s[2].at = "callback" \/ (s[2].at = "splice" /\ s[2 - 1].kind = "fire")
    BY <2>2 DEF Holds, StackOK
  <2>5. s[2 - 1] = s[1]
    OBVIOUS
  <2> QED BY <2>3, <2>4, <2>5
<1> QED BY <1>1, <1>2, <1>3

\* A loop that has come to the end of its array returns.
LEMMA EndLoopKeeps ==
    ASSUME IInv, EndLoop
    PROVE  IInv'
<1> DEFINE t == Tail(stack)
<1>1. TypeOK /\ ListsOK /\ Holds(stack) /\ stack \in Seq(Frame) /\ stack # <<>>
  BY TypesOf DEF IInv, EndLoop
<1>2. stack[1].at # "callback" /\ AtEnd(stack[1])
  BY DEF EndLoop, Top
<1>3. Holds(t) /\ t \in Seq(Frame)
  BY <1>1, <1>2, DropHolds, PopIs
<1>4. UNCHANGED <<state, fired, seen, since, cleared, removed>> /\ stack' = t
  BY DEF EndLoop, Pop
<1> HIDE DEF t
<1> QED BY <1>1, <1>3, <1>4, OnlyStack

\* A step of a loop that changes the state of one observer
Marks(e, v, r) ==
    /\ e \in EpsOf /\ v \in EndpointSet /\ v.name = eps[e].name /\ r \in Seq(Nat)
    /\ eps' = [eps EXCEPT ![e] = v] /\ seen' = [seen EXCEPT ![e] = r] /\ stack' \in Seq(Frame)
    /\ UNCHANGED <<endpoints, arrays, fired, since, cleared, removed>>

\* The states of endpoints after it.
LEMMA EpsTypes ==
    ASSUME TypeOK, NEW e, NEW v, NEW r, Marks(e, v, r)
    PROVE  /\ TypeOK' /\ SameShape
           /\ eps'[e] = v /\ seen'[e] = r
           /\ \A x \in EpsOf : x # e => eps'[x] = eps[x] /\ seen'[x] = seen[x]
<1>0. /\ e \in EpsOf /\ v \in EndpointSet /\ v.name = eps[e].name /\ r \in Seq(Nat)
      /\ eps' = [eps EXCEPT ![e] = v] /\ seen' = [seen EXCEPT ![e] = r] /\ stack' \in Seq(Frame)
      /\ UNCHANGED <<endpoints, arrays, fired, since, cleared, removed>>
  BY DEF Marks
<1>1. eps \in Seq(EndpointSet) /\ eps[e] \in EndpointSet /\ seen \in Seq(Seq(Nat)) /\ Len(seen) = Len(eps) /\ e \in 1..Len(eps)
  BY <1>0, TypesOf DEF TypeOK, EndpointSet, EpsOf
<1>4. /\ eps' \in Seq(EndpointSet) /\ Len(eps') = Len(eps) /\ eps'[e] = v
      /\ \A x \in 1..Len(eps) : x # e => eps'[x] = eps[x]
  <2>1. [eps EXCEPT ![e] = v] \in Seq(EndpointSet) /\ Len([eps EXCEPT ![e] = v]) = Len(eps)
        /\ \A x \in 1..Len(eps) : [eps EXCEPT ![e] = v][x] = IF x = e THEN v ELSE eps[x]
    BY <1>0, <1>1, ExceptSeq
  <2> QED BY <1>0, <1>1, <2>1
<1>5. /\ seen' \in Seq(Seq(Nat)) /\ Len(seen') = Len(seen) /\ seen'[e] = r
      /\ \A x \in 1..Len(seen) : x # e => seen'[x] = seen[x]
  <2>1. [seen EXCEPT ![e] = r] \in Seq(Seq(Nat)) /\ Len([seen EXCEPT ![e] = r]) = Len(seen)
        /\ \A x \in 1..Len(seen) : [seen EXCEPT ![e] = r][x] = IF x = e THEN r ELSE seen[x]
    BY <1>0, <1>1, ExceptSeq
  <2> QED BY <1>0, <1>1, <2>1
<1>6. TypeOK'
  BY <1>0, <1>1, <1>4, <1>5 DEF TypeOK, EndpointSet, Frame
<1>7. SameShape
  BY <1>0, <1>1, <1>4 DEF SameShape, EpsOf
<1> QED BY <1>1, <1>4, <1>5, <1>6, <1>7 DEF EpsOf

\* What is known of a call to the observer that a loop has come to.
LEMMA LoopIs ==
    ASSUME IInv, NEW f, NEW e, f = Top, e = Current, Looping("fire"), ~AtEnd(Top)
    PROVE  /\ TypeOK /\ ListsOK /\ Holds(stack) /\ f \in Frame /\ Pop \in Seq(Frame) /\ stack = push(Pop, f)
           /\ FrameOK(f) /\ StackOK(Pop) /\ Busy(Pop)
           /\ Pop # <<>> => Pop[1].at = "callback" \/ (Pop[1].at = "splice" /\ f.kind = "fire")
           /\ f.kind = "fire" /\ f.at = "loop" /\ ~AtEnd(f) /\ e \in EpsOf /\ IsAt(f, e) /\ NameOf(e) = f.name
           /\ f.arg \in 1..Len(fired) /\ f \in Given(e)
<1>1. TypeOK /\ ListsOK /\ Holds(stack) /\ stack \in Seq(Frame) /\ stack # <<>>
  BY TypesOf DEF IInv, Looping
<1>2. /\ f \in Frame /\ Pop \in Seq(Frame) /\ stack = push(Pop, f)
      /\ FrameOK(f) /\ StackOK(Pop) /\ Busy(Pop)
      /\ Pop # <<>> => Pop[1].at = "callback" \/ (Pop[1].at = "splice" /\ f.kind = "fire")
  BY <1>1, TopIs DEF Top, Pop
<1>3. f.kind = "fire" /\ f.at = "loop" /\ ~AtEnd(f) /\ e = arrays[f.arr][f.index]
  BY DEF Looping, Top, Current
<1>4. f.index \in PlacesOf(f.arr) /\ e \in EpsOf /\ NameOf(e) = f.name
  BY <1>1, <1>2, <1>3, CurrentIs
<1>5. f.arg \in 1..Len(fired)
  BY <1>2, <1>3 DEF FrameOK
<1>6. f \in Given(e)
  BY <1>2, <1>3, <1>4 DEF Given
<1> QED BY <1>1, <1>2, <1>3, <1>4, <1>5, <1>6 DEF IsAt

\* The events that an observer was called with, and those that wait for it
Occurs(e, v) ==
    \/ \E i \in 1..Len(seen[e]) : seen[e][i] = v
    \/ \E i \in 1..Len(eps[e].pending) : eps[e].pending[i] = v

\* A call brings no later event to an observer that was cleared
NotLate(g) == \A x \in EpsOf : cleared[NameOf(x)] > since[x] => (g \in Given(x) => g.arg <= cleared[NameOf(x)])

\* The events that observers have after a step are theirs or that of the loop.
LEMMA SilentStep ==
    ASSUME TypeOK, ListsOK, SameShape, NEW st \in Seq(Frame), NEW f \in Frame, NEW g \in Frame, SilentOK(push(st, f)),
           f.arg \in 1..Len(fired), \A x \in EpsOf : \A v : Occurs(x, v)' => Occurs(x, v) \/ (v = f.arg /\ f \in Given(x)),
           NotLate(g)
    PROVE  SilentOK(push(st, g))'
<1>1. SilentOK(st) /\ NotLate(f)
  BY SilentPush DEF NotLate
<1> DEFINE s == push(st, g)
<1>2. SilentOK(s)
  BY <1>1, SilentPush DEF NotLate
<1> HIDE DEF s
<1>3. /\ EpsOf' = EpsOf /\ \A x \in EpsOf : NameOf(x)' = NameOf(x) /\ Given(x)' = Given(x)
      /\ cleared' = cleared /\ since' = since /\ fired' = fired
  BY EpsOnly DEF SameShape
<1>4. ASSUME NEW x \in EpsOf, NEW v, Occurs(x, v)
      PROVE  v \in 1..Len(fired) /\ (cleared[NameOf(x)] > since[x] => v <= cleared[NameOf(x)])
  BY <1>1, <1>4 DEF SilentOK, Occurs
<1>5. ASSUME NEW x \in EpsOf, NEW v, Occurs(x, v)'
      PROVE  v \in 1..Len(fired) /\ (cleared[NameOf(x)] > since[x] => v <= cleared[NameOf(x)])
  <2>1. CASE Occurs(x, v)
    BY <1>4, <2>1
  <2>2. CASE v = f.arg /\ f \in Given(x)
    BY <1>1, <2>2 DEF NotLate
  <2> QED BY <1>5, <2>1, <2>2
<1>6. ASSUME NEW x \in EpsOf
      PROVE  /\ \A i \in 1..Len(seen'[x]) : seen'[x][i] \in 1..Len(fired)
             /\ \A i \in 1..Len(eps'[x].pending) : eps'[x].pending[i] \in 1..Len(fired)
             /\ cleared[NameOf(x)] > since[x] =>
                  /\ \A i \in 1..Len(seen'[x]) : seen'[x][i] <= cleared[NameOf(x)]
                  /\ \A i \in 1..Len(eps'[x].pending) : eps'[x].pending[i] <= cleared[NameOf(x)]
                  /\ \A i \in 1..Len(s) : s[i] \in Given(x) => s[i].arg <= cleared[NameOf(x)]
  <2>1. ASSUME NEW i \in 1..Len(seen'[x])
        PROVE  seen'[x][i] \in 1..Len(fired) /\ (cleared[NameOf(x)] > since[x] => seen'[x][i] <= cleared[NameOf(x)])
    <3> SUFFICES ASSUME NEW v, v = seen'[x][i] PROVE v \in 1..Len(fired) /\ (cleared[NameOf(x)] > since[x] => v <= cleared[NameOf(x)])
      OBVIOUS
    <3>1. Occurs(x, v)'
      BY DEF Occurs
    <3> QED BY <1>5, <3>1
  <2>2. ASSUME NEW i \in 1..Len(eps'[x].pending)
        PROVE  eps'[x].pending[i] \in 1..Len(fired) /\ (cleared[NameOf(x)] > since[x] => eps'[x].pending[i] <= cleared[NameOf(x)])
    <3> SUFFICES ASSUME NEW v, v = eps'[x].pending[i]
                 PROVE v \in 1..Len(fired) /\ (cleared[NameOf(x)] > since[x] => v <= cleared[NameOf(x)])
      OBVIOUS
    <3>1. Occurs(x, v)'
      BY DEF Occurs
    <3> QED BY <1>5, <3>1
  <2>3. cleared[NameOf(x)] > since[x] => \A i \in 1..Len(s) : s[i] \in Given(x) => s[i].arg <= cleared[NameOf(x)]
    BY <1>2 DEF SilentOK
  <2> QED BY <2>1, <2>2, <2>3
<1>7. SilentOK(s)'
  BY <1>3, <1>6 DEF SilentOK
<1> QED BY <1>7 DEF s

\* An observer that is running has the event put behind those that wait for it.
LEMMA PostponeKeeps ==
    ASSUME IInv, Postpone
    PROVE  IInv'
<1> SUFFICES ASSUME NEW f, NEW e, f = Top, e = Current PROVE IInv'
  OBVIOUS
<1>1. /\ TypeOK /\ ListsOK /\ Holds(stack) /\ f \in Frame /\ Pop \in Seq(Frame) /\ stack = push(Pop, f)
      /\ FrameOK(f) /\ StackOK(Pop) /\ Busy(Pop)
      /\ Pop # <<>> => Pop[1].at = "callback" \/ (Pop[1].at = "splice" /\ f.kind = "fire")
      /\ f.kind = "fire" /\ f.at = "loop" /\ ~AtEnd(f) /\ e \in EpsOf /\ IsAt(f, e) /\ NameOf(e) = f.name
      /\ f.arg \in 1..Len(fired) /\ f \in Given(e)
  <2>1. Looping("fire") /\ ~AtEnd(Top)
    BY DEF Postpone
  <2> QED BY <2>1, LoopIs
<1> SUFFICES ASSUME NEW st, st = Pop, NEW g, g = GoOn(f) PROVE IInv'
  OBVIOUS
<1>2. /\ g \in Frame /\ g.kind = f.kind /\ g.name = f.name /\ g.arg = f.arg
      /\ g.arr = f.arr /\ g.index = f.index + 1 /\ g.len = f.len /\ g.at = "loop"
  BY <1>1, GoOnIs
<1> DEFINE q == Append(eps[e].pending, f.arg)
<1>3. /\ eps' = [eps EXCEPT ![e].pending = q] /\ stack' = push(st, g) /\ eps[e].active
      /\ UNCHANGED <<endpoints, arrays, fired, seen, since, cleared, removed>>
  BY DEF Postpone
<1>4. /\ eps[e].pending \in Seq(Nat) /\ q \in Seq(Nat) /\ f.arg \in Nat /\ eps[e] \in EndpointSet /\ seen \in Seq(Seq(Nat))
      /\ Len(q) = Len(eps[e].pending) + 1 /\ Len(eps[e].pending) \in Nat /\ seen[e] \in Seq(Nat) /\ Len(seen[e]) \in Nat
      /\ q # <<>> /\ \A i \in 1..Len(q) : q[i] = f.arg \/ \E j \in 1..Len(eps[e].pending) : q[i] = eps[e].pending[j]
  <2> DEFINE r == eps[e].pending
  <2>1. r \in Seq(Nat) /\ f.arg \in Nat /\ eps[e] \in EndpointSet /\ seen \in Seq(Seq(Nat)) /\ Len(r) \in Nat
        /\ seen[e] \in Seq(Nat) /\ Len(seen[e]) \in Nat
    BY <1>1, TypesOf DEF Frame, TypeOK
  <2> HIDE DEF r
  <2>2. /\ Append(r, f.arg) \in Seq(Nat) /\ Len(Append(r, f.arg)) = Len(r) + 1
        /\ Append(r, f.arg)[Len(r) + 1] = f.arg /\ \A i \in 1..Len(r) : Append(r, f.arg)[i] = r[i]
    BY <2>1, AppendProperties
  <2>3. \A i \in 1..Len(r) + 1 : i = Len(r) + 1 \/ i \in 1..Len(r)
    BY <2>1
  <2>4. Append(r, f.arg) # <<>>
    <3> DEFINE a == Append(r, f.arg)
    <3>1. Len(a) = Len(r) + 1 /\ Len(a) # 0
      BY <2>1, <2>2
    <3> HIDE DEF a
    <3>2. a # <<>>
      BY <3>1
    <3> QED BY <3>2 DEF a
  <2> QED BY <2>1, <2>2, <2>3, <2>4 DEF r
<1> HIDE DEF q
<1>5. /\ TypeOK' /\ SameShape /\ eps'[e].active = TRUE /\ eps'[e].pending = q /\ seen'[e] = seen[e]
      /\ \A x \in EpsOf : x # e => eps'[x] = eps[x] /\ seen'[x] = seen[x]
  <2> DEFINE u == eps[e]
             v == [u EXCEPT !.pending = q]
  <2>1. u \in EndpointSet /\ u.active = TRUE /\ eps' = [eps EXCEPT ![e] = v]
    BY <1>3, <1>4
  <2>4. v \in EndpointSet /\ v.name = u.name /\ v.active = TRUE /\ v.pending = q
    <3> HIDE DEF u
    <3> QED BY <1>4, <2>1 DEF EndpointSet
  <2> HIDE DEF v
  <2>2. seen' = [seen EXCEPT ![e] = seen[e]]
    BY <1>3, <1>4
  <2>3. stack' \in Seq(Frame)
    BY <1>1, <1>2, <1>3, PushIs
  <2> DEFINE r == seen[e]
  <2>5. e \in EpsOf /\ v \in EndpointSet /\ v.name = eps[e].name /\ r \in Seq(Nat)
    BY <1>1, <1>4, <2>4
  <2>6. /\ eps' = [eps EXCEPT ![e] = v] /\ seen' = [seen EXCEPT ![e] = r]
        /\ UNCHANGED <<endpoints, arrays, fired, since, cleared, removed>> /\ TypeOK
    BY <1>1, <1>3, <2>1, <2>2
  <2> HIDE DEF r
  <2>7. /\ TypeOK' /\ SameShape /\ eps'[e] = v /\ seen'[e] = r
        /\ \A x \in EpsOf : x # e => eps'[x] = eps[x] /\ seen'[x] = seen[x]
    <3>1. Marks(e, v, r)
      BY <2>3, <2>5, <2>6 DEF Marks
    <3> HIDE DEF Marks
    <3>2. TypeOK
      BY <1>1
    <3> QED BY <3>1, <3>2, EpsTypes
  <2> QED BY <2>4, <2>7 DEF r
<1>6. ListsOK' /\ EpsOf' = EpsOf
  BY <1>1, <1>5, EpsOnly
<1>7. StackOK(push(st, g))'
  <2>1. FrameOK(g)
    BY <1>1, <1>2 DEF FrameOK, Frame
  <2>2. StackOK(push(st, g))
    BY <1>1, <1>2, <2>1, PushStack
  <2> QED BY <1>1, <1>5, <2>2, EpsOnly
<1>8. RunningOK(push(st, g))'
  <2> SUFFICES ASSUME NEW x \in EpsOf
               PROVE  /\ Count(push(st, g), CallsOf(x)) = IF eps'[x].active THEN 1 ELSE 0
                      /\ eps'[x].pending # <<>> => eps'[x].active
    BY <1>6 DEF RunningOK, CallsOf
  <2>1. /\ Count(push(st, f), CallsOf(x)) = IF eps[x].active THEN 1 ELSE 0
        /\ eps[x].pending # <<>> => eps[x].active
    BY <1>1 DEF Holds, RunningOK
  <2>2. f \in CallsOf(x) <=> g \in CallsOf(x)
    BY <1>1, <1>2 DEF CallsOf
  <2>3. Count(push(st, f), CallsOf(x)) = Count(push(st, g), CallsOf(x))
    BY <1>1, <1>2, <2>2, CountPush
  <2>4. eps'[x].active = eps[x].active /\ (eps'[x].pending # <<>> => eps'[x].active)
    BY <1>3, <1>5, <2>1
  <2> QED BY <2>1, <2>3, <2>4
<1>9. SilentOK(push(st, g))'
  <2>1. \A x \in EpsOf : \A v : Occurs(x, v)' => Occurs(x, v) \/ (v = f.arg /\ f \in Given(x))
    <3> SUFFICES ASSUME NEW x \in EpsOf, NEW v, Occurs(x, v)' PROVE Occurs(x, v) \/ (v = f.arg /\ f \in Given(x))
      OBVIOUS
    <3>1. CASE x # e
      BY <1>5, <3>1 DEF Occurs
    <3>2. CASE x = e
      <4>1. seen'[x] = seen[x] /\ eps'[x].pending = q
        BY <1>5, <3>2
      <4>2. (\E i \in 1..Len(seen[x]) : seen[x][i] = v) \/ (\E i \in 1..Len(q) : q[i] = v)
        BY <4>1 DEF Occurs
      <4>3. (\E i \in 1..Len(q) : q[i] = v) => v = f.arg \/ \E j \in 1..Len(eps[x].pending) : v = eps[x].pending[j]
        BY <1>4, <3>2
      <4> QED BY <1>1, <3>2, <4>2, <4>3 DEF Occurs
    <3> QED BY <3>1, <3>2
  <2>2. NotLate(g)
    <3>1. NotLate(f)
      BY <1>1, SilentPush DEF Holds, NotLate
    <3>2. \A x \in EpsOf : g \in Given(x) => f \in Given(x)
      BY <1>1, <1>2 DEF Given
    <3> QED BY <1>2, <3>1, <3>2 DEF NotLate
  <2>3. SilentOK(push(st, f))
    BY <1>1 DEF Holds
  <2> QED BY <1>1, <1>2, <1>5, <2>1, <2>2, <2>3, SilentStep
<1>10. CountsOK(push(st, g))' /\ FirstOK(push(st, g))'
  <2>1. IsPast(f, g)
    BY <1>1, <1>2 DEF IsPast
  <2>2. Takes(e, f.arg)
    <3>1. Known(e)' = Append(Known(e), f.arg)
      <4>1. seen'[e] = seen[e] /\ eps'[e].pending = q
        BY <1>5
      <4>2. Known(e)' = seen[e] \o q
        BY <4>1 DEF Known
      <4> DEFINE k == seen[e]
                 r == eps[e].pending
                 a == f.arg
      <4>3. Known(e) = k \o r /\ q = Append(r, a) /\ k \in Seq(Nat) /\ r \in Seq(Nat) /\ a \in Nat
        BY <1>4 DEF Known, q
      <4>4. Known(e)' = k \o q
        BY <4>2
      <4> HIDE DEF k, r, a
      <4>5. k \o Append(r, a) = Append(k \o r, a)
        BY <4>3, Behind
      <4>6. Known(e)' = Append(Known(e), a)
        BY <4>3, <4>4, <4>5
      <4> QED BY <4>6 DEF a
    <3>2. Len(seen'[e]) + Len(eps'[e].pending) = Len(seen[e]) + Len(eps[e].pending) + 1
      <4> DEFINE l == Len(seen[e])
                 m == Len(eps[e].pending)
      <4>1. Len(seen'[e]) = l /\ Len(eps'[e].pending) = m + 1 /\ l \in Nat /\ m \in Nat
        BY <1>4, <1>5
      <4> HIDE DEF l, m
      <4>2. Len(seen'[e]) + Len(eps'[e].pending) = l + m + 1
        BY <4>1
      <4> QED BY <4>2 DEF l, m
    <3>3. SameShape /\ \A x \in EpsOf : x # e => seen'[x] = seen[x] /\ eps'[x].pending = eps[x].pending
      BY <1>5
    <3> QED BY <3>1, <3>2, <3>3 DEF Takes
  <2>3. CountsOK(push(st, f)) /\ FirstOK(push(st, f))
    BY <1>1 DEF Holds
  <2> QED BY <1>1, <1>2, <1>5, <2>1, <2>2, <2>3, StepPast
<1>11. Holds(push(st, g))'
  BY <1>7, <1>8, <1>9, <1>10 DEF Holds
<1>12. Holds(stack)'
  BY <1>3, <1>11, HoldsAs
<1> QED BY <1>5, <1>6, <1>12 DEF IInv

\* An observer that is not running is called with the event.
LEMMA RunKeeps ==
    ASSUME IInv, Run
    PROVE  IInv'
<1> SUFFICES ASSUME NEW f, NEW e, f = Top, e = Current PROVE IInv'
  OBVIOUS
<1>1. /\ TypeOK /\ ListsOK /\ Holds(stack) /\ f \in Frame /\ Pop \in Seq(Frame) /\ stack = push(Pop, f)
      /\ FrameOK(f) /\ StackOK(Pop) /\ Busy(Pop)
      /\ Pop # <<>> => Pop[1].at = "callback" \/ (Pop[1].at = "splice" /\ f.kind = "fire")
      /\ f.kind = "fire" /\ f.at = "loop" /\ ~AtEnd(f) /\ e \in EpsOf /\ IsAt(f, e) /\ NameOf(e) = f.name
      /\ f.arg \in 1..Len(fired) /\ f \in Given(e)
  <2>1. Looping("fire") /\ ~AtEnd(Top)
    BY DEF Run
  <2> QED BY <2>1, LoopIs
<1> SUFFICES ASSUME NEW st, st = Pop, NEW g, g = CallOf(f, e) PROVE IInv'
  OBVIOUS
<1>2. /\ g \in Frame /\ g.kind = f.kind /\ g.name = f.name /\ g.arg = f.arg
      /\ g.arr = f.arr /\ g.index = f.index /\ g.len = f.len /\ g.e = e /\ g.at = "callback"
  <2>1. e \in Nat
    BY <1>1 DEF EpsOf
  <2>2. f \in Frame /\ g = CallOf(f, e)
    BY <1>1
  <2> QED BY <2>1, <2>2, CallIs
<1> DEFINE r == Append(seen[e], f.arg)
<1>3. /\ eps' = [eps EXCEPT ![e].active = TRUE] /\ seen' = [seen EXCEPT ![e] = r] /\ stack' = push(st, g) /\ ~eps[e].active
      /\ UNCHANGED <<endpoints, arrays, fired, since, cleared, removed>>
  BY DEF Run, CallOf
<1>4. /\ eps[e].pending \in Seq(Nat) /\ f.arg \in Nat /\ eps[e] \in EndpointSet
      /\ seen[e] \in Seq(Nat) /\ Len(seen[e]) \in Nat /\ r \in Seq(Nat) /\ Len(r) = Len(seen[e]) + 1 /\ Len(eps[e].pending) \in Nat
      /\ \A i \in 1..Len(r) : r[i] = f.arg \/ \E j \in 1..Len(seen[e]) : r[i] = seen[e][j]
  <2> DEFINE k == seen[e]
  <2>1. k \in Seq(Nat) /\ f.arg \in Nat /\ eps[e] \in EndpointSet /\ Len(k) \in Nat
        /\ eps[e].pending \in Seq(Nat) /\ Len(eps[e].pending) \in Nat
    BY <1>1, TypesOf DEF Frame
  <2> HIDE DEF k
  <2>2. /\ Append(k, f.arg) \in Seq(Nat) /\ Len(Append(k, f.arg)) = Len(k) + 1
        /\ Append(k, f.arg)[Len(k) + 1] = f.arg /\ \A i \in 1..Len(k) : Append(k, f.arg)[i] = k[i]
    BY <2>1, AppendProperties
  <2>3. \A i \in 1..Len(k) + 1 : i = Len(k) + 1 \/ i \in 1..Len(k)
    BY <2>1
  <2> QED BY <2>1, <2>2, <2>3 DEF k
<1> HIDE DEF r
<1>5. /\ TypeOK' /\ SameShape /\ eps'[e].active = TRUE /\ eps'[e].pending = eps[e].pending /\ seen'[e] = r
      /\ \A x \in EpsOf : x # e => eps'[x] = eps[x] /\ seen'[x] = seen[x]
  <2> DEFINE u == eps[e]
             v == [u EXCEPT !.active = TRUE]
  <2>1. u \in EndpointSet /\ eps' = [eps EXCEPT ![e] = v]
    BY <1>3, <1>4
  <2>2. v \in EndpointSet /\ v.name = u.name /\ v.active = TRUE /\ v.pending = u.pending
    <3> HIDE DEF u
    <3> QED BY <1>4, <2>1 DEF EndpointSet
  <2> HIDE DEF v
  <2>3. stack' \in Seq(Frame)
    BY <1>1, <1>2, <1>3, PushIs
  <2>4. e \in EpsOf /\ v \in EndpointSet /\ v.name = eps[e].name /\ r \in Seq(Nat)
    BY <1>1, <1>4, <2>2
  <2>5. /\ eps' = [eps EXCEPT ![e] = v] /\ seen' = [seen EXCEPT ![e] = r]
        /\ UNCHANGED <<endpoints, arrays, fired, since, cleared, removed>> /\ TypeOK
    BY <1>1, <1>3, <2>1
  <2>6. /\ TypeOK' /\ SameShape /\ eps'[e] = v /\ seen'[e] = r
        /\ \A x \in EpsOf : x # e => eps'[x] = eps[x] /\ seen'[x] = seen[x]
    <3>1. Marks(e, v, r)
      BY <2>3, <2>4, <2>5 DEF Marks
    <3> HIDE DEF Marks
    <3>2. TypeOK
      BY <1>1
    <3> QED BY <3>1, <3>2, EpsTypes
  <2> QED BY <2>2, <2>6
<1>6. ListsOK' /\ EpsOf' = EpsOf
  BY <1>1, <1>5, EpsOnly
<1>7. eps[e].pending = <<>> /\ Count(push(st, f), CallsOf(e)) = 0
  BY <1>1, <1>3 DEF Holds, RunningOK
<1>8. StackOK(push(st, g))'
  <2>1. endpoints[f.name] # f.arr => cleared[f.name] > since[e]
    <3>1. f.index \in PlacesOf(f.arr) /\ f.arr \in ListsOf
      BY <1>1, CurrentIs
    <3> QED BY <1>1, <3>1 DEF ListsOK, IsAt
  <2>2. FrameOK(g)
    BY <1>1, <1>2, <2>1 DEF FrameOK
  <2>3. StackOK(push(st, g))
    BY <1>1, <1>2, <2>2, PushStack
  <2> QED BY <1>1, <1>5, <2>3, EpsOnly
<1>9. RunningOK(push(st, g))'
  <2> SUFFICES ASSUME NEW x \in EpsOf
               PROVE  /\ Count(push(st, g), CallsOf(x)) = IF eps'[x].active THEN 1 ELSE 0
                      /\ eps'[x].pending # <<>> => eps'[x].active
    BY <1>6 DEF RunningOK, CallsOf
  <2>1. /\ Count(push(st, f), CallsOf(x)) = IF eps[x].active THEN 1 ELSE 0
        /\ eps[x].pending # <<>> => eps[x].active
    BY <1>1 DEF Holds, RunningOK
  <2>2. f \notin CallsOf(x) /\ (g \in CallsOf(x) <=> x = e)
    BY <1>1, <1>2 DEF CallsOf
  <2> DEFINE X == CallsOf(x)
  <2> HIDE DEF X
  <2>3. f \notin X /\ (g \in X <=> x = e)
    BY <2>2 DEF X
  <2>4. Count(push(st, f), X) = Count(st, X) + 0 /\ Count(st, X) \in Nat
    <3>1. st \in Seq(Frame) /\ f \in Frame
      BY <1>1
    <3>2. Count(push(st, f), X) = Count(st, X) + 0
      BY <2>3, <3>1, CountPush
    <3> QED BY <3>1, <3>2, CountIs
  <2>5. CASE x = e
    <3>1. Count(push(st, g), X) = Count(st, X) + 1
      BY <1>1, <1>2, <2>3, <2>5, CountPush
    <3>2. Count(st, X) = 0
      BY <1>7, <2>4, <2>5 DEF X
    <3>3. Count(push(st, g), X) = 1
      BY <3>1, <3>2
    <3> QED BY <1>5, <2>5, <3>3 DEF X
  <2>6. CASE x # e
    <3>1. Count(push(st, g), X) = Count(st, X) + 0
      BY <1>1, <1>2, <2>3, <2>6, CountPush
    <3>2. Count(push(st, g), X) = Count(push(st, f), X)
      BY <2>4, <3>1
    <3> QED BY <1>5, <2>1, <2>6, <3>2 DEF X
  <2> QED BY <2>5, <2>6
<1>10. SilentOK(push(st, g))'
  <2>1. \A x \in EpsOf : \A v : Occurs(x, v)' => Occurs(x, v) \/ (v = f.arg /\ f \in Given(x))
    <3> SUFFICES ASSUME NEW x \in EpsOf, NEW v, Occurs(x, v)' PROVE Occurs(x, v) \/ (v = f.arg /\ f \in Given(x))
      OBVIOUS
    <3>1. CASE x # e
      BY <1>5, <3>1 DEF Occurs
    <3>2. CASE x = e
      <4>1. seen'[x] = r /\ eps'[x].pending = eps[x].pending
        BY <1>5, <3>2
      <4>2. (\E i \in 1..Len(r) : r[i] = v) \/ (\E i \in 1..Len(eps[x].pending) : eps[x].pending[i] = v)
        BY <4>1 DEF Occurs
      <4>3. (\E i \in 1..Len(r) : r[i] = v) => v = f.arg \/ \E j \in 1..Len(seen[x]) : v = seen[x][j]
        BY <1>4, <3>2
      <4> QED BY <1>1, <3>2, <4>2, <4>3 DEF Occurs
    <3> QED BY <3>1, <3>2
  <2>2. NotLate(g)
    <3>1. NotLate(f)
      BY <1>1, SilentPush DEF Holds, NotLate
    <3>2. \A x \in EpsOf : g \in Given(x) => f \in Given(x)
      <4>1. \A x : g \in Given(x) => x = e \/ \E p \in PlacesOf(f.arr) : arrays[f.arr][p] = x
        BY <1>2 DEF Given
      <4>2. \A x : (\E p \in PlacesOf(f.arr) : arrays[f.arr][p] = x) => f \in Given(x)
        BY <1>1 DEF Given
      <4> QED BY <1>1, <4>1, <4>2
    <3> QED BY <1>2, <3>1, <3>2 DEF NotLate
  <2>3. SilentOK(push(st, f))
    BY <1>1 DEF Holds
  <2> QED BY <1>1, <1>2, <1>5, <2>1, <2>2, <2>3, SilentStep
<1>11. CountsOK(push(st, g))' /\ FirstOK(push(st, g))'
  <2>1. IsPast(f, g)
    BY <1>1, <1>2 DEF IsPast
  <2>2. Takes(e, f.arg)
    <3>1. Known(e)' = Append(Known(e), f.arg)
      <4>1. seen'[e] = r /\ eps'[e].pending = <<>>
        BY <1>5, <1>7
      <4>2. Known(e)' = r \o <<>>
        BY <4>1 DEF Known
      <4>3. r \o <<>> = r /\ seen[e] \o <<>> = seen[e]
        BY <1>4, ConcatEmptySeq
      <4> QED BY <1>7, <4>2, <4>3 DEF Known, r
    <3>2. Len(seen'[e]) + Len(eps'[e].pending) = Len(seen[e]) + Len(eps[e].pending) + 1
      <4> DEFINE l == Len(seen[e])
                 m == Len(eps[e].pending)
      <4>1. Len(seen'[e]) = l + 1 /\ Len(eps'[e].pending) = m /\ l \in Nat /\ m \in Nat
        BY <1>4, <1>5
      <4> HIDE DEF l, m
      <4>2. Len(seen'[e]) + Len(eps'[e].pending) = l + m + 1
        BY <4>1
      <4> QED BY <4>2 DEF l, m
    <3>3. SameShape /\ \A x \in EpsOf : x # e => seen'[x] = seen[x] /\ eps'[x].pending = eps[x].pending
      BY <1>5
    <3> QED BY <3>1, <3>2, <3>3 DEF Takes
  <2>3. CountsOK(push(st, f)) /\ FirstOK(push(st, f))
    BY <1>1 DEF Holds
  <2> QED BY <1>1, <1>2, <1>5, <2>1, <2>2, <2>3, StepPast
<1>12. Holds(push(st, g))'
  BY <1>8, <1>9, <1>10, <1>11 DEF Holds
<1>13. Holds(stack)'
  BY <1>3, <1>12, HoldsAs
<1> QED BY <1>5, <1>6, <1>13 DEF IInv

-----------------------------------------------------------------------------
(***************************************************************************)
(* The end of a callback.                                                   *)
(***************************************************************************)
SameSum(x) == Len(seen'[x]) + Len(eps'[x].pending) = Len(seen[x]) + Len(eps[x].pending)
NotFirst(f) == f.at = "callback" \/ f.index # 1

\* A call that has yet to come to the same observers, when they have the same
\* events: the counts and the order stay right.
LEMMA StepKeeps ==
    ASSUME TypeOK, ListsOK, SameShape, NEW st \in Seq(Frame), NEW f \in Frame, NEW g \in Frame,
           CountsOK(push(st, f)), FirstOK(push(st, f)), NotFirst(f), NotFirst(g),
           \A x \in EpsOf : Known(x)' = Known(x) /\ SameSum(x) /\ (f \in Coming(x) <=> g \in Coming(x))
    PROVE  CountsOK(push(st, g))' /\ FirstOK(push(st, g))'
<1>1. /\ EpsOf' = EpsOf
      /\ \A x \in EpsOf : /\ NameOf(x)' = NameOf(x) /\ (Undisturbed(x)' <=> Undisturbed(x)) /\ Coming(x)' = Coming(x)
                          /\ Meant(x)' = Meant(x)
  BY EpsOnly
<1>2. CountsOK(push(st, g))'
  <2> SUFFICES ASSUME NEW x \in EpsOf, Undisturbed(x)
               PROVE  Len(seen'[x]) + Len(eps'[x].pending) + Count(push(st, g), Coming(x)) = Cardinality(Meant(x))
    BY <1>1 DEF CountsOK
  <2> DEFINE X == Coming(x)
  <2>1. Len(seen[x]) + Len(eps[x].pending) + Count(push(st, f), X) = Cardinality(Meant(x))
    BY DEF CountsOK
  <2>2. f \in X <=> g \in X
    OBVIOUS
  <2>3. Len(seen'[x]) + Len(eps'[x].pending) = Len(seen[x]) + Len(eps[x].pending)
    BY DEF SameSum
  <2> HIDE DEF X
  <2>4. Count(push(st, f), X) = Count(push(st, g), X)
    BY <2>2, CountPush
  <2> QED BY <2>1, <2>3, <2>4 DEF X
<1>3. FirstOK(push(st, g))'
  <2> DEFINE s == push(st, f)
             t == push(st, g)
  <2>1. s[1] = f /\ t[1] = g
    BY PushIs
  <2>2. endpoints' = endpoints /\ arrays' = arrays /\ removed' = removed
    BY DEF SameShape
  <2>3. FirstOK(s)
    OBVIOUS
  <2> HIDE DEF s, t
  <2>4. \A n : ~AboutTo(s, n) /\ ~AboutTo(t, n)'
    BY <2>1 DEF AboutTo, NotFirst
  <2> SUFFICES ASSUME NEW n \in Name, n \notin removed, endpoints[n] # None, Len(arrays[endpoints[n]]) >= 1,
                      NEW x, x = arrays[endpoints[n]][1]
               PROVE  Ascending(Known(x))' /\ Range(Known(x))' = Meant(x)'
    BY <2>2, <2>4 DEF FirstOK, t
  <2>5. x \in EpsOf
    <3>1. endpoints[n] \in ListsOf
      BY DEF ListsOK
    <3>2. 1 \in PlacesOf(endpoints[n])
      BY <3>1, TypesOf DEF PlacesOf
    <3> QED BY <3>1, <3>2 DEF ListsOK
  <2>6. Ascending(Known(x)) /\ Range(Known(x)) = Meant(x)
    BY <2>3, <2>4 DEF FirstOK
  <2>7. Known(x)' = Known(x) /\ Meant(x)' = Meant(x)
    BY <1>1, <2>5
  <2> QED BY <2>6, <2>7 DEF Ascending, Range
<1> QED BY <1>2, <1>3

\* What is known of a callback that ends.
LEMMA EndingIs ==
    ASSUME TypeOK, ListsOK, NEW s \in Seq(Frame), s # <<>>, Holds(s), s[1].at = "callback", NEW f, f = s[1]
    PROVE  /\ f \in Frame /\ Tail(s) \in Seq(Frame) /\ s = push(Tail(s), f) /\ Head(s) = f
           /\ FrameOK(f) /\ StackOK(Tail(s)) /\ Busy(Tail(s))
           /\ Tail(s) # <<>> => Tail(s)[1].at = "callback" \/ (Tail(s)[1].at = "splice" /\ f.kind = "fire")
           /\ f.kind = "fire" /\ f.at = "callback" /\ f.e \in EpsOf /\ NameOf(f.e) = f.name /\ f.arg \in 1..Len(fired)
           /\ eps[f.e].active /\ Count(Tail(s), CallsOf(f.e)) = 0 /\ f \in CallsOf(f.e)
<1>1. /\ f \in Frame /\ Tail(s) \in Seq(Frame) /\ s = push(Tail(s), f) /\ Head(s) = f
      /\ FrameOK(f) /\ StackOK(Tail(s)) /\ Busy(Tail(s))
      /\ Tail(s) # <<>> => Tail(s)[1].at = "callback" \/ (Tail(s)[1].at = "splice" /\ f.kind = "fire")
  BY TopIs, PopIs
<1>2. f.kind = "fire" /\ f.at = "callback" /\ f.e \in EpsOf /\ NameOf(f.e) = f.name /\ f.arg \in 1..Len(fired) /\ f \in CallsOf(f.e)
  BY <1>1 DEF FrameOK, CallsOf
<1> DEFINE X == CallsOf(f.e)
           st == Tail(s)
<1>3. Count(push(st, f), X) = IF eps[f.e].active THEN 1 ELSE 0
  BY <1>1, <1>2 DEF Holds, RunningOK
<1>4. f \in X /\ st \in Seq(Frame) /\ f \in Frame
  BY <1>1, <1>2
<1> HIDE DEF X, st
<1>5. Count(push(st, f), X) = Count(st, X) + 1 /\ Count(st, X) \in Nat
  <2>1. Count(push(st, f), X) = Count(st, X) + 1
    BY <1>4, CountPush
  <2> QED BY <1>4, <2>1, CountIs
<1>6. eps[f.e].active /\ Count(st, X) = 0
  BY <1>3, <1>5
<1> QED BY <1>1, <1>2, <1>6 DEF X, st

\* A place among one more is the last or one of those before.
LEMMA LastOrBefore ==
    ASSUME NEW n \in Nat
    PROVE  \A i \in 1..n + 1 : i = n + 1 \/ i \in 1..n
OBVIOUS

\* A loop that calls its observer again has the event that waited.
WithArg(f, h) == [f EXCEPT !.arg = h]

\* Nothing else about the loop changes.
LEMMA WithArgIs ==
    ASSUME NEW f \in Frame, NEW h \in Nat
    PROVE  /\ WithArg(f, h) \in Frame /\ WithArg(f, h).arg = h
           /\ \A x \in {"kind", "name", "callback", "arr", "index", "len", "e", "at"} : WithArg(f, h)[x] = f[x]
BY DEF WithArg, Frame

\* The observer is called again for the event that waits first, which the loop takes over.
LEMMA AgainKeeps ==
    ASSUME TypeOK, ListsOK, NEW s \in Seq(Frame), s # <<>>, Holds(s), s[1].at = "callback", CallbackEnds(s),
           UNCHANGED <<endpoints, arrays, fired, since, cleared, removed>>, eps[s[1].e].pending # <<>>
    PROVE  IInv'
<1>d. SUFFICES ASSUME NEW f, f = s[1], NEW st, st = Tail(s), NEW e, e = s[1].e PROVE IInv'
  OBVIOUS
<1>1. /\ f \in Frame /\ st \in Seq(Frame) /\ s = push(st, f) /\ Head(s) = f /\ FrameOK(f) /\ StackOK(st)
      /\ st # <<>> => st[1].at = "callback" \/ (st[1].at = "splice" /\ f.kind = "fire")
      /\ f.kind = "fire" /\ f.at = "callback" /\ f.e = e /\ e \in EpsOf /\ NameOf(e) = f.name /\ f.arg \in 1..Len(fired)
      /\ eps[e].active
  BY <1>d, EndingIs
<1>a. SUFFICES ASSUME NEW p, p = eps[e].pending, NEW k, k = seen[e] PROVE IInv'
  OBVIOUS
<1>b. SUFFICES ASSUME NEW h, h = Head(p), NEW q, q = Tail(p), NEW r, r = Append(k, h) PROVE IInv'
  OBVIOUS
<1>c. SUFFICES ASSUME NEW g, g = WithArg(f, h) PROVE IInv'
  OBVIOUS
<1>2. /\ eps' = [eps EXCEPT ![e].pending = q] /\ seen' = [seen EXCEPT ![e] = r] /\ stack' = push(st, g) /\ p # <<>>
  <2>1. p # <<>> /\ Head(s).e = e /\ eps[Head(s).e].pending = p
    BY <1>1, <1>a, <1>d
  <2>2. eps' = [eps EXCEPT ![e].pending = Tail(eps[e].pending)] /\ seen' = [seen EXCEPT ![e] = Append(seen[e], Head(p))]
        /\ stack' = push(Tail(s), [Head(s) EXCEPT !.arg = Head(p)])
    BY <2>1 DEF CallbackEnds
  <2> QED BY <1>1, <1>a, <1>b, <1>c, <1>d, <2>1, <2>2 DEF WithArg
<1>3. /\ p \in Seq(Nat) /\ k \in Seq(Nat) /\ Len(p) \in Nat /\ Len(k) \in Nat /\ eps[e] \in EndpointSet
  BY <1>1, <1>a, TypesOf
<1>4. /\ h \in Nat /\ q \in Seq(Nat) /\ Len(q) = Len(p) - 1 /\ h = p[1] /\ Len(p) >= 1
      /\ (\A i \in 1..Len(q) : q[i] = p[i + 1] /\ i + 1 \in 1..Len(p)) /\ 1 \in 1..Len(p)
  <2>1. h \in Nat /\ q \in Seq(Nat) /\ Len(q) = Len(p) - 1 /\ \A i \in 1..Len(q) : q[i] = p[i + 1]
    <3>1. p \in Seq(Nat) /\ p # <<>>
      BY <1>2, <1>3
    <3>2. Head(p) \in Nat /\ Tail(p) \in Seq(Nat) /\ Len(Tail(p)) = Len(p) - 1 /\ \A i \in 1..Len(Tail(p)) : Tail(p)[i] = p[i + 1]
      BY <3>1, HeadTailProperties
    <3> QED BY <1>b, <3>2
  <2>2. Len(p) >= 1
    BY <1>2, <1>3, EmptySeq
  <2>3. h = p[1]
    BY <1>3, <1>b
  <2>4. \A i \in 1..Len(q) : i + 1 \in 1..Len(p)
    BY <1>3, <2>1
  <2>5. 1 \in 1..Len(p)
    BY <1>3, <2>2
  <2> QED BY <2>1, <2>2, <2>3, <2>4, <2>5
<1>5. /\ r \in Seq(Nat) /\ Len(r) = Len(k) + 1 /\ \A i \in 1..Len(r) : r[i] = p[1] \/ \E j \in 1..Len(k) : r[i] = k[j]
  <2>1. r \in Seq(Nat) /\ Len(r) = Len(k) + 1 /\ r[Len(k) + 1] = h /\ \A i \in 1..Len(k) : r[i] = k[i]
    <3>1. k \in Seq(Nat) /\ h \in Nat /\ r = Append(k, h)
      BY <1>3, <1>4, <1>b
    <3>2. Append(k, h) \in Seq(Nat) /\ Len(Append(k, h)) = Len(k) + 1 /\ Append(k, h)[Len(k) + 1] = h
          /\ \A i \in 1..Len(k) : Append(k, h)[i] = k[i]
      BY <3>1, AppendProperties
    <3> QED BY <3>1, <3>2
  <2>2. \A i \in 1..Len(k) + 1 : i = Len(k) + 1 \/ i \in 1..Len(k)
    <3>1. Len(k) \in Nat
      BY <1>3
    <3> QED BY <3>1, LastOrBefore
  <2> QED BY <1>4, <2>1, <2>2
<1>6. /\ g \in Frame /\ g.kind = f.kind /\ g.name = f.name /\ g.arg = h /\ g.arr = f.arr /\ g.index = f.index
      /\ g.len = f.len /\ g.e = e /\ g.at = "callback"
  <2>1. f \in Frame /\ h \in Nat /\ g = WithArg(f, h)
    BY <1>1, <1>4, <1>c
  <2>2. g \in Frame /\ g.arg = h /\ \A x \in {"kind", "name", "callback", "arr", "index", "len", "e", "at"} : g[x] = f[x]
    BY <2>1, WithArgIs
  <2>3. f.e = e /\ f.at = "callback"
    BY <1>1
  <2> QED BY <2>2, <2>3
<1>7. /\ TypeOK' /\ SameShape /\ eps'[e].active = TRUE /\ eps'[e].pending = q /\ seen'[e] = r
      /\ \A x \in EpsOf : x # e => eps'[x] = eps[x] /\ seen'[x] = seen[x]
  <2> DEFINE u == eps[e]
             v == [u EXCEPT !.pending = q]
  <2>1. u \in EndpointSet /\ u.active = TRUE /\ eps' = [eps EXCEPT ![e] = v]
    BY <1>1, <1>2, <1>3 DEF EndpointSet
  <2>2. v \in EndpointSet /\ v.name = u.name /\ v.active = TRUE /\ v.pending = q
    <3> HIDE DEF u
    <3> QED BY <1>4, <2>1 DEF EndpointSet
  <2> HIDE DEF v
  <2>3. stack' \in Seq(Frame)
    BY <1>1, <1>2, <1>6, PushIs
  <2>4. e \in EpsOf /\ v \in EndpointSet /\ v.name = eps[e].name /\ r \in Seq(Nat)
    BY <1>1, <1>5, <2>2
  <2>5. /\ eps' = [eps EXCEPT ![e] = v] /\ seen' = [seen EXCEPT ![e] = r]
        /\ UNCHANGED <<endpoints, arrays, fired, since, cleared, removed>> /\ TypeOK
    BY <1>2, <2>1
  <2>6. /\ TypeOK' /\ SameShape /\ eps'[e] = v /\ seen'[e] = r
        /\ \A x \in EpsOf : x # e => eps'[x] = eps[x] /\ seen'[x] = seen[x]
    <3>1. Marks(e, v, r)
      BY <2>3, <2>4, <2>5 DEF Marks
    <3> HIDE DEF Marks
    <3>2. TypeOK
      BY <1>1
    <3> QED BY <3>1, <3>2, EpsTypes
  <2> QED BY <2>2, <2>6
<1>8. ListsOK' /\ EpsOf' = EpsOf
  BY <1>7, EpsOnly
<1>9. Occurs(e, h) /\ h \in 1..Len(fired) /\ (cleared[NameOf(e)] > since[e] => h <= cleared[NameOf(e)])
  <2>1. p[1] \in 1..Len(fired) /\ (cleared[NameOf(e)] > since[e] => p[1] <= cleared[NameOf(e)])
    BY <1>1, <1>4, <1>a DEF Holds, SilentOK
  <2> QED BY <1>4, <1>a, <2>1 DEF Occurs
<1>10. StackOK(push(st, g))'
  <2>1. FrameOK(g)
    BY <1>1, <1>6, <1>9 DEF FrameOK
  <2>2. StackOK(push(st, g))
    BY <1>1, <1>6, <2>1, PushStack
  <2> QED BY <1>7, <2>2, EpsOnly
<1>11. RunningOK(push(st, g))'
  <2> SUFFICES ASSUME NEW x \in EpsOf
               PROVE  /\ Count(push(st, g), CallsOf(x)) = IF eps'[x].active THEN 1 ELSE 0
                      /\ eps'[x].pending # <<>> => eps'[x].active
    BY <1>8 DEF RunningOK, CallsOf
  <2>1. /\ Count(push(st, f), CallsOf(x)) = IF eps[x].active THEN 1 ELSE 0
        /\ eps[x].pending # <<>> => eps[x].active
    BY <1>1 DEF Holds, RunningOK
  <2>2. f \in CallsOf(x) <=> g \in CallsOf(x)
    BY <1>1, <1>6 DEF CallsOf
  <2>3. Count(push(st, f), CallsOf(x)) = Count(push(st, g), CallsOf(x))
    BY <1>1, <1>6, <2>2, CountPush
  <2>4. (eps'[x].active <=> eps[x].active) /\ (eps'[x].pending # <<>> => eps'[x].active)
    BY <1>1, <1>7, <2>1
  <2> QED BY <2>1, <2>3, <2>4
<1>12. SilentOK(push(st, g))'
  <2>1. \A x \in EpsOf : \A v : Occurs(x, v)' => Occurs(x, v) \/ (v = f.arg /\ f \in Given(x))
    <3> SUFFICES ASSUME NEW x \in EpsOf, NEW v, Occurs(x, v)' PROVE Occurs(x, v) \/ (v = f.arg /\ f \in Given(x))
      OBVIOUS
    <3>1. CASE x # e
      BY <1>7, <3>1 DEF Occurs
    <3>2. CASE x = e
      <4>1. seen'[x] = r /\ eps'[x].pending = q
        BY <1>7, <3>2
      <4>2. (\E i \in 1..Len(r) : r[i] = v) \/ (\E i \in 1..Len(q) : q[i] = v)
        BY <4>1 DEF Occurs
      <4>3. (\E i \in 1..Len(r) : r[i] = v) => (\E j \in 1..Len(k) : k[j] = v) \/ (\E j \in 1..Len(p) : p[j] = v)
        BY <1>4, <1>5
      <4>4. (\E i \in 1..Len(q) : q[i] = v) => (\E j \in 1..Len(p) : p[j] = v)
        BY <1>4
      <4>5. (\E j \in 1..Len(k) : k[j] = v) \/ (\E j \in 1..Len(p) : p[j] = v)
        BY <4>2, <4>3, <4>4
      <4>6. seen[x] = k /\ eps[x].pending = p
        BY <3>2, <1>a
      <4> QED BY <4>5, <4>6 DEF Occurs
    <3> QED BY <3>1, <3>2
  <2>2. NotLate(g)
    <3> SUFFICES ASSUME NEW x \in EpsOf, cleared[NameOf(x)] > since[x], g \in Given(x) PROVE h <= cleared[NameOf(x)]
      BY <1>6 DEF NotLate
    <3>1. CASE x = e
      BY <1>9, <3>1
    <3>2. CASE x # e
      <4>1. PICK j \in PlacesOf(f.arr) : arrays[f.arr][j] = x
        BY <1>6, <3>2 DEF Given
      <4>2. NameOf(x) = f.name
        BY <1>1, <4>1 DEF FrameOK
      <4>3. f.name \in Name /\ f.arr \in ListsOf
        BY <1>1 DEF Frame, FrameOK
      <4>4. endpoints[f.name] # f.arr
        <5> SUFFICES ASSUME endpoints[f.name] = f.arr PROVE FALSE
          OBVIOUS
        <5>1. endpoints[f.name] # None
          BY <4>3, TypesOf DEF None, ListsOf
        <5>2. cleared[f.name] <= since[x]
          BY <4>1, <4>3, <5>1 DEF ListsOK
        <5>3. cleared[f.name] \in Nat /\ since[x] \in Nat
          BY <4>3, TypesOf
        <5> QED BY <4>2, <5>2, <5>3
      <4>5. cleared[f.name] > since[e]
        BY <1>1, <4>4 DEF FrameOK
      <4> QED BY <1>1, <1>9, <4>2, <4>5
    <3> QED BY <3>1, <3>2
  <2>3. SilentOK(push(st, f))
    BY <1>1 DEF Holds
  <2> QED BY <1>1, <1>6, <1>7, <2>1, <2>2, <2>3, SilentStep
<1>13. CountsOK(push(st, g))' /\ FirstOK(push(st, g))'
  <2>1. ASSUME NEW x \in EpsOf PROVE Known(x)' = Known(x) /\ SameSum(x) /\ (f \in Coming(x) <=> g \in Coming(x))
    <3>1. f \in Coming(x) <=> g \in Coming(x)
      BY <1>1, <1>6 DEF Coming
    <3>2. CASE x # e
      BY <1>7, <3>1, <3>2 DEF Known, SameSum
    <3>3. CASE x = e
      <4>1. seen'[x] = r /\ eps'[x].pending = q /\ seen[x] = k /\ eps[x].pending = p
        BY <1>7, <1>a, <3>3
      <4>2. Append(k, Head(p)) \o Tail(p) = k \o p
        BY <1>2, <1>3, Moved
      <4>3. Known(x)' = r \o q /\ Known(x) = k \o p
        BY <4>1 DEF Known
      <4>4. Len(r) + Len(q) = Len(k) + Len(p)
        BY <1>3, <1>4, <1>5
      <4>5. Known(x)' = Known(x)
        BY <1>b, <4>2, <4>3
      <4>6. SameSum(x)
        BY <4>1, <4>4 DEF SameSum
      <4> QED BY <3>1, <4>5, <4>6
    <3> QED BY <3>2, <3>3
  <2>2. NotFirst(f) /\ NotFirst(g)
    BY <1>1, <1>6 DEF NotFirst
  <2>3. CountsOK(push(st, f)) /\ FirstOK(push(st, f))
    BY <1>1 DEF Holds
  <2> QED BY <1>1, <1>6, <1>7, <2>1, <2>2, <2>3, StepKeeps
<1>14. Holds(push(st, g))'
  BY <1>10, <1>11, <1>12, <1>13 DEF Holds
<1>15. Holds(stack)'
  BY <1>2, <1>14, HoldsAs
<1> QED BY <1>7, <1>8, <1>15 DEF IInv

\* With no event waiting the observer is not running any more, and the loop goes on.
LEMMA StopKeeps ==
    ASSUME TypeOK, ListsOK, NEW s \in Seq(Frame), s # <<>>, Holds(s), s[1].at = "callback", CallbackEnds(s),
           UNCHANGED <<endpoints, arrays, fired, since, cleared, removed>>, eps[s[1].e].pending = <<>>
    PROVE  IInv'
<1>d. SUFFICES ASSUME NEW f, f = s[1], NEW st, st = Tail(s), NEW e, e = s[1].e PROVE IInv'
  OBVIOUS
<1>1. /\ f \in Frame /\ st \in Seq(Frame) /\ s = push(st, f) /\ Head(s) = f /\ FrameOK(f) /\ StackOK(st)
      /\ st # <<>> => st[1].at = "callback" \/ (st[1].at = "splice" /\ f.kind = "fire")
      /\ f.kind = "fire" /\ f.at = "callback" /\ f.e = e /\ e \in EpsOf /\ NameOf(e) = f.name /\ f.arg \in 1..Len(fired)
      /\ eps[e].active /\ Count(st, CallsOf(e)) = 0
  BY <1>d, EndingIs
<1>c. SUFFICES ASSUME NEW g, g = GoOn(f) PROVE IInv'
  OBVIOUS
<1>2. /\ eps' = [eps EXCEPT ![e].active = FALSE] /\ seen' = seen /\ stack' = push(st, g) /\ eps[e].pending = <<>>
  <2>1. Head(s).e = e /\ eps[Head(s).e].pending = <<>>
    BY <1>1, <1>d
  <2> QED BY <1>1, <1>c, <1>d, <2>1 DEF CallbackEnds
<1>3. /\ eps[e] \in EndpointSet /\ seen[e] \in Seq(Nat) /\ seen \in Seq(Seq(Nat))
  BY <1>1, TypesOf DEF TypeOK
<1>4. /\ g \in Frame /\ g.kind = f.kind /\ g.name = f.name /\ g.arg = f.arg
      /\ g.arr = f.arr /\ g.index = f.index + 1 /\ g.len = f.len /\ g.at = "loop"
  BY <1>1, <1>c, GoOnIs
<1>5. /\ TypeOK' /\ SameShape /\ eps'[e].active = FALSE /\ eps'[e].pending = eps[e].pending /\ seen'[e] = seen[e]
      /\ \A x \in EpsOf : x # e => eps'[x] = eps[x] /\ seen'[x] = seen[x]
  <2> DEFINE u == eps[e]
             v == [u EXCEPT !.active = FALSE]
             r == seen[e]
  <2>1. u \in EndpointSet /\ eps' = [eps EXCEPT ![e] = v] /\ seen' = [seen EXCEPT ![e] = r]
    BY <1>2, <1>3
  <2>2. v \in EndpointSet /\ v.name = u.name /\ v.active = FALSE /\ v.pending = u.pending
    <3> HIDE DEF u
    <3> QED BY <2>1 DEF EndpointSet
  <2> HIDE DEF v
  <2>3. stack' \in Seq(Frame)
    BY <1>1, <1>2, <1>4, PushIs
  <2>4. e \in EpsOf /\ v \in EndpointSet /\ v.name = eps[e].name /\ r \in Seq(Nat)
    BY <1>1, <1>3, <2>2
  <2> HIDE DEF r
  <2>5. /\ eps' = [eps EXCEPT ![e] = v] /\ seen' = [seen EXCEPT ![e] = r]
        /\ UNCHANGED <<endpoints, arrays, fired, since, cleared, removed>> /\ TypeOK
    BY <2>1
  <2>6. /\ TypeOK' /\ SameShape /\ eps'[e] = v /\ seen'[e] = r
        /\ \A x \in EpsOf : x # e => eps'[x] = eps[x] /\ seen'[x] = seen[x]
    <3>1. Marks(e, v, r)
      BY <2>3, <2>4, <2>5 DEF Marks
    <3> HIDE DEF Marks
    <3>2. TypeOK
      BY <1>1
    <3> QED BY <3>1, <3>2, EpsTypes
  <2> QED BY <2>2, <2>6 DEF r
<1>6. ListsOK' /\ EpsOf' = EpsOf
  BY <1>5, EpsOnly
<1>7. StackOK(push(st, g))'
  <2>1. FrameOK(g)
    BY <1>1, <1>4 DEF FrameOK, Frame
  <2>2. StackOK(push(st, g))
    BY <1>1, <1>4, <2>1, PushStack
  <2> QED BY <1>5, <2>2, EpsOnly
<1>8. RunningOK(push(st, g))'
  <2> SUFFICES ASSUME NEW x \in EpsOf
               PROVE  /\ Count(push(st, g), CallsOf(x)) = IF eps'[x].active THEN 1 ELSE 0
                      /\ eps'[x].pending # <<>> => eps'[x].active
    BY <1>6 DEF RunningOK, CallsOf
  <2>1. /\ Count(push(st, f), CallsOf(x)) = IF eps[x].active THEN 1 ELSE 0
        /\ eps[x].pending # <<>> => eps[x].active
    BY <1>1 DEF Holds, RunningOK
  <2> DEFINE X == CallsOf(x)
  <2>2. g \notin X /\ (f \in X <=> x = e)
    BY <1>1, <1>4 DEF CallsOf
  <2> HIDE DEF X
  <2>3. Count(push(st, g), X) = Count(st, X) /\ Count(st, X) \in Nat
    <3>1. Count(push(st, g), X) = Count(st, X) + 0
      BY <1>1, <1>4, <2>2, CountPush
    <3>2. Count(st, X) \in Nat
      BY <1>1, CountIs
    <3> QED BY <3>1, <3>2
  <2>4. CASE x = e
    <3>1. Count(push(st, g), X) = 0
      BY <1>1, <2>3, <2>4 DEF X
    <3> QED BY <1>2, <1>5, <2>4, <3>1 DEF X
  <2>5. CASE x # e
    <3>1. Count(push(st, f), X) = Count(st, X) + 0
      BY <1>1, <2>2, <2>5, CountPush
    <3>2. Count(push(st, g), X) = Count(push(st, f), X)
      BY <2>3, <3>1
    <3> QED BY <1>5, <2>1, <2>5, <3>2 DEF X
  <2> QED BY <2>4, <2>5
<1>9. SilentOK(push(st, g))'
  <2>1. \A x \in EpsOf : \A v : Occurs(x, v)' => Occurs(x, v) \/ (v = f.arg /\ f \in Given(x))
    <3>1. \A x \in EpsOf : seen'[x] = seen[x] /\ eps'[x].pending = eps[x].pending
      BY <1>5
    <3> QED BY <3>1 DEF Occurs
  <2>2. NotLate(g)
    <3>1. NotLate(f)
      BY <1>1, SilentPush DEF Holds, NotLate
    <3>2. \A x \in EpsOf : g \in Given(x) => f \in Given(x)
      BY <1>1, <1>4 DEF Given
    <3> QED BY <1>4, <3>1, <3>2 DEF NotLate
  <2>3. SilentOK(push(st, f))
    BY <1>1 DEF Holds
  <2> QED BY <1>1, <1>4, <1>5, <2>1, <2>2, <2>3, SilentStep
<1>10. CountsOK(push(st, g))' /\ FirstOK(push(st, g))'
  <2>1. ASSUME NEW x \in EpsOf PROVE Known(x)' = Known(x) /\ SameSum(x) /\ (f \in Coming(x) <=> g \in Coming(x))
    <3>1. seen'[x] = seen[x] /\ eps'[x].pending = eps[x].pending
      BY <1>5
    <3>2. \A p \in PlacesOf(f.arr) : f.index < p <=> g.index <= p
      <4>1. Len(arrays[f.arr]) \in Nat /\ f.index \in Nat
        BY <1>1, TypesOf DEF FrameOK, Frame
      <4> QED BY <1>4, <4>1 DEF PlacesOf
    <3>3. f \in Coming(x) <=> g \in Coming(x)
      BY <1>1, <1>4, <3>2 DEF Coming
    <3> QED BY <3>1, <3>3 DEF Known, SameSum
  <2>2. NotFirst(f) /\ NotFirst(g)
    BY <1>1, <1>4 DEF NotFirst, FrameOK, Frame
  <2>3. CountsOK(push(st, f)) /\ FirstOK(push(st, f))
    BY <1>1 DEF Holds
  <2> QED BY <1>1, <1>4, <1>5, <2>1, <2>2, <2>3, StepKeeps
<1>11. Holds(push(st, g))'
  BY <1>7, <1>8, <1>9, <1>10 DEF Holds
<1>12. Holds(stack)'
  BY <1>2, <1>11, HoldsAs
<1> QED BY <1>5, <1>6, <1>12 DEF IInv

\* A callback ends.
LEMMA CallbackEndsKeeps ==
    ASSUME TypeOK, ListsOK, NEW s \in Seq(Frame), s # <<>>, Holds(s), s[1].at = "callback", CallbackEnds(s),
           UNCHANGED <<endpoints, arrays, fired, since, cleared, removed>>
    PROVE  IInv'
BY AgainKeeps, StopKeeps

\* The callback on the top returns.
LEMMA ReturnKeeps ==
    ASSUME IInv, Return
    PROVE  IInv'
<1>1. TypeOK /\ ListsOK /\ Holds(stack) /\ stack \in Seq(Frame)
  BY TypesOf DEF IInv
<1>2. stack # <<>> /\ stack[1].at = "callback" /\ CallbackEnds(stack) /\ UNCHANGED <<endpoints, arrays, fired, since, cleared, removed>>
  BY DEF Return, Top
<1> QED BY <1>1, <1>2, CallbackEndsKeeps

-----------------------------------------------------------------------------
(***************************************************************************)
(* Removals that begin and go on.                                           *)
(***************************************************************************)

\* A loop that begins is about the array of its name.
LEMMA LoopMade ==
    ASSUME TypeOK, ListsOK, NEW name \in Name, endpoints[name] # None, NEW kind \in {"fire", "off"},
           NEW callback \in Callback \cup {Every}, NEW arg \in Nat, kind = "fire" => arg \in 1..Len(fired),
           NEW f, f = Loop(kind, name, arg, callback, endpoints, arrays)
    PROVE  /\ f \in Frame /\ FrameOK(f) /\ f.kind = kind /\ f.name = name /\ f.arg = arg /\ f.arr = endpoints[name]
           /\ f.index = 1 /\ f.len = Len(arrays[endpoints[name]]) /\ f.at = "loop"
           /\ endpoints[name] \in ListsOf /\ Len(arrays[endpoints[name]]) \in Nat
<1> DEFINE a == endpoints[name]
           l == Len(arrays[endpoints[name]])
<1>1. a \in Nat /\ a \in ListsOf /\ l \in Nat
  BY TypesOf DEF ListsOK
<1>2. f = [kind |-> kind, name |-> name, arg |-> arg, callback |-> callback, arr |-> a, index |-> 1, len |-> l, e |-> 0, at |-> "loop"]
  BY DEF Loop, None
<1> HIDE DEF a, l
<1>3. /\ f \in Frame /\ f.kind = kind /\ f.name = name /\ f.arg = arg /\ f.arr = a /\ f.index = 1 /\ f.len = l /\ f.at = "loop"
  BY <1>1, <1>2 DEF Frame
<1>4. \A n \in Name : endpoints[n] = a => n = name
  BY DEF ListsOK, a
<1>5. \A p \in PlacesOf(a) : NameOf(arrays[a][p]) = name
  BY DEF ListsOK, a
<1>6. FrameOK(f)
  BY <1>1, <1>3, <1>4, <1>5 DEF FrameOK, a, l
<1> QED BY <1>1, <1>3, <1>6 DEF a, l

\* The script or a callback begins to remove observers.
LEMMA RemoveKeeps ==
    ASSUME IInv, NEW name \in Name, NEW callback \in Callback \cup {Every}, removeOneObserver(name, callback)
    PROVE  IInv'
<1>1. TypeOK /\ ListsOK /\ Holds(stack) /\ stack \in Seq(Frame) /\ UNCHANGED <<state, fired, seen, since, cleared, removed>>
  BY TypesOf DEF IInv, removeOneObserver
<1>2. CASE endpoints[name] = None
  <2>1. stack' = stack
    BY <1>2 DEF removeOneObserver
  <2> QED BY <1>1, <2>1, OnlyStack
<1>3. CASE endpoints[name] # None
  <2>1. SUFFICES ASSUME NEW f, f = Loop("off", name, 0, callback, endpoints, arrays) PROVE IInv'
    OBVIOUS
  <2>2. f \in Frame /\ FrameOK(f) /\ f.kind = "off"
    <3> DEFINE kind == "off"
               arg == 0
    <3>1. kind \in {"fire", "off"} /\ arg \in Nat /\ kind # "fire" /\ f = Loop(kind, name, arg, callback, endpoints, arrays)
      BY <2>1
    <3> HIDE DEF kind, arg
    <3>2. f \in Frame /\ FrameOK(f) /\ f.kind = kind
      BY <1>1, <1>3, <3>1, LoopMade
    <3> QED BY <3>2 DEF kind
  <2>3. stack' = push(stack, f)
    BY <1>3, <2>1 DEF removeOneObserver, None
  <2>4. (stack # <<>> => stack[1].at = "callback") /\ Busy(stack)
    BY DEF removeOneObserver, Calls, Top, Busy
  <2>5. Holds(push(stack, f)) /\ push(stack, f) \in Seq(Frame)
    <3>1. push(stack, f) \in Seq(Frame)
      BY <1>1, <2>2, PushIs
    <3> QED BY <1>1, <2>2, <2>4, <3>1, RemovalHolds
  <2> QED BY <1>1, <2>3, <2>5, OnlyStack
<1> QED BY <1>2, <1>3

\* What is known of a removal that has come to an observer, and of what is below it.
LEMMA RemovalIs ==
    ASSUME IInv, Looping("off"), NEW f, f = Top
    PROVE  /\ TypeOK /\ ListsOK /\ f \in Frame /\ FrameOK(f) /\ f.kind = "off" /\ f.at = "loop"
           /\ Pop \in Seq(Frame) /\ Holds(Pop) /\ Busy(Pop) /\ (Pop # <<>> => Pop[1].at = "callback")
<1>1. TypeOK /\ ListsOK /\ Holds(stack) /\ stack \in Seq(Frame) /\ stack # <<>>
  BY TypesOf DEF IInv, Looping
<1>2. f = stack[1] /\ f.kind = "off" /\ f.at = "loop"
  BY DEF Looping, Top
<1>3. /\ f \in Frame /\ Pop \in Seq(Frame) /\ FrameOK(f)
      /\ Pop # <<>> => Pop[1].at = "callback" \/ (Pop[1].at = "splice" /\ f.kind = "fire")
  BY <1>1, <1>2, TopIs DEF Pop
<1>4. stack[1].at # "callback" /\ stack[1].kind = "off"
  BY <1>2
<1>5. Holds(Tail(stack)) /\ Busy(Tail(stack))
  BY <1>1, <1>4, DropHolds
<1> QED BY <1>1, <1>2, <1>3, <1>5 DEF Pop

\* A removal goes past an observer that is not meant.
LEMMA SkipKeeps ==
    ASSUME IInv, Skip
    PROVE  IInv'
<1> SUFFICES ASSUME NEW f, f = Top PROVE IInv'
  OBVIOUS
<1>1. /\ TypeOK /\ ListsOK /\ f \in Frame /\ FrameOK(f) /\ f.kind = "off" /\ f.at = "loop"
      /\ Pop \in Seq(Frame) /\ Holds(Pop) /\ Busy(Pop) /\ (Pop # <<>> => Pop[1].at = "callback")
  <2>1. Looping("off")
    BY DEF Skip
  <2> QED BY <2>1, RemovalIs
<1>2. SUFFICES ASSUME NEW g, g = GoOn(f), NEW st, st = Pop PROVE IInv'
  OBVIOUS
<1>3. stack' = push(st, g) /\ UNCHANGED <<state, fired, seen, since, cleared, removed>>
  BY <1>2 DEF Skip
<1>4. /\ g \in Frame /\ g.kind = "off" /\ FrameOK(g)
  <2>1. /\ g \in Frame /\ g.kind = f.kind /\ g.name = f.name /\ g.arg = f.arg
        /\ g.arr = f.arr /\ g.index = f.index + 1 /\ g.len = f.len /\ g.at = "loop"
    BY <1>1, <1>2, GoOnIs
  <2> QED BY <1>1, <2>1 DEF FrameOK, Frame
<1>5. st \in Seq(Frame) /\ Holds(st) /\ Busy(st) /\ (st # <<>> => st[1].at = "callback")
  BY <1>1, <1>2
<1>6. Holds(push(st, g)) /\ push(st, g) \in Seq(Frame)
  <2>1. push(st, g) \in Seq(Frame)
    BY <1>4, <1>5, PushIs
  <2> QED BY <1>1, <1>4, <1>5, <2>1, RemovalHolds
<1> QED BY <1>1, <1>3, <1>6, OnlyStack

-----------------------------------------------------------------------------
(***************************************************************************)
(* Firing.                                                                  *)
(***************************************************************************)

\* What there is after an event was fired, of which F and s are what there was before
CountsBefore(s, F) ==
    \A e \in EpsOf : Undisturbed(e) =>
        Len(seen[e]) + Len(eps[e].pending) + Count(s, Coming(e)) = Cardinality(MeantBy(e, F))

FirstBefore(F) ==
    \A n \in Name : (n \notin removed /\ endpoints[n] # None /\ Len(arrays[endpoints[n]]) >= 1) =>
        LET e == arrays[endpoints[n]][1] IN Ascending(Known(e)) /\ Range(Known(e)) = MeantBy(e, F)

Firing(s, name, F) ==
    /\ TypeOK /\ ListsOK /\ s \in Seq(Frame) /\ F \in Seq(Name) /\ name \in Name
    /\ fired = Append(F, name)
    /\ stack = IF endpoints[name] = None THEN s
               ELSE push(s, Loop("fire", name, Len(F) + 1, Every, endpoints, arrays))
    /\ s # <<>> => s[1].at = "callback" \/ s[1].at = "splice"
    /\ StackOK(s) /\ RunningOK(s) /\ SilentOK(s) /\ CountsBefore(s, F) /\ FirstBefore(F)

\* What is known of the endpoints, and of the first one of a name, when an event has been fired.
LEMMA FiringIs ==
    ASSUME NEW s, NEW name, NEW F, Firing(s, name, F)
    PROVE  /\ Len(F) \in Nat /\ Len(fired) = Len(F) + 1 /\ \A n : ~AboutTo(s, n)
           /\ \A e \in EpsOf : /\ Meant(e) = IF NameOf(e) = name THEN MeantBy(e, F) \cup {Len(F) + 1} ELSE MeantBy(e, F)
                               /\ Cardinality(Meant(e)) = Cardinality(MeantBy(e, F)) + IF NameOf(e) = name THEN 1 ELSE 0
                               /\ MeantBy(e, F) \subseteq 1..Len(F) /\ Cardinality(MeantBy(e, F)) \in Nat
           /\ \A n \in Name : endpoints[n] # None /\ Len(arrays[endpoints[n]]) >= 1 =>
                arrays[endpoints[n]][1] \in EpsOf /\ NameOf(arrays[endpoints[n]][1]) = n
<1>1. TypeOK /\ ListsOK /\ s \in Seq(Frame) /\ F \in Seq(Name) /\ name \in Name /\ fired = Append(F, name)
  BY DEF Firing
<1>2. Len(F) \in Nat /\ Len(fired) = Len(F) + 1
  BY <1>1, LenProperties, AppendProperties
<1>3. ASSUME NEW e \in EpsOf
      PROVE  /\ Meant(e) = IF NameOf(e) = name THEN MeantBy(e, F) \cup {Len(F) + 1} ELSE MeantBy(e, F)
             /\ Cardinality(Meant(e)) = Cardinality(MeantBy(e, F)) + IF NameOf(e) = name THEN 1 ELSE 0
             /\ MeantBy(e, F) \subseteq 1..Len(F) /\ Cardinality(MeantBy(e, F)) \in Nat
  <2>1. since[e] <= Len(F)
    <3>1. since[e] < Len(F) + 1 /\ since[e] \in Nat
      BY <1>1, <1>2, TypesOf DEF ListsOK
    <3> QED BY <1>2, <3>1
  <2>2. MeantBy(e, F) \subseteq 1..Len(F) /\ Cardinality(MeantBy(e, F)) \in Nat
    BY <1>1, MeantIs
  <2> QED BY <1>1, <2>1, <2>2, MeantGrows
<1>4. \A n : ~AboutTo(s, n)
  BY DEF Firing, AboutTo
<1>5. ASSUME NEW n \in Name, endpoints[n] # None, Len(arrays[endpoints[n]]) >= 1
      PROVE  arrays[endpoints[n]][1] \in EpsOf /\ NameOf(arrays[endpoints[n]][1]) = n
  <2>1. endpoints[n] \in ListsOf
    BY <1>1, <1>5 DEF ListsOK
  <2>2. 1 \in PlacesOf(endpoints[n])
    BY <1>1, <1>5, <2>1, TypesOf DEF PlacesOf
  <2> QED BY <1>1, <1>5, <2>1, <2>2 DEF ListsOK
<1> QED BY <1>2, <1>3, <1>4, <1>5

\* An event without observers changes nothing for them.
LEMMA FiresNothing ==
    ASSUME NEW s, NEW name, NEW F, Firing(s, name, F), endpoints[name] = None
    PROVE  Holds(s)
<1>1. /\ \A n : ~AboutTo(s, n)
      /\ \A e \in EpsOf : Meant(e) = IF NameOf(e) = name THEN MeantBy(e, F) \cup {Len(F) + 1} ELSE MeantBy(e, F)
      /\ \A n \in Name : endpoints[n] # None /\ Len(arrays[endpoints[n]]) >= 1 =>
                arrays[endpoints[n]][1] \in EpsOf /\ NameOf(arrays[endpoints[n]][1]) = n
  BY FiringIs
<1>2. ListsOK /\ StackOK(s) /\ RunningOK(s) /\ SilentOK(s) /\ CountsBefore(s, F) /\ FirstBefore(F)
  BY DEF Firing
<1>3. CountsOK(s)
  <2> SUFFICES ASSUME NEW e \in EpsOf, Undisturbed(e)
               PROVE  Len(seen[e]) + Len(eps[e].pending) + Count(s, Coming(e)) = Cardinality(Meant(e))
    BY DEF CountsOK
  <2>1. NameOf(e) # name
    BY <1>2 DEF ListsOK
  <2>2. Meant(e) = MeantBy(e, F)
    BY <1>1, <2>1
  <2>3. Len(seen[e]) + Len(eps[e].pending) + Count(s, Coming(e)) = Cardinality(MeantBy(e, F))
    BY <1>2 DEF CountsBefore
  <2> QED BY <2>2, <2>3
<1>4. FirstOK(s)
  <2> SUFFICES ASSUME NEW n \in Name, n \notin removed, endpoints[n] # None, Len(arrays[endpoints[n]]) >= 1,
                      NEW e, e = arrays[endpoints[n]][1]
               PROVE  Ascending(Known(e)) /\ Range(Known(e)) = Meant(e)
    BY <1>1 DEF FirstOK
  <2>1. Ascending(Known(e)) /\ Range(Known(e)) = MeantBy(e, F)
    BY <1>2 DEF FirstBefore
  <2>2. Meant(e) = MeantBy(e, F)
    BY <1>1
  <2> QED BY <2>1, <2>2
<1> QED BY <1>2, <1>3, <1>4 DEF Holds

\* An event with observers is going to come to all of them.
LEMMA FiresLoop ==
    ASSUME NEW s, NEW name, NEW F, Firing(s, name, F), endpoints[name] # None
    PROVE  Holds(stack)
<1>1. TypeOK /\ ListsOK /\ s \in Seq(Frame) /\ F \in Seq(Name) /\ name \in Name /\ fired = Append(F, name)
  BY DEF Firing
<1>2. /\ Len(F) \in Nat /\ Len(fired) = Len(F) + 1 /\ \A n : ~AboutTo(s, n)
      /\ \A e \in EpsOf : /\ Meant(e) = IF NameOf(e) = name THEN MeantBy(e, F) \cup {Len(F) + 1} ELSE MeantBy(e, F)
                          /\ Cardinality(Meant(e)) = Cardinality(MeantBy(e, F)) + IF NameOf(e) = name THEN 1 ELSE 0
                          /\ MeantBy(e, F) \subseteq 1..Len(F) /\ Cardinality(MeantBy(e, F)) \in Nat
      /\ \A n \in Name : endpoints[n] # None /\ Len(arrays[endpoints[n]]) >= 1 =>
                arrays[endpoints[n]][1] \in EpsOf /\ NameOf(arrays[endpoints[n]][1]) = n
  BY FiringIs
<1>a. SUFFICES ASSUME NEW f, f = Loop("fire", name, Len(F) + 1, Every, endpoints, arrays) PROVE Holds(stack)
  OBVIOUS
<1>3. stack = push(s, f) /\ (s # <<>> => s[1].at = "callback" \/ s[1].at = "splice")
  BY <1>a DEF Firing
<1>4. /\ f \in Frame /\ FrameOK(f) /\ f.kind = "fire" /\ f.arg = Len(F) + 1 /\ f.arr = endpoints[name]
      /\ f.index = 1 /\ f.len = Len(arrays[endpoints[name]]) /\ f.at = "loop"
      /\ endpoints[name] \in ListsOf /\ Len(arrays[endpoints[name]]) \in Nat
  <2> DEFINE kind == "fire"
             arg == Len(F) + 1
  <2>1. /\ kind \in {"fire", "off"} /\ arg \in Nat /\ arg \in 1..Len(fired)
        /\ f = Loop(kind, name, arg, Every, endpoints, arrays) /\ Every \in Callback \cup {Every}
    BY <1>2, <1>a
  <2> HIDE DEF kind, arg
  <2>2. /\ f \in Frame /\ FrameOK(f) /\ f.kind = kind /\ f.arg = arg /\ f.arr = endpoints[name]
        /\ f.index = 1 /\ f.len = Len(arrays[endpoints[name]]) /\ f.at = "loop"
        /\ endpoints[name] \in ListsOf /\ Len(arrays[endpoints[name]]) \in Nat
    <3>1. TypeOK /\ ListsOK /\ name \in Name /\ Every \in Callback \cup {Every}
      BY <1>1
    <3>2. kind = "fire" => arg \in 1..Len(fired)
      BY <2>1
    <3> QED BY <2>1, <3>1, <3>2, LoopMade
  <2> QED BY <2>2 DEF kind, arg
<1>5. StackOK(s) /\ RunningOK(s) /\ SilentOK(s) /\ CountsBefore(s, F) /\ FirstBefore(F)
  BY DEF Firing
<1>6. StackOK(push(s, f))
  BY <1>1, <1>3, <1>4, <1>5, PushStack
<1>7. RunningOK(push(s, f))
  <2> SUFFICES ASSUME NEW e \in EpsOf PROVE Count(push(s, f), CallsOf(e)) = Count(s, CallsOf(e))
    BY <1>5 DEF RunningOK
  <2> DEFINE X == CallsOf(e)
  <2>1. f \notin X
    BY <1>4 DEF CallsOf
  <2> HIDE DEF X
  <2>2. Count(push(s, f), X) = Count(s, X) + 0 /\ Count(s, X) \in Nat
    <3>1. Count(push(s, f), X) = Count(s, X) + 0
      BY <1>1, <1>4, <2>1, CountPush
    <3> QED BY <1>1, <3>1, CountIs
  <2>3. Count(push(s, f), X) = Count(s, X)
    BY <2>2
  <2> QED BY <2>3 DEF X
<1>8. SilentOK(push(s, f))
  <2>1. \A e \in EpsOf : cleared[NameOf(e)] > since[e] => (f \in Given(e) => f.arg <= cleared[NameOf(e)])
    <3> SUFFICES ASSUME NEW e \in EpsOf, cleared[NameOf(e)] > since[e], f \in Given(e) PROVE FALSE
      OBVIOUS
    <3>1. PICK p \in PlacesOf(endpoints[name]) : arrays[endpoints[name]][p] = e
      BY <1>4 DEF Given
    <3>2. NameOf(e) = name /\ cleared[name] <= since[e]
      BY <1>1, <3>1 DEF ListsOK
    <3>3. cleared[name] \in Nat /\ since[e] \in Nat
      BY <1>1, TypesOf
    <3> QED BY <3>2, <3>3
  <2> QED BY <1>1, <1>4, <1>5, <2>1, SilentPush
<1>9. CountsOK(push(s, f))
  <2> SUFFICES ASSUME NEW e \in EpsOf, Undisturbed(e)
               PROVE  Len(seen[e]) + Len(eps[e].pending) + Count(push(s, f), Coming(e)) = Cardinality(Meant(e))
    BY DEF CountsOK
  <2> DEFINE X == Coming(e)
             l == Len(seen[e])
             m == Len(eps[e].pending)
             c == Count(s, X)
             k == Cardinality(MeantBy(e, F))
  <2>1. f \in X <=> NameOf(e) = name
    <3>1. endpoints[NameOf(e)] # None /\ NameOf(e) \in Name
      BY <1>1, TypesOf DEF ListsOK
    <3>2. PICK p \in PlacesOf(endpoints[NameOf(e)]) : arrays[endpoints[NameOf(e)]][p] = e
      BY <1>1 DEF ListsOK
    <3>3. endpoints[name] = endpoints[NameOf(e)] => NameOf(e) = name
      BY <1>1, <3>1 DEF ListsOK
    <3>4. CASE NameOf(e) = name
      <4>1. p <= f.len /\ f.index <= p
        BY <1>4, <3>2, <3>4 DEF PlacesOf
      <4> QED BY <1>4, <3>2, <3>4, <4>1 DEF Coming
    <3>5. CASE NameOf(e) # name
      BY <1>4, <3>3, <3>5 DEF Coming
    <3> QED BY <3>4, <3>5
  <2>2. l + m + c = k /\ l \in Nat /\ m \in Nat /\ k \in Nat
    BY <1>1, <1>2, <1>5, TypesOf DEF CountsBefore
  <2>3. Cardinality(Meant(e)) = k + IF NameOf(e) = name THEN 1 ELSE 0
    BY <1>2
  <2> HIDE DEF X, k, l, m
  <2>4. Count(push(s, f), X) = c + (IF f \in X THEN 1 ELSE 0)
    BY <1>1, <1>4, CountPush
  <2>5. c \in Nat
    BY <1>1, CountIs
  <2> HIDE DEF c
  <2>6. l + m + Count(push(s, f), X) = Cardinality(Meant(e))
    BY <2>1, <2>2, <2>3, <2>4, <2>5
  <2> QED BY <2>6 DEF X, l, m
<1>10. FirstOK(push(s, f))
  <2> DEFINE t == push(s, f)
  <2>1. t[1] = f /\ t # <<>>
    BY <1>1, <1>4, PushIs
  <2> HIDE DEF t
  <2> SUFFICES ASSUME NEW n \in Name, n \notin removed, endpoints[n] # None, Len(arrays[endpoints[n]]) >= 1,
                      NEW e, e = arrays[endpoints[n]][1]
               PROVE  /\ Ascending(Known(e))
                      /\ IF AboutTo(t, n)
                         THEN /\ \A i \in 1..Len(Known(e)) : Known(e)[i] < t[1].arg
                              /\ Range(Known(e)) \cup {t[1].arg} = Meant(e)
                         ELSE Range(Known(e)) = Meant(e)
    BY DEF FirstOK, t
  <2>2. Ascending(Known(e)) /\ Range(Known(e)) = MeantBy(e, F)
    BY <1>5 DEF FirstBefore
  <2>3. e \in EpsOf /\ NameOf(e) = n
    BY <1>2
  <2>4. AboutTo(t, n) <=> n = name
    <3>1. endpoints[name] = endpoints[n] => n = name
      BY <1>1 DEF ListsOK
    <3> QED BY <1>4, <2>1, <3>1 DEF AboutTo
  <2>5. CASE n = name
    <3>1. Range(Known(e)) \cup {t[1].arg} = Meant(e)
      BY <1>2, <1>4, <2>1, <2>2, <2>3, <2>5
    <3>2. ASSUME NEW i \in 1..Len(Known(e)) PROVE Known(e)[i] < t[1].arg
      <4> DEFINE k == Known(e)
      <4>1. k \in Seq(Nat)
        BY <1>1, <2>3, TypesOf, ConcatProperties DEF Known
      <4>2. k[i] \in Range(k)
        BY <4>1 DEF Range
      <4>3. k[i] \in 1..Len(F)
        BY <1>2, <2>2, <2>3, <4>2
      <4> QED BY <1>2, <1>4, <2>1, <4>3
    <3> QED BY <2>2, <2>4, <2>5, <3>1, <3>2
  <2>6. CASE n # name
    <3>1. Meant(e) = MeantBy(e, F)
      BY <1>2, <2>3, <2>6
    <3> QED BY <2>2, <2>4, <2>6, <3>1
  <2> QED BY <2>5, <2>6
<1> QED BY <1>3, <1>6, <1>7, <1>8, <1>9, <1>10 DEF Holds

\* After an event was fired everything holds, in any state.
FiringHolds == \A s, name, F : Firing(s, name, F) => IInv

\* So a step of the program is done when what it fires starts from Firing.
LEMMA FiringLeadsOn == FiringHolds
<1> SUFFICES ASSUME NEW s, NEW name, NEW F, Firing(s, name, F) PROVE IInv
  BY DEF FiringHolds
<1>1. TypeOK /\ ListsOK
  BY DEF Firing
<1>2. CASE endpoints[name] = None
  <2>1. Holds(s) /\ stack = s
    BY <1>2, FiresNothing DEF Firing
  <2> QED BY <1>1, <2>1 DEF IInv
<1>3. CASE endpoints[name] # None
  BY <1>1, <1>3, FiresLoop DEF IInv
<1> QED BY <1>2, <1>3

\* It holds so of the state that a step leaves.
LEMMA FiringThen ==
    ASSUME NEW s, NEW name, NEW F, Firing(s, name, F)'
    PROVE  IInv'
<1>1. FiringHolds'
  BY FiringLeadsOn, PTL
<1> QED BY <1>1 DEF FiringHolds

\* A loop that begins is a call.
LEMMA LoopType ==
    ASSUME NEW name \in Name, NEW arg \in Nat, NEW points, NEW lists, points[name] \in Nat, Len(lists[points[name]]) \in Nat
    PROVE  Loop("fire", name, arg, Every, points, lists) \in Frame
<1> DEFINE a == points[name]
           l == Len(lists[points[name]])
           f == [kind |-> "fire", name |-> name, arg |-> arg, callback |-> Every, arr |-> a, index |-> 1, len |-> l, e |-> 0, at |-> "loop"]
<1>1. Loop("fire", name, arg, Every, points, lists) = f /\ a \in Nat /\ l \in Nat
  BY DEF Loop, None
<1> HIDE DEF a, l
<1>2. f \in Frame
  BY <1>1 DEF Frame
<1> QED BY <1>1, <1>2

\* An event is fired over the observers as they are.
LEMMA FiredKeeps ==
    ASSUME TypeOK, ListsOK, UNCHANGED <<state, seen, since, cleared, removed>>, NEW name \in Name,
           NEW s \in Seq(Frame), Holds(s), s # <<>> => s[1].at = "callback" \/ s[1].at = "splice",
           fireThis(name, endpoints, arrays, s)
    PROVE  IInv'
<1>a. SUFFICES ASSUME NEW F, F = fired PROVE IInv'
  OBVIOUS
<1>1. /\ endpoints' = endpoints /\ arrays' = arrays /\ eps' = eps /\ seen' = seen /\ since' = since
      /\ cleared' = cleared /\ removed' = removed /\ fired' = Append(F, name)
      /\ stack' = IF endpoints[name] = None THEN s ELSE push(s, Loop("fire", name, Len(F) + 1, Every, endpoints, arrays))
  BY <1>a DEF fireThis, state
<1>2. F \in Seq(Name) /\ Len(F) \in Nat /\ Len(fired) = Len(F)
  BY <1>a, LenProperties DEF TypeOK
<1>3. fired' \in Seq(Name) /\ Len(fired') = Len(F) + 1
  BY <1>1, <1>2, AppendProperties
<1>4. stack' \in Seq(Frame)
  <2>1. CASE endpoints[name] = None
    BY <1>1, <2>1
  <2>2. CASE endpoints[name] # None
    <3>1. endpoints[name] \in Nat /\ Len(arrays[endpoints[name]]) \in Nat /\ Len(F) + 1 \in Nat
      BY <1>2, <2>2, TypesOf DEF ListsOK
    <3>2. Loop("fire", name, Len(F) + 1, Every, endpoints, arrays) \in Frame
      BY <3>1, LoopType
    <3> QED BY <1>1, <2>2, <3>2, PushIs
  <2> QED BY <2>1, <2>2
<1>5. TypeOK'
  BY <1>1, <1>3, <1>4 DEF TypeOK, Frame
<1>6. EpsOf' = EpsOf /\ ListsOf' = ListsOf /\ \A a : PlacesOf(a)' = PlacesOf(a)
  BY <1>1 DEF EpsOf, ListsOf, PlacesOf
<1>7. /\ \A e : NameOf(e)' = NameOf(e) /\ (Undisturbed(e)' <=> Undisturbed(e)) /\ Coming(e)' = Coming(e)
                /\ Given(e)' = Given(e) /\ Known(e)' = Known(e) /\ MeantBy(e, F)' = Meant(e)
  BY <1>1, <1>6, <1>a DEF NameOf, Undisturbed, Coming, Given, Known, MeantBy, Meant
<1>8. ListsOK'
  <2>1. \A e \in EpsOf : since[e] < Len(fired')
    <3>1. \A e \in EpsOf : since[e] < Len(fired) /\ since[e] \in Nat
      BY TypesOf DEF ListsOK
    <3> QED BY <1>2, <1>3, <3>1
  <2>2. \A n \in Name : cleared[n] <= Len(fired')
    <3>1. \A n \in Name : cleared[n] <= Len(fired) /\ cleared[n] \in Nat
      BY TypesOf DEF ListsOK
    <3> QED BY <1>2, <1>3, <3>1
  <2>3. /\ endpoints' = endpoints /\ arrays' = arrays /\ eps' = eps /\ since' = since
        /\ cleared' = cleared /\ removed' = removed
    BY <1>1
  <2> QED BY <1>6, <2>1, <2>2, <2>3 DEF ListsOK, NameOf, Undisturbed
<1>9. StackOK(s)'
  <2>1. \A f : FrameOK(f) => FrameOK(f)'
    <3>1. \A i \in 1..Len(fired) : i \in 1..Len(fired')
      BY <1>2, <1>3
    <3> QED BY <1>1, <1>6, <1>7, <3>1 DEF FrameOK
  <2> QED BY <2>1 DEF Holds, StackOK
<1>10. RunningOK(s)'
  BY <1>1, <1>6 DEF Holds, RunningOK, CallsOf
<1>11. SilentOK(s)'
  <2>1. \A i \in 1..Len(fired) : i \in 1..Len(fired')
    BY <1>2, <1>3
  <2>2. SilentOK(s)
    BY DEF Holds
  <2> QED BY <1>1, <1>6, <1>7, <2>1, <2>2 DEF SilentOK
<1>12. CountsBefore(s, F)'
  BY <1>1, <1>6, <1>7 DEF Holds, CountsOK, CountsBefore
<1>13. FirstBefore(F)'
  <2>1. \A n : ~AboutTo(s, n)
    BY DEF AboutTo
  <2>2. FirstOK(s)
    BY DEF Holds
  <2> SUFFICES ASSUME NEW n \in Name, n \notin removed, endpoints[n] # None, Len(arrays[endpoints[n]]) >= 1,
                      NEW e, e = arrays[endpoints[n]][1]
               PROVE  Ascending(Known(e))' /\ Range(Known(e))' = MeantBy(e, F)'
    BY <1>1 DEF FirstBefore
  <2>3. Ascending(Known(e)) /\ Range(Known(e)) = Meant(e)
    BY <2>1, <2>2 DEF FirstOK
  <2> QED BY <1>7, <2>3 DEF Ascending, Range
<1>14. Firing(s, name, F)'
  BY <1>1, <1>2, <1>5, <1>8, <1>9, <1>10, <1>11, <1>12, <1>13 DEF Firing
<1> QED BY <1>14, FiringThen

\* A script or a callback fires an event.
LEMMA FireKeeps ==
    ASSUME IInv, NEW name \in Name, Fire(name)
    PROVE  IInv'
<1>1. TypeOK /\ ListsOK /\ Holds(stack) /\ stack \in Seq(Frame)
  BY TypesOf DEF IInv
<1>2. UNCHANGED <<state, seen, since, cleared, removed>> /\ fireThis(name, endpoints, arrays, stack)
      /\ (stack # <<>> => stack[1].at = "callback")
  BY DEF Fire, Calls, Top
<1> QED BY <1>1, <1>2, FiredKeeps

\* A call that is about to splice.
Splicing(f) == [f EXCEPT !.at = "splice"]

\* A removal that has found its observer fires the event off, before it removes it.
LEMMA FireOffKeeps ==
    ASSUME IInv, FireOff
    PROVE  IInv'
<1> SUFFICES ASSUME NEW f, f = Top PROVE IInv'
  OBVIOUS
<1>1. /\ TypeOK /\ ListsOK /\ f \in Frame /\ FrameOK(f) /\ f.kind = "off" /\ f.at = "loop"
      /\ Pop \in Seq(Frame) /\ Holds(Pop) /\ Busy(Pop) /\ (Pop # <<>> => Pop[1].at = "callback")
  <2>1. Looping("off")
    BY DEF FireOff
  <2> QED BY <2>1, RemovalIs
<1>2. SUFFICES ASSUME NEW g, g = Splicing(f), NEW st, st = Pop, NEW off, off = "off" PROVE IInv'
  OBVIOUS
<1>3. /\ fireThis(off, endpoints, arrays, push(st, g)) /\ UNCHANGED <<state, seen, since, cleared, removed>>
  BY <1>2 DEF FireOff, Splicing
<1>4. /\ g \in Frame /\ g.kind = "off" /\ FrameOK(g) /\ g.at = "splice"
  <2>1. /\ g \in Frame /\ g.kind = f.kind /\ g.name = f.name /\ g.arg = f.arg
        /\ g.arr = f.arr /\ g.index = f.index /\ g.len = f.len /\ g.at = "splice"
    BY <1>1, <1>2 DEF Splicing, Frame
  <2> QED BY <1>1, <2>1 DEF FrameOK
<1>5. st \in Seq(Frame) /\ Holds(st) /\ Busy(st) /\ (st # <<>> => st[1].at = "callback") /\ off \in Name
  BY <1>1, <1>2, EventNames
<1>6. Holds(push(st, g)) /\ push(st, g) \in Seq(Frame) /\ push(st, g)[1].at = "splice"
  <2>1. push(st, g) \in Seq(Frame) /\ push(st, g)[1] = g
    BY <1>4, <1>5, PushIs
  <2>2. Holds(push(st, g))
    BY <1>1, <1>4, <1>5, RemovalHolds
  <2> QED BY <1>4, <2>1, <2>2
<1> QED BY <1>1, <1>3, <1>5, <1>6, FiredKeeps

-----------------------------------------------------------------------------
(***************************************************************************)
(* Removing an observer.                                                    *)
(***************************************************************************)

\* A list without one of its elements.
LEMMA RemoveAtIs ==
    ASSUME NEW S, NEW l \in Seq(S), NEW i \in 1..Len(l)
    PROVE  /\ RemoveAt(l, i) \in Seq(S) /\ Len(RemoveAt(l, i)) = Len(l) - 1
           /\ \A j \in 1..Len(l) - 1 : RemoveAt(l, i)[j] = IF j < i THEN l[j] ELSE l[j + 1]
<1> DEFINE n == Len(l)
           u == i - 1
           w == i + 1
           a == SubSeq(l, 1, u)
           b == SubSeq(l, w, n)
           q == a \o b
<1>1. n \in Nat /\ i \in 1..n /\ RemoveAt(l, i) = q
  BY LenProperties DEF RemoveAt
<1>0. u \in Int /\ w \in Int /\ u = i - 1 /\ w = i + 1 /\ (\A j \in 1..u : l[j] \in S) /\ (\A j \in w..n : l[j] \in S)
  <2>1. \A j \in 1..n : l[j] \in S
    OBVIOUS
  <2>2. (\A j \in 1..i - 1 : j \in 1..n) /\ (\A j \in i + 1..n : j \in 1..n)
    BY <1>1
  <2> QED BY <1>1, <2>1, <2>2
<1> HIDE DEF u, w
<1>2. a \in Seq(S) /\ Len(a) = i - 1 /\ \A j \in 1..i - 1 : a[j] = l[j]
  <2>2. a \in Seq(S) /\ Len(a) = (IF 1 <= u THEN u - 1 + 1 ELSE 0) /\ \A j \in 1..u - 1 + 1 : a[j] = l[1 + j - 1]
    BY <1>1, <1>0, SubSeqProperties
  <2>3. u - 1 + 1 = i - 1 /\ (IF 1 <= u THEN u - 1 + 1 ELSE 0) = i - 1 /\ \A j \in 1..i - 1 : 1 + j - 1 = j
    BY <1>1, <1>0
  <2> QED BY <2>2, <2>3
<1>3. b \in Seq(S) /\ Len(b) = n - i /\ \A j \in 1..n - i : b[j] = l[i + j]
  <2>2. b \in Seq(S) /\ Len(b) = (IF w <= n THEN n - w + 1 ELSE 0) /\ \A j \in 1..n - w + 1 : b[j] = l[w + j - 1]
    BY <1>1, <1>0, SubSeqProperties
  <2>3. n - w + 1 = n - i /\ (IF w <= n THEN n - w + 1 ELSE 0) = n - i /\ \A j \in 1..n - i : w + j - 1 = i + j
    BY <1>1, <1>0
  <2> QED BY <2>2, <2>3
<1> HIDE DEF a, b
<1>4. q \in Seq(S) /\ Len(q) = Len(a) + Len(b) /\ \A j \in 1..Len(a) + Len(b) : q[j] = IF j <= Len(a) THEN a[j] ELSE b[j - Len(a)]
  BY <1>2, <1>3, ConcatProperties
<1>5. Len(a) + Len(b) = n - 1
  BY <1>1, <1>2, <1>3
<1> HIDE DEF q
<1>6. ASSUME NEW j \in 1..n - 1 PROVE q[j] = IF j < i THEN l[j] ELSE l[j + 1]
  <2>1. j \in 1..Len(a) + Len(b)
    BY <1>5
  <2>2. CASE j < i
    <3>1. j <= Len(a) /\ j \in 1..i - 1
      BY <1>1, <1>2, <2>2
    <3> QED BY <1>2, <1>4, <2>1, <2>2, <3>1
  <2>3. CASE ~(j < i)
    <3>1. ~(j <= Len(a)) /\ j - Len(a) \in 1..n - i /\ i + (j - Len(a)) = j + 1
      BY <1>1, <1>2, <2>3
    <3>2. q[j] = b[j - Len(a)] /\ b[j - Len(a)] = l[i + (j - Len(a))]
      BY <1>3, <1>4, <2>1, <3>1
    <3> QED BY <2>3, <3>1, <3>2
  <2> QED BY <2>2, <2>3
<1>7. Len(q) = n - 1
  BY <1>4, <1>5
<1> QED BY <1>1, <1>4, <1>6, <1>7 DEF n, u, w

\* The observers of an array after one of them was removed are some of those before, each once.
LEMMA SplicedLists ==
    ASSUME TypeOK, NEW a \in ListsOf, NEW at \in PlacesOf(a), arrays' = [arrays EXCEPT ![a] = RemoveAt(arrays[a], at)]
    PROVE  /\ arrays' \in Seq(Seq(Nat)) /\ ListsOf' = ListsOf
           /\ \A b \in ListsOf : b # a => arrays'[b] = arrays[b]
           /\ \A b \in ListsOf : \A p \in 1..Len(arrays'[b]) : \E q \in PlacesOf(b) :
                /\ arrays'[b][p] = arrays[b][q]
                /\ q = IF b = a THEN (IF p < at THEN p ELSE p + 1) ELSE p
<1> DEFINE l == arrays[a]
           r == RemoveAt(l, at)
<1>1. arrays \in Seq(Seq(Nat)) /\ a \in 1..Len(arrays) /\ l \in Seq(Nat) /\ at \in 1..Len(l) /\ Len(l) \in Nat
  BY TypesOf DEF TypeOK, ListsOf, PlacesOf
<1>2. r \in Seq(Nat) /\ Len(r) = Len(l) - 1 /\ \A j \in 1..Len(l) - 1 : r[j] = IF j < at THEN l[j] ELSE l[j + 1]
  BY <1>1, RemoveAtIs
<1>3. arrays' = [arrays EXCEPT ![a] = r]
  OBVIOUS
<1> HIDE DEF r
<1>4. /\ arrays' \in Seq(Seq(Nat)) /\ Len(arrays') = Len(arrays)
      /\ \A j \in 1..Len(arrays) : arrays'[j] = IF j = a THEN r ELSE arrays[j]
  <2>1. [arrays EXCEPT ![a] = r] \in Seq(Seq(Nat)) /\ Len([arrays EXCEPT ![a] = r]) = Len(arrays)
        /\ \A j \in 1..Len(arrays) : [arrays EXCEPT ![a] = r][j] = IF j = a THEN r ELSE arrays[j]
    BY <1>1, <1>2, ExceptSeq
  <2> QED BY <1>3, <2>1
<1>5. ListsOf' = ListsOf
  BY <1>4 DEF ListsOf
<1>6. \A b \in ListsOf : b # a => arrays'[b] = arrays[b]
  BY <1>4 DEF ListsOf
<1>7. ASSUME NEW b \in ListsOf, NEW p \in 1..Len(arrays'[b])
      PROVE  \E q \in PlacesOf(b) : arrays'[b][p] = arrays[b][q] /\ q = IF b = a THEN (IF p < at THEN p ELSE p + 1) ELSE p
  <2>1. CASE b # a
    BY <1>6, <2>1 DEF PlacesOf
  <2>2. CASE b = a
    <3>1. p \in 1..Len(l) - 1 /\ arrays'[b] = r
      BY <1>2, <1>4, <2>2 DEF ListsOf
    <3>2. p \in 1..Len(l) /\ p + 1 \in 1..Len(l)
      BY <1>1, <3>1
    <3> QED BY <1>2, <2>2, <3>1, <3>2 DEF PlacesOf
  <2> QED BY <2>1, <2>2
<1> QED BY <1>4, <1>5, <1>6, <1>7

\* An observer of a name is removed: nothing is known any more of the observers of the
\* name, and everything is as it was for the others.
LEMMA SplicedKeeps ==
    ASSUME TypeOK, ListsOK, NEW s \in Seq(Frame), Holds(s), Busy(s), NEW a \in ListsOf, NEW name \in Name, NEW at \in PlacesOf(a),
           \A p \in PlacesOf(a) : NameOf(arrays[a][p]) = name, arrays' = [arrays EXCEPT ![a] = RemoveAt(arrays[a], at)],
           removed' = removed \cup {name}, stack' = s, UNCHANGED <<endpoints, eps, fired, seen, since, cleared>>
    PROVE  IInv'
<1>1. /\ arrays' \in Seq(Seq(Nat)) /\ ListsOf' = ListsOf
      /\ \A b \in ListsOf : b # a => arrays'[b] = arrays[b]
      /\ \A b \in ListsOf : \A p \in 1..Len(arrays'[b]) : \E q \in PlacesOf(b) :
           arrays'[b][p] = arrays[b][q] /\ q = IF b = a THEN (IF p < at THEN p ELSE p + 1) ELSE p
  BY SplicedLists
<1>2. /\ endpoints' = endpoints /\ eps' = eps /\ fired' = fired /\ seen' = seen /\ since' = since /\ cleared' = cleared
      /\ removed' = removed \cup {name} /\ EpsOf' = EpsOf
  BY DEF EpsOf
<1>3. \A e : NameOf(e)' = NameOf(e) /\ Known(e)' = Known(e) /\ Meant(e)' = Meant(e)
  BY <1>2 DEF NameOf, Known, Meant
<1>4. \A n \in Name : n # name /\ endpoints[n] # None => endpoints[n] # a
  <2>1. NameOf(arrays[a][at]) = name
    OBVIOUS
  <2> QED BY <2>1 DEF ListsOK
<1>5. ASSUME NEW e \in EpsOf, Undisturbed(e)'
      PROVE  Undisturbed(e) /\ NameOf(e) # name /\ endpoints[NameOf(e)] # None /\ endpoints[NameOf(e)] # a
             /\ endpoints[NameOf(e)] \in ListsOf /\ Coming(e)' = Coming(e)
  <2>1. Undisturbed(e) /\ NameOf(e) # name
    BY <1>2, <1>5 DEF Undisturbed, NameOf
  <2>2. endpoints[NameOf(e)] # None /\ NameOf(e) \in Name
    BY <2>1, TypesOf DEF ListsOK
  <2>3. endpoints[NameOf(e)] # a /\ endpoints[NameOf(e)] \in ListsOf
    BY <1>4, <2>1, <2>2 DEF ListsOK
  <2>4. arrays'[endpoints[NameOf(e)]] = arrays[endpoints[NameOf(e)]]
    BY <1>1, <2>3
  <2>5. Coming(e)' = Coming(e)
    <3>1. \A f \in Frame : f \in Coming(e) <=> f \in Coming(e)'
      BY <1>2, <1>3, <2>4 DEF Coming, PlacesOf
    <3>2. (\A f \in Coming(e) : f \in Frame) /\ (\A f \in Coming(e)' : f \in Frame)
      BY DEF Coming
    <3> QED BY <3>1, <3>2
  <2> QED BY <2>1, <2>2, <2>3, <2>5
<1>6. TypeOK'
  BY <1>1, <1>2 DEF TypeOK, Frame
<1>7. ListsOK'
  <2>a. SUFFICES ASSUME NEW A, A = arrays', NEW u, u = eps' PROVE ListsOK'
    OBVIOUS
  <2>b. \A x : NameOf(x) = u[x].name
    BY <1>2, <2>a DEF NameOf
  <2> DEFINE From(b, p) == IF b = a THEN (IF p < at THEN p ELSE p + 1) ELSE p
  <2>1. \A b \in ListsOf : \A p \in 1..Len(A[b]) : From(b, p) \in PlacesOf(b) /\ A[b][p] = arrays[b][From(b, p)]
    BY <1>1, <2>a
  <2>2. \A b \in ListsOf : \A p, q \in 1..Len(A[b]) : From(b, p) = From(b, q) => p = q
    <3> SUFFICES ASSUME NEW b \in ListsOf, NEW p \in 1..Len(A[b]), NEW q \in 1..Len(A[b]), From(b, p) = From(b, q)
                 PROVE  p = q
      OBVIOUS
    <3>1. p \in Int /\ q \in Int /\ at \in Int
      BY DEF PlacesOf
    <3> QED BY <3>1
  <2> HIDE DEF From
  <2>3. \A b \in ListsOf : \A p \in 1..Len(A[b]) : A[b][p] \in EpsOf
    BY <2>1 DEF ListsOK
  <2>4. ASSUME NEW b \in ListsOf, NEW c \in ListsOf, NEW p \in 1..Len(A[b]), NEW q \in 1..Len(A[c]), A[b][p] = A[c][q]
        PROVE  b = c /\ p = q
    <3>1. arrays[b][From(b, p)] = arrays[c][From(c, q)] /\ From(b, p) \in PlacesOf(b) /\ From(c, q) \in PlacesOf(c)
      BY <2>1, <2>4
    <3>2. b = c /\ From(b, p) = From(c, q)
      BY <3>1 DEF ListsOK
    <3> QED BY <2>2, <3>2
  <2>5. ASSUME NEW n \in Name, endpoints[n] # None
        PROVE  /\ endpoints[n] \in ListsOf
               /\ \A p \in 1..Len(A[endpoints[n]]) :
                    u[A[endpoints[n]][p]].name = n /\ cleared[n] <= since[A[endpoints[n]][p]]
    <3>1. /\ endpoints[n] \in ListsOf
          /\ \A q \in PlacesOf(endpoints[n]) :
               NameOf(arrays[endpoints[n]][q]) = n /\ cleared[n] <= since[arrays[endpoints[n]][q]]
      BY <2>5 DEF ListsOK
    <3> QED BY <2>1, <2>b, <3>1
  <2>6. ASSUME NEW b \in ListsOf, NEW p \in 1..Len(A[b]), endpoints[u[A[b][p]].name] # b
        PROVE  cleared[u[A[b][p]].name] > since[A[b][p]]
    <3>1. \A q \in PlacesOf(b) : endpoints[NameOf(arrays[b][q])] # b => cleared[NameOf(arrays[b][q])] > since[arrays[b][q]]
      BY DEF ListsOK
    <3> QED BY <2>1, <2>6, <2>b, <3>1
  <2>7. ASSUME NEW e \in EpsOf, Undisturbed(e)'
        PROVE  endpoints[NameOf(e)] # None
               /\ \E p \in 1..Len(A[endpoints[NameOf(e)]]) : A[endpoints[NameOf(e)]][p] = e
    <3>1. Undisturbed(e) /\ endpoints[NameOf(e)] # None /\ A[endpoints[NameOf(e)]] = arrays[endpoints[NameOf(e)]]
      BY <1>1, <2>a, <1>5, <2>7
    <3> QED BY <3>1 DEF ListsOK, PlacesOf
  <2>8. /\ (\A m, n \in Name : endpoints[m] = endpoints[n] /\ endpoints[m] # None => m = n)
        /\ (\A e \in EpsOf : since[e] < Len(fired)) /\ (\A n \in Name : cleared[n] <= Len(fired))
    BY DEF ListsOK
  <2>9. /\ endpoints' = endpoints /\ eps' = u /\ fired' = fired /\ since' = since /\ cleared' = cleared /\ EpsOf' = EpsOf
        /\ ListsOf' = ListsOf /\ arrays' = A /\ \A b : PlacesOf(b)' = 1..Len(A[b])
    BY <1>1, <2>a, <1>2 DEF PlacesOf
  <2>10. (\A b \in ListsOf : \A p \in PlacesOf(b) : arrays[b][p] \in EpsOf)'
    BY <2>3, <2>9
  <2>11. (\A b, c \in ListsOf : \A p \in PlacesOf(b), q \in PlacesOf(c) : arrays[b][p] = arrays[c][q] => b = c /\ p = q)'
    <3> SUFFICES ASSUME NEW b \in ListsOf', NEW c \in ListsOf', NEW p \in PlacesOf(b)', NEW q \in PlacesOf(c)', A[b][p] = A[c][q]
                 PROVE  b = c /\ p = q
      BY <2>a
    <3>1. b \in ListsOf /\ c \in ListsOf /\ p \in 1..Len(A[b]) /\ q \in 1..Len(A[c])
      BY <2>9
    <3> QED BY <2>4, <3>1
  <2>12. (\A n \in Name : endpoints[n] # None =>
            /\ endpoints[n] \in ListsOf
            /\ \A p \in PlacesOf(endpoints[n]) :
                 NameOf(arrays[endpoints[n]][p]) = n /\ cleared[n] <= since[arrays[endpoints[n]][p]])'
    BY <2>5, <2>9 DEF NameOf
  <2>13. (\A b \in ListsOf : \A p \in PlacesOf(b) :
            endpoints[NameOf(arrays[b][p])] # b => cleared[NameOf(arrays[b][p])] > since[arrays[b][p]])'
    BY <2>6, <2>9 DEF NameOf
  <2>14. (\A e \in EpsOf : Undisturbed(e) =>
            endpoints[NameOf(e)] # None /\ \E p \in PlacesOf(endpoints[NameOf(e)]) : arrays[endpoints[NameOf(e)]][p] = e)'
    BY <1>3, <2>7, <2>9
  <2>15. (\A m, n \in Name : endpoints[m] = endpoints[n] /\ endpoints[m] # None => m = n)'
         /\ (\A e \in EpsOf : since[e] < Len(fired))' /\ (\A n \in Name : cleared[n] <= Len(fired))'
    BY <2>8, <2>9
  <2> QED BY <2>10, <2>11, <2>12, <2>13, <2>14, <2>15 DEF ListsOK
<1>8. StackOK(s)'
  <2>1. ASSUME NEW f, FrameOK(f) PROVE FrameOK(f)'
    <3>1. f.arr \in ListsOf
      BY <2>1 DEF FrameOK
    <3>2. \A p \in 1..Len(arrays'[f.arr]) : NameOf(arrays'[f.arr][p]) = f.name
      <4>1. \A q \in PlacesOf(f.arr) : NameOf(arrays[f.arr][q]) = f.name
        BY <2>1 DEF FrameOK
      <4>2. \A p \in 1..Len(arrays'[f.arr]) : \E q \in PlacesOf(f.arr) : arrays'[f.arr][p] = arrays[f.arr][q]
        BY <1>1, <3>1
      <4> QED BY <4>1, <4>2
    <3>3. f.name \notin removed' => f.len <= Len(arrays'[f.arr])
      <4> SUFFICES ASSUME f.name \notin removed' PROVE f.len <= Len(arrays'[f.arr])
        OBVIOUS
      <4>1. f.name \notin removed /\ f.name # name
        BY <1>2
      <4>2. f.arr # a
        BY <2>1, <4>1 DEF FrameOK
      <4> QED BY <1>1, <2>1, <3>1, <4>1, <4>2 DEF FrameOK
    <3> QED BY <1>1, <1>2, <2>1, <3>1, <3>2, <3>3 DEF FrameOK, PlacesOf, NameOf
  <2> QED BY <2>1 DEF Holds, StackOK
<1>9. RunningOK(s)'
  BY <1>2 DEF Holds, RunningOK, CallsOf
<1>10. SilentOK(s)'
  <2>1. ASSUME NEW e, NEW f, f \in Given(e)', f.arr \in ListsOf PROVE f \in Given(e)
    <3>1. \A p \in 1..Len(arrays'[f.arr]) : \E q \in PlacesOf(f.arr) : arrays'[f.arr][p] = arrays[f.arr][q]
      BY <1>1, <2>1
    <3>2. f \in Frame /\ f.kind = "fire"
          /\ ((f.at = "callback" /\ f.e = e) \/ \E p \in 1..Len(arrays'[f.arr]) : arrays'[f.arr][p] = e)
      BY <2>1 DEF Given, PlacesOf
    <3> QED BY <3>1, <3>2 DEF Given
  <2>2. \A i \in 1..Len(s) : s[i].arr \in ListsOf
    BY DEF Holds, StackOK, FrameOK
  <2>3. \A e : \A i \in 1..Len(s) : s[i] \in Given(e)' => s[i] \in Given(e)
    BY <2>1, <2>2
  <2>4. SilentOK(s)
    BY DEF Holds
  <2> QED BY <1>2, <1>3, <2>3, <2>4 DEF SilentOK
<1>11. CountsOK(s)'
  <2>1. CountsOK(s)
    BY DEF Holds
  <2> SUFFICES ASSUME NEW e \in EpsOf, Undisturbed(e)'
               PROVE  Len(seen[e]) + Len(eps[e].pending) + Count(s, Coming(e)') = Cardinality(Meant(e)')
    BY <1>2 DEF CountsOK
  <2>2. Undisturbed(e) /\ Coming(e)' = Coming(e) /\ Meant(e)' = Meant(e)
    BY <1>3, <1>5
  <2> QED BY <2>1, <2>2 DEF CountsOK
<1>12. FirstOK(s)'
  <2>1. FirstOK(s) /\ \A n : ~AboutTo(s, n) /\ ~AboutTo(s, n)'
    BY BusyIs DEF Holds, Busy, AboutTo
  <2> SUFFICES ASSUME NEW n \in Name, n \notin removed', endpoints[n] # None, Len(arrays'[endpoints[n]]) >= 1,
                      NEW e, e = arrays'[endpoints[n]][1]
               PROVE  Ascending(Known(e))' /\ Range(Known(e))' = Meant(e)'
    BY <1>2, <2>1 DEF FirstOK
  <2>2. n \notin removed /\ n # name
    BY <1>2
  <2>3. endpoints[n] \in ListsOf /\ endpoints[n] # a
    BY <1>4, <2>2 DEF ListsOK
  <2>4. arrays'[endpoints[n]] = arrays[endpoints[n]]
    BY <1>1, <2>3
  <2>5. Ascending(Known(e)) /\ Range(Known(e)) = Meant(e)
    BY <2>1, <2>2, <2>4 DEF FirstOK
  <2> QED BY <1>3, <2>5 DEF Ascending, Range
<1>13. Holds(s)'
  BY <1>8, <1>9, <1>10, <1>11, <1>12 DEF Holds
<1>14. Holds(stack)'
  BY <1>13, HoldsAs
<1> QED BY <1>6, <1>7, <1>14 DEF IInv

\* What is known of a removal that is about to splice, and of what is below it.
LEMMA SpliceIs ==
    ASSUME IInv, stack # <<>>, Top.at = "splice", NEW f, f = Top
    PROVE  /\ TypeOK /\ ListsOK /\ f \in Frame /\ FrameOK(f) /\ f.kind = "off" /\ f.at = "splice"
           /\ Pop \in Seq(Frame) /\ Holds(Pop) /\ Busy(Pop) /\ (Pop # <<>> => Pop[1].at = "callback")
<1>1. TypeOK /\ ListsOK /\ Holds(stack) /\ stack \in Seq(Frame) /\ stack # <<>>
  BY TypesOf DEF IInv
<1>2. f = stack[1] /\ f.at = "splice"
  BY DEF Top
<1>3. /\ f \in Frame /\ Pop \in Seq(Frame) /\ FrameOK(f)
      /\ Pop # <<>> => Pop[1].at = "callback" \/ (Pop[1].at = "splice" /\ f.kind = "fire")
  BY <1>1, <1>2, TopIs DEF Pop
<1>4. f.kind = "off"
  BY <1>2, <1>3 DEF FrameOK
<1>5. stack[1].at # "callback" /\ stack[1].kind = "off"
  BY <1>2, <1>4
<1>6. Holds(Tail(stack)) /\ Busy(Tail(stack))
  BY <1>1, <1>5, DropHolds
<1> QED BY <1>1, <1>2, <1>3, <1>4, <1>6 DEF Pop

\* The observer at the index is removed, or splice throws through the callback below.
LEMMA SpliceKeeps ==
    ASSUME IInv, Splice
    PROVE  IInv'
<1> SUFFICES ASSUME NEW f, f = Top PROVE IInv'
  OBVIOUS
<1>1. /\ TypeOK /\ ListsOK /\ f \in Frame /\ FrameOK(f) /\ f.kind = "off" /\ f.at = "splice"
      /\ Pop \in Seq(Frame) /\ Holds(Pop) /\ Busy(Pop) /\ (Pop # <<>> => Pop[1].at = "callback")
  BY SpliceIs DEF Splice
<1>a. SUFFICES ASSUME NEW a, a = f.arr, NEW l, l = arrays[a], NEW st, st = Pop, NEW g, g = GoOn(f) PROVE IInv'
  OBVIOUS
<1>2. a \in ListsOf /\ l \in Seq(Nat) /\ Len(l) \in Nat /\ f.index \in Nat /\ f.index >= 1
      /\ st \in Seq(Frame) /\ Holds(st) /\ Busy(st) /\ (st # <<>> => st[1].at = "callback")
  <2>1. a \in ListsOf /\ f.index \in Nat /\ f.index >= 1
    BY <1>1, <1>a DEF FrameOK, Frame
  <2> QED BY <1>1, <1>a, <2>1, TypesOf
<1>3. CASE l # <<>>
  <2> DEFINE at == IF f.index > Len(l) THEN Len(l) ELSE f.index
  <2>1. /\ arrays' = [arrays EXCEPT ![a] = RemoveAt(arrays[a], at)] /\ removed' = removed \cup {f.name} /\ stack' = push(st, g)
        /\ UNCHANGED <<endpoints, eps, fired, seen, since, cleared>>
    BY <1>3, <1>a DEF Splice
  <2>2. at \in PlacesOf(a)
    <3>1. Len(l) >= 1
      BY <1>2, <1>3, EmptySeq
    <3> QED BY <1>2, <1>a, <3>1 DEF PlacesOf
  <2> HIDE DEF at
  <2>3. f.name \in Name /\ \A p \in PlacesOf(a) : NameOf(arrays[a][p]) = f.name
    BY <1>1, <1>a DEF FrameOK, Frame
  <2>4. /\ g \in Frame /\ g.kind = "off" /\ FrameOK(g)
    <3>1. /\ g \in Frame /\ g.kind = f.kind /\ g.name = f.name /\ g.arg = f.arg
          /\ g.arr = f.arr /\ g.index = f.index + 1 /\ g.len = f.len /\ g.at = "loop"
      BY <1>1, <1>a, GoOnIs
    <3> QED BY <1>1, <3>1 DEF FrameOK, Frame
  <2>5. Holds(push(st, g)) /\ Busy(push(st, g)) /\ push(st, g) \in Seq(Frame)
    <3>1. push(st, g) \in Seq(Frame)
      BY <1>2, <2>4, PushIs
    <3> QED BY <1>1, <1>2, <2>4, <3>1, RemovalHolds
  <2>6. SUFFICES ASSUME NEW s, s = push(st, g), NEW name, name = f.name PROVE IInv'
    OBVIOUS
  <2>7. /\ s \in Seq(Frame) /\ Holds(s) /\ Busy(s) /\ name \in Name /\ (\A p \in PlacesOf(a) : NameOf(arrays[a][p]) = name)
        /\ removed' = removed \cup {name} /\ stack' = s
    BY <2>1, <2>3, <2>5, <2>6
  <2> QED BY <1>1, <1>2, <2>1, <2>2, <2>7, SplicedKeeps
<1>4. CASE l = <<>>
  <2>1. UNCHANGED <<endpoints, arrays, fired, since, cleared, removed>>
    BY <1>4, <1>a DEF Splice
  <2>2. CASE st = <<>>
    <3>1. stack' = st /\ UNCHANGED <<state, fired, seen, since, cleared, removed>>
      BY <1>4, <1>a, <2>1, <2>2 DEF Splice, state
    <3> QED BY <1>1, <1>2, <3>1, OnlyStack
  <2>3. CASE st # <<>>
    <3>1. CallbackEnds(st)
      BY <1>4, <1>a, <2>3 DEF Splice
    <3> QED BY <1>1, <1>2, <2>1, <2>3, <3>1, CallbackEndsKeeps
  <2> QED BY <2>2, <2>3
<1> QED BY <1>3, <1>4

-----------------------------------------------------------------------------
(***************************************************************************)
(* Clearing the observers of names.                                         *)
(***************************************************************************)

\* The names that are cleared have no observers, the arrays that they had are as they were.
LEMMA ClearedLists ==
    ASSUME IInv, NEW names \in {{n} : n \in Name} \cup {Name}, clearObservers(names)
    PROVE  /\ endpoints' \in [Name -> Nat] /\ arrays' \in Seq(Seq(Nat)) /\ cleared' \in [Name -> Nat]
           /\ ListsOf \subseteq ListsOf' /\ \A a \in ListsOf : arrays'[a] = arrays[a]
           /\ \A a \in ListsOf' : a \notin ListsOf => arrays'[a] = <<>>
           /\ \A n \in Name : n \notin names => endpoints'[n] = endpoints[n] /\ cleared'[n] = cleared[n]
           /\ \A n \in names : /\ cleared'[n] = Len(fired)
                               /\ endpoints'[n] = None \/ (endpoints'[n] \in ListsOf' /\ endpoints'[n] \notin ListsOf)
           /\ \A m, n \in Name : endpoints'[m] = endpoints'[n] /\ endpoints'[m] # None => m = n
           /\ UNCHANGED <<eps, stack, fired, seen, since, removed>>
<1>1. /\ endpoints \in [Name -> Nat] /\ arrays \in Seq(Seq(Nat)) /\ cleared \in [Name -> Nat] /\ Len(fired) \in Nat
      /\ Len(arrays) \in Nat /\ ListsOK
  BY TypesOf DEF IInv, TypeOK
<1>2. /\ cleared' = [n \in Name |-> IF n \in names THEN Len(fired) ELSE cleared[n]]
      /\ UNCHANGED <<eps, stack, fired, seen, since, removed>>
  BY DEF clearObservers
<1>3. cleared' \in [Name -> Nat] /\ \A n \in Name : cleared'[n] = IF n \in names THEN Len(fired) ELSE cleared[n]
  BY <1>1, <1>2
<1>4. \A n \in Name : endpoints[n] # None => endpoints[n] \in 1..Len(arrays)
  BY <1>1 DEF ListsOK, ListsOf
<1>5. \A m, n \in Name : endpoints[m] = endpoints[n] /\ endpoints[m] # None => m = n
  BY <1>1 DEF ListsOK
<1>6. CASE names = Name
  <2>1. endpoints' = [n \in Name |-> None] /\ arrays' = arrays
    BY <1>6 DEF clearObservers
  <2> QED BY <1>1, <1>2, <1>3, <1>6, <2>1 DEF ListsOf, None
<1>7. CASE names # Name
  <2>1. PICK n \in names : endpoints' = [endpoints EXCEPT ![n] = Len(arrays) + 1] /\ arrays' = Append(arrays, <<>>)
    BY <1>7 DEF clearObservers
  <2>2. /\ arrays' \in Seq(Seq(Nat)) /\ Len(arrays') = Len(arrays) + 1 /\ arrays'[Len(arrays) + 1] = <<>>
        /\ \A a \in 1..Len(arrays) : arrays'[a] = arrays[a]
    BY <1>1, <2>1, AppendProperties
  <2>a. names = {n} /\ n \in Name
    <3>1. PICK m \in Name : names = {m}
      BY <1>7
    <3> QED BY <3>1
  <2>3. endpoints' \in [Name -> Nat] /\ endpoints'[n] = Len(arrays) + 1 /\ \A m \in Name : m # n => endpoints'[m] = endpoints[m]
    BY <1>1, <2>1, <2>a
  <2>4. ListsOf' = 1..Len(arrays) + 1 /\ ListsOf = 1..Len(arrays) /\ Len(arrays) + 1 \notin ListsOf /\ ListsOf \subseteq ListsOf'
        /\ (\A a \in ListsOf' : a \notin ListsOf => a = Len(arrays) + 1) /\ Len(arrays) + 1 \in ListsOf'
    <3> DEFINE k == Len(arrays)
    <3>1. ListsOf' = 1..k + 1 /\ ListsOf = 1..k /\ k \in Nat
      BY <1>1, <2>2 DEF ListsOf
    <3> HIDE DEF k
    <3>2. k + 1 \notin 1..k /\ 1..k \subseteq 1..k + 1 /\ k + 1 \in 1..k + 1 /\ \A a \in 1..k + 1 : a \notin 1..k => a = k + 1
      BY <3>1
    <3> QED BY <3>1, <3>2 DEF k
  <2>5. \A a \in ListsOf : arrays'[a] = arrays[a]
    BY <2>2, <2>4
  <2>6. \A a \in ListsOf' : a \notin ListsOf => arrays'[a] = <<>>
    BY <2>2, <2>4
  <2>7. \A m \in Name : m \notin names => endpoints'[m] = endpoints[m] /\ cleared'[m] = cleared[m]
    BY <1>3, <2>3, <2>a
  <2>8. \A m \in names : cleared'[m] = Len(fired) /\ endpoints'[m] \in ListsOf' /\ endpoints'[m] \notin ListsOf
    BY <1>3, <2>3, <2>4, <2>a
  <2>9. ASSUME NEW k \in Name, NEW m \in Name, endpoints'[k] = endpoints'[m], endpoints'[k] # None
        PROVE  k = m
    <3>1. \A x \in Name : x # n => endpoints'[x] = None \/ endpoints'[x] \in 1..Len(arrays)
      BY <1>4, <2>3
    <3>2. Len(arrays) + 1 \notin 1..Len(arrays)
      BY <1>1
    <3>3. k = n <=> m = n
      BY <2>3, <2>9, <3>1, <3>2
    <3> QED BY <1>5, <2>3, <2>9, <3>3
  <2> QED BY <1>2, <1>3, <2>2, <2>3, <2>4, <2>5, <2>6, <2>7, <2>8, <2>9
<1> QED BY <1>6, <1>7

\* The observers of names are cleared: an event that is already fired is the last that
\* they may see, and everything is as it was for the other names.
LEMMA ClearKeeps ==
    ASSUME IInv, NEW names \in {{n} : n \in Name} \cup {Name}, clearObservers(names)
    PROVE  IInv'
<1> SUFFICES ASSUME NEW s, s = stack PROVE IInv'
  OBVIOUS
<1>1. /\ endpoints' \in [Name -> Nat] /\ arrays' \in Seq(Seq(Nat)) /\ cleared' \in [Name -> Nat]
      /\ ListsOf \subseteq ListsOf' /\ \A a \in ListsOf : arrays'[a] = arrays[a]
      /\ \A a \in ListsOf' : a \notin ListsOf => arrays'[a] = <<>>
      /\ \A n \in Name : n \notin names => endpoints'[n] = endpoints[n] /\ cleared'[n] = cleared[n]
      /\ \A n \in names : /\ cleared'[n] = Len(fired)
                          /\ endpoints'[n] = None \/ (endpoints'[n] \in ListsOf' /\ endpoints'[n] \notin ListsOf)
      /\ \A m, n \in Name : endpoints'[m] = endpoints'[n] /\ endpoints'[m] # None => m = n
      /\ UNCHANGED <<eps, stack, fired, seen, since, removed>>
  BY ClearedLists
<1>2. TypeOK /\ ListsOK /\ Holds(s) /\ s \in Seq(Frame) /\ names \subseteq Name /\ stack' = s
  BY <1>1, TypesOf DEF IInv
<1>3. Busy(s)
  BY DEF clearObservers, Calls, Top, Busy
<1>a. SUFFICES ASSUME NEW E, E = endpoints', NEW A, A = arrays', NEW c, c = cleared', NEW L, L = ListsOf' PROVE IInv'
  OBVIOUS
<1>4. /\ eps' = eps /\ fired' = fired /\ seen' = seen /\ since' = since /\ removed' = removed /\ EpsOf' = EpsOf
  BY <1>1 DEF EpsOf
<1>5. /\ E \in [Name -> Nat] /\ A \in Seq(Seq(Nat)) /\ c \in [Name -> Nat] /\ ListsOf \subseteq L /\ L = 1..Len(A)
      /\ \A a \in ListsOf : A[a] = arrays[a]
      /\ \A n \in Name : n \notin names => E[n] = endpoints[n] /\ c[n] = cleared[n]
      /\ \A n \in names : c[n] = Len(fired) /\ E[n] \notin ListsOf
      /\ \A n \in names : E[n] # None => E[n] \in L
      /\ \A m, n \in Name : E[m] = E[n] /\ E[m] # None => m = n
  BY <1>1, <1>a DEF ListsOf, None
<1>6. \A a \in L : \A p \in 1..Len(A[a]) : a \in ListsOf /\ A[a] = arrays[a] /\ p \in PlacesOf(a)
  <2>1. \A a \in L : a \notin ListsOf => A[a] = <<>>
    BY <1>1, <1>a
  <2>2. \A p : p \notin 1..Len(<<>>)
    OBVIOUS
  <2> QED BY <1>5, <2>1, <2>2 DEF PlacesOf
<1>7. \A e \in EpsOf : NameOf(e) \in Name /\ since[e] \in Nat /\ since[e] < Len(fired) /\ Len(fired) \in Nat
  BY <1>2, TypesOf DEF ListsOK
<1>8. \A e : NameOf(e)' = NameOf(e) /\ Known(e)' = Known(e) /\ Meant(e)' = Meant(e)
  BY <1>4 DEF NameOf, Known, Meant
<1>9. ASSUME NEW e \in EpsOf, Undisturbed(e)'
      PROVE  Undisturbed(e) /\ NameOf(e) \notin names
  <2>1. NameOf(e) \notin removed /\ c[NameOf(e)] <= since[e]
    BY <1>4, <1>9, <1>a DEF Undisturbed, NameOf
  <2>2. NameOf(e) \notin names
    BY <1>5, <1>7, <2>1
  <2> QED BY <1>5, <1>7, <2>1, <2>2 DEF Undisturbed, NameOf
<1>10. TypeOK'
  BY <1>2, <1>1, <1>4 DEF TypeOK, Frame
<1> HIDE DEF IInv, clearObservers
<1>11. ListsOK'
  <2>1. \A a \in L : \A p \in 1..Len(A[a]) : A[a][p] \in EpsOf
    BY <1>2, <1>6 DEF ListsOK
  <2>2. \A a, b \in L : \A p \in 1..Len(A[a]), q \in 1..Len(A[b]) : A[a][p] = A[b][q] => a = b /\ p = q
    <3> SUFFICES ASSUME NEW a \in L, NEW b \in L, NEW p \in 1..Len(A[a]), NEW q \in 1..Len(A[b]), A[a][p] = A[b][q]
                 PROVE  a = b /\ p = q
      OBVIOUS
    <3>1. a \in ListsOf /\ b \in ListsOf /\ p \in PlacesOf(a) /\ q \in PlacesOf(b) /\ arrays[a][p] = arrays[b][q]
      BY <1>6
    <3> QED BY <1>2, <3>1 DEF ListsOK
  <2>3. \A n \in Name : E[n] # None =>
          E[n] \in L /\ \A p \in 1..Len(A[E[n]]) : NameOf(A[E[n]][p]) = n /\ c[n] <= since[A[E[n]][p]]
    <3> SUFFICES ASSUME NEW n \in Name, E[n] # None
                 PROVE  E[n] \in L /\ \A p \in 1..Len(A[E[n]]) : NameOf(A[E[n]][p]) = n /\ c[n] <= since[A[E[n]][p]]
      OBVIOUS
    <3>1. CASE n \in names
      BY <1>5, <1>6, <3>1
    <3>2. CASE n \notin names
      <4>1. E[n] = endpoints[n] /\ c[n] = cleared[n] /\ E[n] \in ListsOf
        BY <1>2, <1>5, <3>2 DEF ListsOK
      <4>2. E[n] \in L /\ A[E[n]] = arrays[endpoints[n]]
        BY <1>5, <4>1
      <4>3. \A p \in PlacesOf(endpoints[n]) :
              NameOf(arrays[endpoints[n]][p]) = n /\ cleared[n] <= since[arrays[endpoints[n]][p]]
        BY <1>2, <4>1 DEF ListsOK
      <4> QED BY <4>1, <4>2, <4>3 DEF PlacesOf
    <3> QED BY <3>1, <3>2
  <2>4. \A a \in L : \A p \in 1..Len(A[a]) : E[NameOf(A[a][p])] # a => c[NameOf(A[a][p])] > since[A[a][p]]
    <3> SUFFICES ASSUME NEW a \in L, NEW p \in 1..Len(A[a]), NEW e, e = A[a][p], E[NameOf(e)] # a
                 PROVE  c[NameOf(e)] > since[e]
      OBVIOUS
    <3>1. a \in ListsOf /\ p \in PlacesOf(a) /\ e = arrays[a][p] /\ e \in EpsOf
      BY <1>2, <1>6 DEF ListsOK
    <3>2. CASE NameOf(e) \in names
      BY <1>5, <1>7, <3>1, <3>2
    <3>3. CASE NameOf(e) \notin names
      <4>1. E[NameOf(e)] = endpoints[NameOf(e)] /\ c[NameOf(e)] = cleared[NameOf(e)]
        BY <1>5, <1>7, <3>1, <3>3
      <4> QED BY <1>2, <3>1, <4>1 DEF ListsOK
    <3> QED BY <3>2, <3>3
  <2>5. ASSUME NEW e \in EpsOf, Undisturbed(e)'
        PROVE  E[NameOf(e)] # None /\ \E p \in 1..Len(A[E[NameOf(e)]]) : A[E[NameOf(e)]][p] = e
    <3>1. Undisturbed(e) /\ NameOf(e) \notin names
      BY <1>9, <2>5
    <3>2. E[NameOf(e)] = endpoints[NameOf(e)]
      BY <1>5, <1>7, <3>1
    <3>3. endpoints[NameOf(e)] # None /\ endpoints[NameOf(e)] \in ListsOf
          /\ \E p \in PlacesOf(endpoints[NameOf(e)]) : arrays[endpoints[NameOf(e)]][p] = e
      BY <1>2, <1>7, <3>1 DEF ListsOK
    <3>4. A[E[NameOf(e)]] = arrays[endpoints[NameOf(e)]]
      BY <1>5, <3>2, <3>3
    <3>5. PICK p \in 1..Len(arrays[endpoints[NameOf(e)]]) : arrays[endpoints[NameOf(e)]][p] = e
      BY <3>3 DEF PlacesOf
    <3> QED BY <3>2, <3>3, <3>4, <3>5
  <2>6. \A n \in Name : c[n] <= Len(fired)
    <3> SUFFICES ASSUME NEW n \in Name PROVE c[n] <= Len(fired)
      OBVIOUS
    <3>1. cleared[n] <= Len(fired) /\ Len(fired) \in Nat
      BY <1>2, TypesOf DEF ListsOK
    <3>2. c[n] = cleared[n] \/ c[n] = Len(fired)
      BY <1>5
    <3> QED BY <3>1, <3>2
  <2>9. /\ endpoints' = E /\ eps' = eps /\ fired' = fired /\ since' = since /\ cleared' = c /\ EpsOf' = EpsOf
        /\ ListsOf' = L /\ arrays' = A /\ \A b : PlacesOf(b)' = 1..Len(A[b])
    BY <1>a, <1>4 DEF PlacesOf
  <2>10. (\A b \in ListsOf : \A p \in PlacesOf(b) : arrays[b][p] \in EpsOf)'
    BY <2>1, <2>9
  <2>11. (\A a, b \in ListsOf : \A p \in PlacesOf(a), q \in PlacesOf(b) : arrays[a][p] = arrays[b][q] => a = b /\ p = q)'
    BY <2>2, <2>9
  <2>12. (\A n \in Name : endpoints[n] # None =>
            /\ endpoints[n] \in ListsOf
            /\ \A p \in PlacesOf(endpoints[n]) :
                 NameOf(arrays[endpoints[n]][p]) = n /\ cleared[n] <= since[arrays[endpoints[n]][p]])'
    BY <2>3, <2>9 DEF NameOf
  <2>13. (\A b \in ListsOf : \A p \in PlacesOf(b) :
            endpoints[NameOf(arrays[b][p])] # b => cleared[NameOf(arrays[b][p])] > since[arrays[b][p]])'
    BY <2>4, <2>9 DEF NameOf
  <2>14. (\A e \in EpsOf : Undisturbed(e) =>
            endpoints[NameOf(e)] # None /\ \E p \in PlacesOf(endpoints[NameOf(e)]) : arrays[endpoints[NameOf(e)]][p] = e)'
    BY <1>8, <2>5, <2>9
  <2>15. (\A m, n \in Name : endpoints[m] = endpoints[n] /\ endpoints[m] # None => m = n)'
         /\ (\A e \in EpsOf : since[e] < Len(fired))' /\ (\A n \in Name : cleared[n] <= Len(fired))'
    BY <1>5, <1>7, <2>6, <2>9
  <2> QED BY <2>10, <2>11, <2>12, <2>13, <2>14, <2>15 DEF ListsOK
<1>12. StackOK(s)'
  <2>1. ASSUME NEW f \in Frame, FrameOK(f) PROVE FrameOK(f)'
    <3>1. f.arr \in ListsOf /\ f.name \in Name /\ f.arr \in L /\ A[f.arr] = arrays[f.arr]
      BY <1>5, <2>1 DEF FrameOK, Frame
    <3>2. \A n \in Name : E[n] = f.arr => n = f.name
      <4>1. \A n \in Name : E[n] = f.arr => E[n] = endpoints[n]
        BY <1>5, <3>1
      <4> QED BY <2>1, <4>1 DEF FrameOK
    <3>3. f.at = "callback" => (E[f.name] # f.arr => c[f.name] > since[f.e])
      <4> SUFFICES ASSUME f.at = "callback", E[f.name] # f.arr PROVE c[f.name] > since[f.e]
        OBVIOUS
      <4>1. f.e \in EpsOf /\ (endpoints[f.name] # f.arr => cleared[f.name] > since[f.e])
        BY <2>1 DEF FrameOK
      <4>2. CASE f.name \in names
        BY <1>5, <1>7, <4>1, <4>2
      <4>3. CASE f.name \notin names
        BY <1>5, <3>1, <4>1, <4>3
      <4> QED BY <4>2, <4>3
    <3> QED BY <1>a, <1>4, <2>1, <3>1, <3>2, <3>3 DEF FrameOK, PlacesOf, NameOf
  <2>2. \A i \in 1..Len(s) : s[i] \in Frame
    BY <1>2
  <2> QED BY <1>2, <2>1, <2>2 DEF Holds, StackOK
<1>13. RunningOK(s)'
  BY <1>2, <1>4 DEF Holds, RunningOK, CallsOf
<1>14. \A i \in 1..Len(s) : s[i] \in Frame /\ s[i].arr \in ListsOf /\ (s[i].kind = "fire" => s[i].arg \in 1..Len(fired))
  BY <1>2 DEF Holds, StackOK, FrameOK
<1>15. SilentOK(s)'
  <2>1. SilentOK(s) /\ Len(fired) \in Nat
    BY <1>2, TypesOf DEF Holds
  <2>2. \A e : \A i \in 1..Len(s) : s[i] \in Given(e)' => s[i] \in Given(e)
    <3>1. ASSUME NEW e, NEW f, f.arr \in ListsOf, f \in Given(e)' PROVE f \in Given(e)
      <4>1. A[f.arr] = arrays[f.arr] /\ arrays' = A
        BY <1>a, <1>5, <3>1
      <4> QED BY <3>1, <4>1 DEF Given, PlacesOf
    <3> QED BY <1>14, <3>1
  <2>3. \A e : \A i \in 1..Len(s) : s[i] \in Given(e) => s[i].arg <= Len(fired) /\ s[i].arg \in Nat
    BY <1>14, <2>1 DEF Given
  <2> SUFFICES ASSUME NEW e \in EpsOf, c[NameOf(e)] > since[e]
               PROVE  /\ \A i \in 1..Len(seen[e]) : seen[e][i] <= c[NameOf(e)]
                      /\ \A i \in 1..Len(eps[e].pending) : eps[e].pending[i] <= c[NameOf(e)]
                      /\ \A i \in 1..Len(s) : s[i] \in Given(e) => s[i].arg <= c[NameOf(e)]
    BY <1>a, <1>4, <1>8, <2>1, <2>2 DEF SilentOK
  <2>4. CASE NameOf(e) \in names
    <3>1. c[NameOf(e)] = Len(fired)
      BY <1>5, <2>4
    <3> QED BY <2>1, <2>3, <3>1 DEF SilentOK
  <2>5. CASE NameOf(e) \notin names
    <3>1. c[NameOf(e)] = cleared[NameOf(e)]
      BY <1>5, <1>7, <2>5
    <3> QED BY <2>1, <3>1 DEF SilentOK
  <2> QED BY <2>4, <2>5
<1>16. CountsOK(s)'
  <2> SUFFICES ASSUME NEW e \in EpsOf, Undisturbed(e)'
               PROVE  Len(seen[e]) + Len(eps[e].pending) + Count(s, Coming(e)') = Cardinality(Meant(e)')
    BY <1>4 DEF CountsOK
  <2>1. Undisturbed(e) /\ E[NameOf(e)] = endpoints[NameOf(e)] /\ endpoints[NameOf(e)] \in ListsOf
    BY <1>2, <1>5, <1>7, <1>9 DEF ListsOK
  <2>2. Coming(e)' = Coming(e)
    <3>1. \A f \in Frame : f \in Coming(e) <=> f \in Coming(e)'
      BY <1>a, <1>5, <1>8, <2>1 DEF Coming, PlacesOf
    <3>2. (\A f \in Coming(e) : f \in Frame) /\ (\A f \in Coming(e)' : f \in Frame)
      BY DEF Coming
    <3> QED BY <3>1, <3>2
  <2> QED BY <1>2, <1>8, <2>1, <2>2 DEF Holds, CountsOK
<1>17. FirstOK(s)'
  <2>1. FirstOK(s) /\ \A n : ~AboutTo(s, n) /\ ~AboutTo(s, n)'
    BY <1>2, <1>3, BusyIs DEF Holds, Busy, AboutTo
  <2> SUFFICES ASSUME NEW n \in Name, n \notin removed, E[n] # None, Len(A[E[n]]) >= 1,
                      NEW e, e = A[E[n]][1]
               PROVE  Ascending(Known(e))' /\ Range(Known(e))' = Meant(e)'
    BY <1>a, <1>4, <2>1 DEF FirstOK
  <2>2. E[n] \in L /\ 1 \in 1..Len(A[E[n]])
    <3>1. E[n] \in L
      BY <1>2, <1>5 DEF ListsOK
    <3>2. Len(A[E[n]]) \in Nat
      BY <1>5, <3>1, LenProperties
    <3> QED BY <3>1, <3>2
  <2>3. E[n] \in ListsOf /\ A[E[n]] = arrays[E[n]]
    BY <1>6, <2>2
  <2>4. E[n] = endpoints[n]
    BY <1>5, <2>3
  <2>5. Ascending(Known(e)) /\ Range(Known(e)) = Meant(e)
    BY <2>1, <2>3, <2>4 DEF FirstOK
  <2> QED BY <1>8, <2>5 DEF Ascending, Range
<1>18. Holds(s)'
  BY <1>12, <1>13, <1>15, <1>16, <1>17 DEF Holds
<1>19. Holds(stack)'
  BY <1>2, <1>18, HoldsAs
<1> QED BY <1>10, <1>11, <1>19 DEF IInv

-----------------------------------------------------------------------------
(***************************************************************************)
(* Adding an observer.                                                      *)
(***************************************************************************)

\* What the endpoint e that is added changes: it is behind the l others of the array a of its name
Adds(name, e, a, l, F) ==
    /\ name \in Name /\ F \in Seq(Name) /\ F = fired /\ e \in Nat
    /\ EpsOf' = EpsOf \cup {e} /\ e \notin EpsOf
    /\ eps'[e].name = name /\ ~eps'[e].active /\ eps'[e].pending = <<>> /\ seen'[e] = <<>> /\ since'[e] = Len(F)
    /\ \A x \in EpsOf : eps'[x] = eps[x] /\ seen'[x] = seen[x] /\ since'[x] = since[x]
    /\ endpoints'[name] = a /\ a # None
    /\ \A n \in Name : n # name => endpoints'[n] = endpoints[n] /\ endpoints[n] # a
    /\ endpoints[name] = IF a \in ListsOf THEN a ELSE None
    /\ ListsOf' = ListsOf \cup {a} /\ l \in Nat /\ (a \in ListsOf => l = Len(arrays[a]))
    /\ \A b \in ListsOf' : \A p \in 1..Len(arrays'[b]) :
         \/ b = a /\ p = l + 1 /\ arrays'[b][p] = e
         \/ b \in ListsOf /\ p \in PlacesOf(b) /\ arrays'[b][p] = arrays[b][p]
    /\ \A b \in ListsOf : /\ Len(arrays[b]) <= Len(arrays'[b]) /\ PlacesOf(b) \subseteq 1..Len(arrays'[b])
                          /\ \A p \in PlacesOf(b) : arrays'[b][p] = arrays[b][p]
    /\ l + 1 \in 1..Len(arrays'[a]) /\ arrays'[a][l + 1] = e
    /\ UNCHANGED <<cleared, removed>>

\* The arrays P of the names and the lists A when an array is made or extended for one more endpoint
Extends(P, A, name, e) == P = Extended(name, <<e>>).points /\ A = Extended(name, <<e>>).lists

\* How many endpoints an array has before that
Others(a) == IF a \in ListsOf THEN Len(arrays[a]) ELSE 0

\* The array that the name has is one more or has one element more.
LEMMA ExtendedIs ==
    ASSUME TypeOK, ListsOK, NEW name \in Name, NEW e \in Nat, NEW P, NEW A, Extends(P, A, name, e)
    PROVE  /\ P \in [Name -> Nat] /\ A \in Seq(Seq(Nat)) /\ P[name] # None
           /\ \A n \in Name : n # name => P[n] = endpoints[n] /\ endpoints[n] # P[name]
           /\ endpoints[name] = IF P[name] \in ListsOf THEN P[name] ELSE None
           /\ 1..Len(A) = ListsOf \cup {P[name]} /\ Others(P[name]) \in Nat
           /\ \A b \in ListsOf : b # P[name] => A[b] = arrays[b]
           /\ Len(A[P[name]]) = Others(P[name]) + 1 /\ A[P[name]][Others(P[name]) + 1] = e
           /\ \A p \in 1..Others(P[name]) : A[P[name]][p] = arrays[P[name]][p]
<1> DEFINE k == Len(arrays)
           m == endpoints[name]
           q == <<e>>
           l == Others(P[name])
<1>1. /\ endpoints \in [Name -> Nat] /\ arrays \in Seq(Seq(Nat)) /\ k \in Nat /\ ListsOf = 1..k /\ m \in Nat
      /\ \A n \in Name : endpoints[n] # None => endpoints[n] \in 1..k
      /\ \A n \in Name : endpoints[n] = m /\ m # None => n = name
  <2>1. endpoints \in [Name -> Nat] /\ arrays \in Seq(Seq(Nat)) /\ k \in Nat /\ ListsOf = 1..k /\ m \in Nat
    BY TypesOf DEF TypeOK, ListsOf
  <2> QED BY <2>1 DEF ListsOK
<1>2. q \in Seq(Nat) /\ Len(q) = 1 /\ q[1] = e
  BY LenProperties
<1>3. CASE m = None
  <2>2. P = [endpoints EXCEPT ![name] = k + 1] /\ A = Append(arrays, q)
    BY <1>3 DEF Extends, Extended
  <2> HIDE DEF q, k
  <2>3. P \in [Name -> Nat] /\ P[name] = k + 1 /\ (\A n \in Name : n # name => P[n] = endpoints[n])
    BY <1>1, <2>2
  <2>4. A \in Seq(Seq(Nat)) /\ Len(A) = k + 1 /\ A[k + 1] = q /\ \A b \in 1..k : A[b] = arrays[b]
    BY <1>1, <1>2, <2>2, AppendProperties DEF k
  <2>5. P[name] \notin ListsOf /\ l = 0 /\ P[name] # None /\ 1..k + 1 = ListsOf \cup {P[name]}
    BY <1>1, <2>3 DEF None, Others
  <2> HIDE DEF l
  <2>6. \A n \in Name : endpoints[n] # P[name]
    BY <1>1, <2>5, <2>3 DEF None
  <2>7. Len(A[P[name]]) = l + 1 /\ A[P[name]][l + 1] = e
    BY <1>2, <2>3, <2>4, <2>5
  <2>8. \A b \in ListsOf : A[b] = arrays[b]
    BY <1>1, <2>4
  <2> QED BY <1>3, <2>3, <2>4, <2>5, <2>6, <2>7, <2>8 DEF m, l
<1>4. CASE m # None
  <2> DEFINE o == arrays[m]
             r == o \o q
  <2>1. P = endpoints /\ A = [arrays EXCEPT ![m] = r]
    BY <1>4 DEF Extends, Extended
  <2> HIDE DEF q
  <2>2. m \in 1..k /\ o \in Seq(Nat) /\ Len(o) \in Nat
    BY <1>1, <1>4, LenProperties
  <2>3. P[name] = m
    BY <2>1
  <2> HIDE DEF m, o
  <2>4. r \in Seq(Nat) /\ Len(r) = Len(o) + 1 /\ r[Len(o) + 1] = e /\ \A p \in 1..Len(o) : r[p] = o[p]
    <3>1. r \in Seq(Nat) /\ Len(r) = Len(o) + Len(q) /\ \A p \in 1..Len(o) + Len(q) : r[p] = IF p <= Len(o) THEN o[p] ELSE q[p - Len(o)]
      BY <1>2, <2>2, ConcatProperties
    <3>2. Len(o) + 1 \in 1..Len(o) + Len(q) /\ ~(Len(o) + 1 <= Len(o)) /\ (Len(o) + 1) - Len(o) = 1
      BY <1>2, <2>2
    <3>3. \A p \in 1..Len(o) : p \in 1..Len(o) + Len(q) /\ p <= Len(o)
      BY <1>2, <2>2
    <3> QED BY <1>2, <3>1, <3>2, <3>3
  <2> HIDE DEF r
  <2>5. /\ A \in Seq(Seq(Nat)) /\ Len(A) = k /\ A[m] = r
        /\ \A b \in 1..k : b # m => A[b] = arrays[b]
    <3>1. [arrays EXCEPT ![m] = r] \in Seq(Seq(Nat)) /\ Len([arrays EXCEPT ![m] = r]) = Len(arrays)
          /\ \A j \in 1..Len(arrays) : [arrays EXCEPT ![m] = r][j] = IF j = m THEN r ELSE arrays[j]
      BY <1>1, <2>2, <2>4, ExceptSeq
    <3> QED BY <2>1, <2>2, <3>1
  <2>6. P[name] \in ListsOf /\ l = Len(o) /\ 1..k = ListsOf \cup {P[name]} /\ P[name] # None
    BY <1>1, <1>4, <2>2, <2>3 DEF o, Others
  <2>7. \A n \in Name : n # name => endpoints[n] # P[name]
    BY <1>1, <1>4, <2>3
  <2> HIDE DEF l
  <2>8. \A p \in 1..l : A[P[name]][p] = arrays[P[name]][p]
    <3>1. A[P[name]] = r /\ arrays[P[name]] = o
      BY <2>3, <2>5 DEF o
    <3> QED BY <2>4, <2>6, <3>1
  <2>9. Len(A[P[name]]) = l + 1 /\ A[P[name]][l + 1] = e
    BY <2>3, <2>4, <2>5, <2>6
  <2>10. endpoints[name] = P[name]
    BY <2>1
  <2>11. \A b \in ListsOf : b # P[name] => A[b] = arrays[b]
    BY <1>1, <2>3, <2>5
  <2>12. l \in Nat
    BY <2>2, <2>6
  <2> QED BY <1>1, <2>1, <2>5, <2>6, <2>7, <2>8, <2>9, <2>10, <2>11, <2>12 DEF l
<1> QED BY <1>3, <1>4

\* What adding an observer that is not there yet does.
LEMMA AddsIs ==
    ASSUME TypeOK, ListsOK, NEW name \in Name, NEW callback \in Callback, addOneObserver(name, callback),
           ~\E x \in Observers(name) : Same(x, callback)
    PROVE  /\ \E e, a, l : Adds(name, e, a, l, fired)
           /\ TypeOK' /\ fired' = Append(fired, "on")
           /\ stack' = IF endpoints'["on"] = None THEN stack
                       ELSE push(stack, Loop("fire", "on", Len(fired) + 1, Every, endpoints', arrays'))
<1>a. SUFFICES ASSUME NEW P, P = endpoints', NEW A, A = arrays', NEW e, e = Len(eps) + 1, NEW F, F = fired,
                      NEW on, on = "on", NEW u, u = Endpoint(name, callback)
               PROVE  /\ \E x, a, l : Adds(name, x, a, l, F)
                      /\ TypeOK' /\ fired' = Append(F, on)
                      /\ stack' = IF P[on] = None THEN stack ELSE push(stack, Loop("fire", on, Len(F) + 1, Every, P, A))
  OBVIOUS
<1>1. /\ Extends(P, A, name, e) /\ eps' = Append(eps, u) /\ seen' = Append(seen, <<>>) /\ since' = Append(since, Len(F))
      /\ UNCHANGED <<cleared, removed>> /\ fired' = Append(F, on)
      /\ stack' = IF P[on] = None THEN stack ELSE push(stack, Loop("fire", on, Len(F) + 1, Every, P, A))
  BY <1>a DEF addOneObserver, Extends, fireThis
<1> HIDE DEF addOneObserver
<1>2. e \in Nat /\ Len(eps) \in Nat /\ e = Len(eps) + 1 /\ EpsOf = 1..Len(eps) /\ F \in Seq(Name) /\ Len(F) \in Nat /\ on \in Name /\ F = fired
  BY <1>a, TypesOf, EventNames DEF EpsOf, TypeOK
<1>b. Extends(P, A, name, e) /\ e \in Nat /\ TypeOK /\ ListsOK
  BY <1>1, <1>2
<1> DEFINE a == P[name]
           l == Others(a)
<1>3. /\ P \in [Name -> Nat] /\ A \in Seq(Seq(Nat)) /\ a # None
      /\ \A n \in Name : n # name => P[n] = endpoints[n] /\ endpoints[n] # a
      /\ endpoints[name] = IF a \in ListsOf THEN a ELSE None
      /\ 1..Len(A) = ListsOf \cup {a} /\ l \in Nat
      /\ \A b \in ListsOf : b # a => A[b] = arrays[b]
      /\ Len(A[a]) = l + 1 /\ A[a][l + 1] = e
      /\ \A p \in 1..l : A[a][p] = arrays[a][p]
  BY <1>b, ExtendedIs
<1>4. a \in ListsOf => l = Len(arrays[a])
  BY DEF Others
<1>0. a \notin ListsOf => l = 0
  BY DEF Others
<1> HIDE DEF a, l
<1>5. /\ u \in EndpointSet /\ u.name = name /\ ~u.active /\ u.pending = <<>>
  BY <1>a DEF Endpoint, EndpointSet
<1>6. /\ eps \in Seq(EndpointSet) /\ seen \in Seq(Seq(Nat)) /\ since \in Seq(Nat) /\ Len(seen) = Len(eps) /\ Len(since) = Len(eps)
  BY DEF TypeOK, EndpointSet
<1>7. /\ eps' \in Seq(EndpointSet) /\ Len(eps') = e /\ eps'[e] = u /\ \A x \in EpsOf : eps'[x] = eps[x]
  BY <1>1, <1>2, <1>5, <1>6, AppendProperties
<1>8. /\ seen' \in Seq(Seq(Nat)) /\ Len(seen') = e /\ seen'[e] = <<>> /\ \A x \in EpsOf : seen'[x] = seen[x]
  <2> DEFINE w == <<>>
  <2>1. w \in Seq(Nat) /\ seen' = Append(seen, w)
    BY <1>1
  <2> HIDE DEF w
  <2>2. seen' \in Seq(Seq(Nat)) /\ Len(seen') = e /\ seen'[e] = w /\ \A x \in EpsOf : seen'[x] = seen[x]
    BY <1>2, <1>6, <2>1, AppendProperties
  <2> QED BY <2>2 DEF w
<1>9. /\ since' \in Seq(Nat) /\ Len(since') = e /\ since'[e] = Len(F) /\ \A x \in EpsOf : since'[x] = since[x]
  BY <1>1, <1>2, <1>6, AppendProperties
<1>10. fired' \in Seq(Name)
  BY <1>1, <1>2, AppendProperties
<1>11. stack' \in Seq(Frame)
  <2>1. stack \in Seq(Frame)
    BY TypesOf
  <2>2. CASE P[on] = None
    BY <1>1, <2>1, <2>2
  <2>3. CASE P[on] # None
    <3>1. P[on] \in 1..Len(A)
      <4>1. on = name \/ P[on] = endpoints[on]
        BY <1>2, <1>3
      <4>2. P[on] = a \/ P[on] \in ListsOf
        BY <1>2, <2>3, <4>1 DEF ListsOK, a
      <4> QED BY <1>3, <4>2
    <3>2. P[on] \in Nat /\ Len(A[P[on]]) \in Nat /\ Len(F) + 1 \in Nat
      BY <1>2, <1>3, <3>1, LenProperties
    <3>3. Loop("fire", on, Len(F) + 1, Every, P, A) \in Frame
      BY <1>2, <3>2, LoopType
    <3> QED BY <1>1, <2>1, <2>3, <3>3, PushIs
  <2> QED BY <2>2, <2>3
<1>12. TypeOK'
  <2>1. endpoints' = P /\ arrays' = A /\ cleared' = cleared /\ removed' = removed
    BY <1>a, <1>1
  <2>2. cleared \in [Name -> Nat] /\ removed \subseteq Name
    BY DEF TypeOK
  <2> QED BY <1>3, <1>7, <1>8, <1>9, <1>10, <1>11, <2>1, <2>2 DEF TypeOK, EndpointSet, Frame
<1>13. EpsOf' = EpsOf \cup {e} /\ e \notin EpsOf
  BY <1>2, <1>7 DEF EpsOf
<1>14. ListsOf' = 1..Len(A) /\ \A b \in ListsOf : PlacesOf(b) = 1..Len(arrays[b]) /\ Len(arrays[b]) \in Nat
  BY <1>a, TypesOf DEF ListsOf, PlacesOf
<1>15. ASSUME NEW b \in ListsOf', NEW p \in 1..Len(A[b])
       PROVE  (b = a /\ p = l + 1 /\ A[b][p] = e) \/ (b \in ListsOf /\ p \in PlacesOf(b) /\ A[b][p] = arrays[b][p])
  <2>1. CASE b # a
    BY <1>3, <1>14, <2>1
  <2>2. CASE b = a
    <3>1. p = l + 1 \/ p \in 1..l
      BY <1>3, <2>2
    <3>2. p \in 1..l => a \in ListsOf
      BY <1>0
    <3> QED BY <1>3, <1>4, <1>14, <2>2, <3>1, <3>2
  <2> QED BY <2>1, <2>2
<1>16. ASSUME NEW b \in ListsOf
       PROVE  /\ Len(arrays[b]) <= Len(A[b]) /\ PlacesOf(b) \subseteq 1..Len(A[b])
              /\ \A p \in PlacesOf(b) : A[b][p] = arrays[b][p]
  <2>1. CASE b # a
    <3>1. A[b] = arrays[b] /\ Len(arrays[b]) \in Nat
      BY <1>3, <1>14, <2>1
    <3> QED BY <1>14, <3>1
  <2>2. CASE b = a
    <3>1. l = Len(arrays[b]) /\ Len(A[b]) = l + 1 /\ l \in Nat /\ PlacesOf(b) = 1..l
      BY <1>3, <1>4, <1>14, <2>2
    <3>2. l <= Len(A[b]) /\ 1..l \subseteq 1..Len(A[b])
      BY <3>1
    <3>3. \A p \in PlacesOf(b) : A[b][p] = arrays[b][p]
      BY <1>3, <2>2, <3>1
    <3> QED BY <3>1, <3>2, <3>3
  <2> QED BY <2>1, <2>2
<1>17. Adds(name, e, a, l, F)
  <2>1. eps'[e].name = name /\ ~eps'[e].active /\ eps'[e].pending = <<>>
    BY <1>5, <1>7
  <2>2. endpoints' = P /\ arrays' = A /\ ListsOf' = ListsOf \cup {a} /\ endpoints'[name] = a
    BY <1>a, <1>3, <1>14 DEF a
  <2>3. l + 1 \in 1..Len(A[a])
    BY <1>3
  <2>4. \A n \in Name : n # name => endpoints'[n] = endpoints[n] /\ endpoints[n] # a
    BY <1>3, <2>2
  <2>5. \A b \in ListsOf' : \A p \in 1..Len(arrays'[b]) :
         \/ b = a /\ p = l + 1 /\ arrays'[b][p] = e
         \/ b \in ListsOf /\ p \in PlacesOf(b) /\ arrays'[b][p] = arrays[b][p]
    BY <1>15, <2>2
  <2>6. \A b \in ListsOf : /\ Len(arrays[b]) <= Len(arrays'[b]) /\ PlacesOf(b) \subseteq 1..Len(arrays'[b])
                           /\ \A p \in PlacesOf(b) : arrays'[b][p] = arrays[b][p]
    BY <1>16, <2>2
  <2>7. l + 1 \in 1..Len(arrays'[a]) /\ arrays'[a][l + 1] = e
    BY <1>3, <2>2, <2>3
  <2>8. \A x \in EpsOf : eps'[x] = eps[x] /\ seen'[x] = seen[x] /\ since'[x] = since[x]
    BY <1>7, <1>8, <1>9
  <2>9. UNCHANGED <<cleared, removed>>
    BY <1>1
  <2>10. a # None /\ endpoints[name] = (IF a \in ListsOf THEN a ELSE None) /\ l \in Nat
    BY <1>3
  <2> QED BY <1>2, <1>4, <1>8, <1>9, <1>13, <2>1, <2>2, <2>4, <2>5, <2>6, <2>7, <2>8, <2>9, <2>10 DEF Adds
<1> QED BY <1>1, <1>12, <1>17

\* What was there before goes on as it was: which array is that of a name, which endpoints
\* are in it, and what is meant for them.
LEMMA AddsLeaves ==
    ASSUME TypeOK, ListsOK, NEW name, NEW e, NEW a, NEW l, NEW F, Adds(name, e, a, l, F)
    PROVE  /\ \A x : NameOf(x)' = eps'[x].name
           /\ \A x \in EpsOf : /\ NameOf(x)' = NameOf(x) /\ NameOf(x) \in Name /\ Known(x)' = Known(x)
                               /\ (Undisturbed(x)' <=> Undisturbed(x)) /\ MeantBy(x, F)' = Meant(x)
           /\ NameOf(e)' = name /\ Known(e)' = <<>> /\ MeantBy(e, F)' = {} /\ cleared'[name] <= since'[e] /\ since'[e] = Len(F)
           /\ \A n \in Name, b \in ListsOf : endpoints'[n] = b <=> endpoints[n] = b
           /\ \A n \in Name : endpoints[n] # None => endpoints'[n] = endpoints[n] /\ endpoints[n] \in ListsOf
           /\ \A n \in Name : endpoints'[n] = a => n = name
           /\ Len(F) \in Nat /\ F = fired
<1>1. F \in Seq(Name) /\ Len(F) \in Nat /\ F = fired /\ name \in Name
  BY LenProperties DEF Adds
<1>2. /\ eps'[e].name = name /\ eps'[e].pending = <<>> /\ seen'[e] = <<>> /\ since'[e] = Len(F)
      /\ \A x \in EpsOf : eps'[x] = eps[x] /\ seen'[x] = seen[x] /\ since'[x] = since[x]
      /\ cleared' = cleared /\ removed' = removed
  BY DEF Adds
<1>3. /\ endpoints'[name] = a /\ a # None
      /\ \A n \in Name : n # name => endpoints'[n] = endpoints[n] /\ endpoints[n] # a
      /\ endpoints[name] = IF a \in ListsOf THEN a ELSE None
  BY DEF Adds
<1>4. \A n \in Name : endpoints[n] # None => endpoints[n] \in ListsOf
  BY DEF ListsOK
<1>5. None \notin ListsOf
  BY DEF ListsOf, None
<1>6. \A x \in EpsOf : NameOf(x)' = NameOf(x) /\ NameOf(x) \in Name
  BY <1>2, TypesOf DEF NameOf
<1>7. ASSUME NEW x \in EpsOf
      PROVE  Known(x)' = Known(x) /\ (Undisturbed(x)' <=> Undisturbed(x)) /\ MeantBy(x, F)' = Meant(x)
  <2>1. eps'[x] = eps[x] /\ seen'[x] = seen[x] /\ since'[x] = since[x] /\ cleared' = cleared /\ removed' = removed
    BY <1>2
  <2> QED BY <1>1, <2>1 DEF Known, Undisturbed, MeantBy, Meant, NameOf
<1>8. Known(e)' = <<>>
  <2>1. seen'[e] \o eps'[e].pending = <<>> \o <<>>
    BY <1>2
  <2>2. <<>> \o <<>> = <<>>
    OBVIOUS
  <2> QED BY <2>1, <2>2 DEF Known
<1>9. MeantBy(e, F)' = {}
  <2>1. since'[e] + 1..Len(F) = {}
    BY <1>1, <1>2
  <2> QED BY <2>1 DEF MeantBy
<1>10. cleared'[name] <= since'[e]
  BY <1>1, <1>2 DEF ListsOK
<1>11. \A x : NameOf(x)' = eps'[x].name
  BY DEF NameOf
<1>12. \A n \in Name, b \in ListsOf : endpoints'[n] = b <=> endpoints[n] = b
  BY <1>3, <1>5
<1>13. \A n \in Name : endpoints[n] # None => endpoints'[n] = endpoints[n]
  BY <1>3
<1>14. \A n \in Name : endpoints'[n] = a => n = name
  BY <1>3
<1> QED BY <1>1, <1>2, <1>4, <1>6, <1>7, <1>8, <1>9, <1>10, <1>11, <1>12, <1>13, <1>14

\* The new observer is in the array of its name and nowhere else.
LEMMA AddsLists ==
    ASSUME TypeOK, ListsOK, NEW name, NEW e, NEW a, NEW l, NEW F, Adds(name, e, a, l, F), Len(fired') = Len(F) + 1
    PROVE  ListsOK'
<1>a. SUFFICES ASSUME NEW E, E = endpoints', NEW A, A = arrays', NEW L, L = ListsOf', NEW u, u = eps', NEW c, c = cleared,
                      NEW w, w = since'
               PROVE  ListsOK'
  OBVIOUS
<1>1. /\ EpsOf' = EpsOf \cup {e} /\ e \notin EpsOf /\ cleared' = c /\ name \in Name
      /\ E[name] = a /\ a # None /\ L = ListsOf \cup {a}
      /\ \A n \in Name : n # name => E[n] = endpoints[n] /\ endpoints[n] # a
      /\ \A b \in L : \A p \in 1..Len(A[b]) :
         (b = a /\ p = l + 1 /\ A[b][p] = e) \/ (b \in ListsOf /\ p \in PlacesOf(b) /\ A[b][p] = arrays[b][p])
      /\ \A b \in ListsOf : PlacesOf(b) \subseteq 1..Len(A[b]) /\ \A p \in PlacesOf(b) : A[b][p] = arrays[b][p]
      /\ l + 1 \in 1..Len(A[a]) /\ A[a][l + 1] = e
      /\ \A x \in EpsOf : w[x] = since[x]
  BY <1>a DEF Adds
<1>2. /\ \A x \in EpsOf : u[x].name = NameOf(x) /\ NameOf(x) \in Name /\ (Undisturbed(x)' <=> Undisturbed(x))
      /\ u[e].name = name /\ c[name] <= w[e] /\ w[e] = Len(F)
      /\ \A n \in Name, b \in ListsOf : E[n] = b <=> endpoints[n] = b
      /\ \A n \in Name : endpoints[n] # None => E[n] = endpoints[n] /\ endpoints[n] \in ListsOf
      /\ \A n \in Name : E[n] = a => n = name
      /\ Len(F) \in Nat /\ F = fired
  <2>1. \A x : NameOf(x)' = u[x].name
    BY <1>a, AddsLeaves
  <2> QED BY <1>a, <1>1, <2>1, AddsLeaves
<1> HIDE DEF Adds
<1>3. \A b \in ListsOf : \A p \in PlacesOf(b) : arrays[b][p] \in EpsOf
  BY DEF ListsOK
<1>4. \A b \in L : \A p \in 1..Len(A[b]) : A[b][p] \in EpsOf \cup {e}
  BY <1>1, <1>3
<1>0. ASSUME NEW b \in L, NEW p \in 1..Len(A[b]), A[b][p] = e PROVE b = a /\ p = l + 1
  <2>1. (b = a /\ p = l + 1 /\ A[b][p] = e) \/ (b \in ListsOf /\ p \in PlacesOf(b) /\ A[b][p] = arrays[b][p])
    BY <1>1
  <2>2. ~(b \in ListsOf /\ p \in PlacesOf(b) /\ A[b][p] = arrays[b][p])
    BY <1>0, <1>1, <1>3
  <2> QED BY <2>1, <2>2
<1>5. ASSUME NEW b \in L, NEW d \in L, NEW p \in 1..Len(A[b]), NEW q \in 1..Len(A[d]), A[b][p] = A[d][q]
      PROVE  b = d /\ p = q
  <2>1. CASE A[b][p] = e
    <3>1. b = a /\ p = l + 1
      BY <1>0, <2>1
    <3>2. d = a /\ q = l + 1
      BY <1>0, <1>5, <2>1
    <3> QED BY <3>1, <3>2
  <2>2. CASE A[b][p] # e
    <3>1. b \in ListsOf /\ d \in ListsOf /\ p \in PlacesOf(b) /\ q \in PlacesOf(d) /\ arrays[b][p] = arrays[d][q]
      BY <1>1, <1>5, <2>2
    <3> QED BY <3>1 DEF ListsOK
  <2> QED BY <2>1, <2>2
<1>6. ASSUME NEW n \in Name, E[n] # None
      PROVE  E[n] \in L /\ \A p \in 1..Len(A[E[n]]) : u[A[E[n]][p]].name = n /\ c[n] <= w[A[E[n]][p]]
  <2>1. E[n] \in L
    BY <1>1, <1>2, <1>6
  <2> SUFFICES ASSUME NEW p \in 1..Len(A[E[n]]), NEW x, x = A[E[n]][p] PROVE u[x].name = n /\ c[n] <= w[x]
    BY <2>1
  <2>2. CASE x = e
    <3>1. E[n] = a
      BY <1>0, <2>1, <2>2
    <3> QED BY <1>2, <2>2, <3>1
  <2>3. CASE x # e
    <3>1. E[n] \in ListsOf /\ p \in PlacesOf(E[n]) /\ x = arrays[E[n]][p]
      BY <1>1, <2>1, <2>3
    <3>2. E[n] = endpoints[n] /\ x \in EpsOf
      BY <1>2, <1>3, <3>1
    <3>3. NameOf(x) = n /\ cleared[n] <= since[x]
      BY <1>6, <3>1, <3>2 DEF ListsOK
    <3> QED BY <1>a, <1>1, <1>2, <3>2, <3>3
  <2> QED BY <2>2, <2>3
<1>7. \A m, n \in Name : E[m] = E[n] /\ E[m] # None => m = n
  <2> SUFFICES ASSUME NEW m \in Name, NEW n \in Name, E[m] = E[n], E[m] # None PROVE m = n
    OBVIOUS
  <2>1. CASE m = name \/ n = name
    BY <1>1, <1>2, <2>1
  <2>2. CASE m # name /\ n # name
    BY <1>1, <2>2 DEF ListsOK
  <2> QED BY <2>1, <2>2
<1>8. ASSUME NEW b \in L, NEW p \in 1..Len(A[b]), NEW x, x = A[b][p], E[u[x].name] # b
      PROVE  c[u[x].name] > w[x]
  <2>1. x # e
    <3> SUFFICES ASSUME x = e PROVE FALSE
      OBVIOUS
    <3>1. b = a
      BY <1>0, <1>8
    <3>2. E[u[e].name] = a
      BY <1>1, <1>2
    <3> QED BY <1>8, <3>1, <3>2
  <2>2. b \in ListsOf /\ p \in PlacesOf(b) /\ x = arrays[b][p] /\ x \in EpsOf
    BY <1>1, <1>3, <1>8, <2>1
  <2>3. endpoints[NameOf(x)] # b
    BY <1>2, <1>8, <2>2
  <2>4. cleared[NameOf(x)] > since[x]
    BY <2>2, <2>3 DEF ListsOK
  <2> QED BY <1>a, <1>1, <1>2, <2>2, <2>4
<1>9. ASSUME NEW x \in EpsOf \cup {e}, Undisturbed(x)'
      PROVE  E[u[x].name] # None /\ \E p \in 1..Len(A[E[u[x].name]]) : A[E[u[x].name]][p] = x
  <2>1. CASE x = e
    BY <1>1, <1>2, <2>1
  <2>2. CASE x \in EpsOf
    <3>1. endpoints[NameOf(x)] # None /\ \E p \in PlacesOf(endpoints[NameOf(x)]) : arrays[endpoints[NameOf(x)]][p] = x
      BY <1>2, <1>9, <2>2 DEF ListsOK
    <3>2. E[NameOf(x)] = endpoints[NameOf(x)] /\ endpoints[NameOf(x)] \in ListsOf /\ u[x].name = NameOf(x)
      BY <1>2, <2>2, <3>1
    <3> QED BY <1>1, <3>1, <3>2
  <2> QED BY <2>1, <2>2
<1>10. \A x \in EpsOf \cup {e} : w[x] < Len(F) + 1
  <2>1. \A x \in EpsOf : since[x] < Len(F) /\ since[x] \in Nat
    BY <1>2, TypesOf DEF ListsOK
  <2> QED BY <1>1, <1>2, <2>1
<1>11. \A n \in Name : c[n] <= Len(F) + 1
  <2>1. \A n \in Name : cleared[n] <= Len(F) /\ cleared[n] \in Nat
    BY <1>2, TypesOf DEF ListsOK
  <2> QED BY <1>a, <1>2, <2>1
<1>12. /\ endpoints' = E /\ eps' = u /\ Len(fired') = Len(F) + 1 /\ since' = w /\ cleared' = c /\ EpsOf' = EpsOf \cup {e}
       /\ ListsOf' = L /\ arrays' = A /\ (\A b : PlacesOf(b)' = 1..Len(A[b])) /\ \A x : NameOf(x)' = u[x].name
  BY <1>a, <1>1 DEF PlacesOf, NameOf
<1>13. (\A b \in ListsOf : \A p \in PlacesOf(b) : arrays[b][p] \in EpsOf)'
  BY <1>4, <1>12
<1>14. (\A b, d \in ListsOf : \A p \in PlacesOf(b), q \in PlacesOf(d) : arrays[b][p] = arrays[d][q] => b = d /\ p = q)'
  BY <1>5, <1>12
<1>15. (\A n \in Name : endpoints[n] # None =>
          /\ endpoints[n] \in ListsOf
          /\ \A p \in PlacesOf(endpoints[n]) :
               NameOf(arrays[endpoints[n]][p]) = n /\ cleared[n] <= since[arrays[endpoints[n]][p]])'
  BY <1>6, <1>12 DEF NameOf
<1>16. (\A b \in ListsOf : \A p \in PlacesOf(b) :
          endpoints[NameOf(arrays[b][p])] # b => cleared[NameOf(arrays[b][p])] > since[arrays[b][p]])'
  BY <1>8, <1>12 DEF NameOf
<1>17. (\A x \in EpsOf : Undisturbed(x) =>
          endpoints[NameOf(x)] # None /\ \E p \in PlacesOf(endpoints[NameOf(x)]) : arrays[endpoints[NameOf(x)]][p] = x)'
  BY <1>9, <1>12
<1>18. (\A m, n \in Name : endpoints[m] = endpoints[n] /\ endpoints[m] # None => m = n)'
       /\ (\A x \in EpsOf : since[x] < Len(fired))' /\ (\A n \in Name : cleared[n] <= Len(fired))'
  BY <1>7, <1>10, <1>11, <1>12
<1> QED BY <1>13, <1>14, <1>15, <1>16, <1>17, <1>18 DEF ListsOK

\* The arrays of the calls have the observers that they had, or the new one behind them.
LEMMA AddsFrames ==
    ASSUME TypeOK, ListsOK, NEW name, NEW e, NEW a, NEW l, NEW F, Adds(name, e, a, l, F), NEW f, FrameOK(f), f \in Frame
    PROVE  /\ f.arr \in ListsOf /\ f.arr \in ListsOf'
           /\ \A n \in Name : endpoints'[n] = f.arr <=> endpoints[n] = f.arr
           /\ \A p \in 1..Len(arrays'[f.arr]) :
                \/ p \in PlacesOf(f.arr) /\ arrays'[f.arr][p] = arrays[f.arr][p] /\ arrays'[f.arr][p] \in EpsOf
                \/ f.name = name /\ f.arr = a /\ p = l + 1 /\ p > Len(arrays[a]) /\ arrays'[f.arr][p] = e
           /\ \A p \in PlacesOf(f.arr) : p \in 1..Len(arrays'[f.arr]) /\ arrays'[f.arr][p] = arrays[f.arr][p]
           /\ Len(arrays[f.arr]) <= Len(arrays'[f.arr]) /\ Len(arrays[f.arr]) \in Nat
           /\ f.name \in Name
<1>1. f.arr \in ListsOf /\ \A n \in Name : endpoints[n] = f.arr => n = f.name
  BY DEF FrameOK
<1>2. Len(arrays[f.arr]) \in Nat /\ f.name \in Name
  BY <1>1, TypesOf DEF Frame
<1>3. \A n \in Name, b \in ListsOf : endpoints'[n] = b <=> endpoints[n] = b
  BY AddsLeaves
<1>4. /\ ListsOf' = ListsOf \cup {a} /\ l \in Nat /\ (a \in ListsOf => l = Len(arrays[a]) /\ endpoints[name] = a) /\ name \in Name
      /\ \A b \in ListsOf' : \A p \in 1..Len(arrays'[b]) :
         \/ b = a /\ p = l + 1 /\ arrays'[b][p] = e
         \/ b \in ListsOf /\ p \in PlacesOf(b) /\ arrays'[b][p] = arrays[b][p]
      /\ \A b \in ListsOf : /\ Len(arrays[b]) <= Len(arrays'[b]) /\ PlacesOf(b) \subseteq 1..Len(arrays'[b])
                            /\ \A p \in PlacesOf(b) : arrays'[b][p] = arrays[b][p]
  BY DEF Adds
<1> HIDE DEF Adds
<1>5. ASSUME NEW p \in 1..Len(arrays'[f.arr])
      PROVE  \/ p \in PlacesOf(f.arr) /\ arrays'[f.arr][p] = arrays[f.arr][p] /\ arrays'[f.arr][p] \in EpsOf
             \/ f.name = name /\ f.arr = a /\ p = l + 1 /\ p > Len(arrays[a]) /\ arrays'[f.arr][p] = e
  <2>1. CASE f.arr = a /\ p = l + 1 /\ arrays'[f.arr][p] = e
    <3>1. l = Len(arrays[a]) /\ endpoints[name] = f.arr
      BY <1>1, <1>4, <2>1
    <3>2. f.name = name /\ p > Len(arrays[a])
      BY <1>1, <1>4, <2>1, <3>1
    <3> QED BY <2>1, <3>2
  <2>2. CASE p \in PlacesOf(f.arr) /\ arrays'[f.arr][p] = arrays[f.arr][p]
    BY <1>1, <2>2 DEF ListsOK
  <2> QED BY <1>1, <1>4, <2>1, <2>2
<1> QED BY <1>1, <1>2, <1>3, <1>4, <1>5

\* The calls are in order, and none is about the new observer.
LEMMA AddsStack ==
    ASSUME TypeOK, ListsOK, NEW name, NEW e, NEW a, NEW l, NEW F, Adds(name, e, a, l, F), Len(fired') = Len(F) + 1,
           NEW t \in Seq(Frame), Holds(t)
    PROVE  StackOK(t)' /\ RunningOK(t)'
<1>1. /\ EpsOf' = EpsOf \cup {e} /\ e \notin EpsOf /\ UNCHANGED <<cleared, removed>>
      /\ ~eps'[e].active /\ eps'[e].pending = <<>>
      /\ \A x \in EpsOf : eps'[x] = eps[x] /\ since'[x] = since[x]
  BY DEF Adds
<1>2. /\ \A x \in EpsOf : NameOf(x)' = NameOf(x)
      /\ NameOf(e)' = name /\ Len(F) \in Nat /\ F = fired /\ \A x : NameOf(x)' = eps'[x].name
  BY AddsLeaves
<1>3. ASSUME NEW f \in Frame, FrameOK(f) PROVE FrameOK(f)'
  <2>1. /\ f.arr \in ListsOf /\ f.arr \in ListsOf'
        /\ \A n \in Name : endpoints'[n] = f.arr <=> endpoints[n] = f.arr
        /\ \A p \in 1..Len(arrays'[f.arr]) :
             \/ p \in PlacesOf(f.arr) /\ arrays'[f.arr][p] = arrays[f.arr][p] /\ arrays'[f.arr][p] \in EpsOf
             \/ f.name = name /\ f.arr = a /\ p = l + 1 /\ p > Len(arrays[a]) /\ arrays'[f.arr][p] = e
        /\ Len(arrays[f.arr]) <= Len(arrays'[f.arr]) /\ Len(arrays[f.arr]) \in Nat /\ f.name \in Name
    BY <1>3, AddsFrames
  <2>2. f.arr \in ListsOf' /\ f.index >= 1 /\ (f.at = "splice" => f.kind = "off")
    BY <1>3, <2>1 DEF FrameOK
  <2>3. f.at = "callback" => f.kind = "fire" /\ f.e \in EpsOf' /\ eps'[f.e].name = f.name
                            /\ (endpoints'[f.name] # f.arr => cleared'[f.name] > since'[f.e])
    <3> SUFFICES ASSUME f.at = "callback" PROVE f.kind = "fire" /\ f.e \in EpsOf' /\ eps'[f.e].name = f.name
                            /\ (endpoints'[f.name] # f.arr => cleared'[f.name] > since'[f.e])
      OBVIOUS
    <3>1. f.kind = "fire" /\ f.e \in EpsOf /\ eps[f.e].name = f.name /\ (endpoints[f.name] # f.arr => cleared[f.name] > since[f.e])
      BY <1>3 DEF FrameOK, NameOf
    <3> QED BY <1>1, <2>1, <3>1
  <2>4. f.kind = "fire" => f.arg \in 1..Len(fired')
    <3>1. \A i \in 1..Len(fired) : i \in 1..Len(fired')
      BY <1>2
    <3> QED BY <1>3, <3>1 DEF FrameOK
  <2>5. \A n \in Name : endpoints'[n] = f.arr => n = f.name
    BY <1>3, <2>1 DEF FrameOK
  <2>6. \A p \in 1..Len(arrays'[f.arr]) : eps'[arrays'[f.arr][p]].name = f.name
    <3> SUFFICES ASSUME NEW p \in 1..Len(arrays'[f.arr]), NEW x, x = arrays'[f.arr][p] PROVE eps'[x].name = f.name
      OBVIOUS
    <3>1. CASE p \in PlacesOf(f.arr) /\ x = arrays[f.arr][p] /\ x \in EpsOf
      <4>1. NameOf(x) = f.name
        BY <1>3, <3>1 DEF FrameOK
      <4> QED BY <1>2, <3>1, <4>1
    <3>2. CASE f.name = name /\ x = e
      BY <1>2, <3>2
    <3> QED BY <2>1, <3>1, <3>2
  <2>7. f.name \notin removed' => f.len <= Len(arrays'[f.arr])
    <3> SUFFICES ASSUME f.name \notin removed' PROVE f.len <= Len(arrays'[f.arr])
      OBVIOUS
    <3>1. f.len <= Len(arrays[f.arr]) /\ f.len \in Nat
      BY <1>1, <1>3 DEF FrameOK, Frame
    <3>2. Len(arrays'[f.arr]) \in Int
      BY <2>1, LenProperties, <2>2
    <3> DEFINE k == Len(arrays'[f.arr])
               m == Len(arrays[f.arr])
    <3>3. f.len <= m /\ m <= k /\ k \in Int /\ m \in Nat
      BY <2>1, <3>1, <3>2
    <3> HIDE DEF k, m
    <3>4. f.len <= k
      BY <3>1, <3>3
    <3> QED BY <3>4 DEF k
  <2> QED BY <2>2, <2>3, <2>4, <2>5, <2>6, <2>7 DEF FrameOK, PlacesOf, NameOf
<1>4. StackOK(t)'
  <2>1. \A i \in 1..Len(t) : t[i] \in Frame
    OBVIOUS
  <2> QED BY <1>3, <2>1 DEF Holds, StackOK
<1>5. Count(t, CallsOf(e)) = 0
  <2>1. \A i \in 1..Len(t) : t[i] \notin CallsOf(e)
    BY <1>1 DEF Holds, StackOK, FrameOK, CallsOf
  <2> DEFINE X == CallsOf(e)
  <2> HIDE DEF X
  <2>2. (\A i \in 1..Len(t) : t[i] \notin X) => Count(t, X) = 0
    BY CountIs
  <2> QED BY <2>1, <2>2 DEF X
<1>6. RunningOK(t)'
  <2>1. \A x \in EpsOf : Count(t, CallsOf(x)) = (IF eps[x].active THEN 1 ELSE 0) /\ (eps[x].pending # <<>> => eps[x].active)
    BY DEF Holds, RunningOK
  <2>2. \A x \in EpsOf \cup {e} : Count(t, CallsOf(x)) = (IF eps'[x].active THEN 1 ELSE 0) /\ (eps'[x].pending # <<>> => eps'[x].active)
    BY <1>1, <1>5, <2>1
  <2> QED BY <1>1, <2>2 DEF RunningOK, CallsOf
<1> QED BY <1>4, <1>6

\* Nothing new is on its way to observers that were cleared, and nothing at all to the new one.
LEMMA AddsSilent ==
    ASSUME TypeOK, ListsOK, NEW name, NEW e, NEW a, NEW l, NEW F, Adds(name, e, a, l, F), Len(fired') = Len(F) + 1,
           NEW t \in Seq(Frame), Holds(t)
    PROVE  SilentOK(t)'
<1>1. /\ EpsOf' = EpsOf \cup {e} /\ e \notin EpsOf /\ UNCHANGED <<cleared, removed>> /\ name \in Name
      /\ seen'[e] = <<>> /\ eps'[e].pending = <<>>
      /\ \A x \in EpsOf : eps'[x] = eps[x] /\ since'[x] = since[x] /\ seen'[x] = seen[x]
  BY DEF Adds
<1>2. /\ \A x \in EpsOf : NameOf(x)' = NameOf(x)
      /\ NameOf(e)' = name /\ Len(F) \in Nat /\ F = fired /\ cleared'[name] <= since'[e] /\ since'[e] = Len(F)
  BY AddsLeaves
<1>3. ASSUME NEW x \in EpsOf, NEW i \in 1..Len(t), t[i] \in Given(x)' PROVE t[i] \in Given(x)
  <2>a. SUFFICES ASSUME NEW f, f = t[i] PROVE f \in Given(x)
    OBVIOUS
  <2>1. f \in Frame /\ FrameOK(f)
    <3>1. \A j \in 1..Len(t) : t[j] \in Frame
      OBVIOUS
    <3> QED BY <2>a, <3>1 DEF Holds, StackOK
  <2>2. \A p \in 1..Len(arrays'[f.arr]) :
             \/ p \in PlacesOf(f.arr) /\ arrays'[f.arr][p] = arrays[f.arr][p] /\ arrays'[f.arr][p] \in EpsOf
             \/ f.name = name /\ f.arr = a /\ p = l + 1 /\ p > Len(arrays[a]) /\ arrays'[f.arr][p] = e
    BY <2>1, AddsFrames
  <2>3. f.kind = "fire" /\ ((f.at = "callback" /\ f.e = x) \/ \E p \in 1..Len(arrays'[f.arr]) : arrays'[f.arr][p] = x)
    BY <1>3, <2>a DEF Given, PlacesOf
  <2>4. (\E p \in 1..Len(arrays'[f.arr]) : arrays'[f.arr][p] = x) => \E p \in PlacesOf(f.arr) : arrays[f.arr][p] = x
    BY <1>1, <2>2
  <2> QED BY <2>1, <2>3, <2>4 DEF Given
<1>4. \A i \in 1..Len(fired) : i \in 1..Len(fired')
  BY <1>2
<1>5. SilentOK(t)
  BY DEF Holds
<1>6. ASSUME NEW x \in EpsOf'
      PROVE  /\ \A i \in 1..Len(seen'[x]) : seen'[x][i] \in 1..Len(fired')
             /\ \A i \in 1..Len(eps'[x].pending) : eps'[x].pending[i] \in 1..Len(fired')
             /\ cleared'[NameOf(x)'] > since'[x] =>
                  /\ \A i \in 1..Len(seen'[x]) : seen'[x][i] <= cleared'[NameOf(x)']
                  /\ \A i \in 1..Len(eps'[x].pending) : eps'[x].pending[i] <= cleared'[NameOf(x)']
                  /\ \A i \in 1..Len(t) : t[i] \in Given(x)' => t[i].arg <= cleared'[NameOf(x)']
  <2>1. CASE x \in EpsOf
    <3>1. /\ \A i \in 1..Len(seen[x]) : seen[x][i] \in 1..Len(fired)
          /\ \A i \in 1..Len(eps[x].pending) : eps[x].pending[i] \in 1..Len(fired)
          /\ cleared[NameOf(x)] > since[x] =>
               /\ \A i \in 1..Len(seen[x]) : seen[x][i] <= cleared[NameOf(x)]
               /\ \A i \in 1..Len(eps[x].pending) : eps[x].pending[i] <= cleared[NameOf(x)]
               /\ \A i \in 1..Len(t) : t[i] \in Given(x) => t[i].arg <= cleared[NameOf(x)]
      BY <1>5, <2>1 DEF SilentOK
    <3>2. seen'[x] = seen[x] /\ eps'[x] = eps[x] /\ since'[x] = since[x] /\ cleared' = cleared /\ NameOf(x)' = NameOf(x)
      BY <1>1, <1>2, <2>1
    <3>3. \A i \in 1..Len(t) : t[i] \in Given(x)' => t[i] \in Given(x)
      BY <1>3, <2>1
    <3> HIDE DEF NameOf, Given
    <3> QED BY <1>4, <3>1, <3>2, <3>3
  <2>2. CASE x = e
    <3>1. seen'[x] = <<>> /\ eps'[x].pending = <<>> /\ NameOf(x)' = name
      BY <1>1, <1>2, <2>2
    <3>2. ~(cleared'[name] > since'[x])
      <4>1. cleared'[name] \in Nat
        BY <1>1, <1>2, TypesOf
      <4> QED BY <1>2, <2>2, <4>1
    <3>3. \A i : i \notin 1..Len(<<>>)
      OBVIOUS
    <3> QED BY <3>1, <3>2, <3>3
  <2> QED BY <1>1, <2>1, <2>2
<1> QED BY <1>6 DEF SilentOK

\* Loops that are under way do not come to the new observer, and to the others as before.
LEMMA AddsCounts ==
    ASSUME TypeOK, ListsOK, NEW name, NEW e, NEW a, NEW l, NEW F, Adds(name, e, a, l, F), NEW t \in Seq(Frame), Holds(t)
    PROVE  CountsBefore(t, F)'
<1>1. /\ EpsOf' = EpsOf \cup {e} /\ e \notin EpsOf /\ UNCHANGED <<cleared, removed>>
      /\ seen'[e] = <<>> /\ eps'[e].pending = <<>> /\ endpoints'[name] = a /\ name \in Name
      /\ \A x \in EpsOf : eps'[x] = eps[x] /\ since'[x] = since[x] /\ seen'[x] = seen[x]
  BY DEF Adds
<1>2. /\ \A x \in EpsOf : /\ NameOf(x)' = NameOf(x) /\ NameOf(x) \in Name /\ (Undisturbed(x)' <=> Undisturbed(x))
                          /\ MeantBy(x, F)' = Meant(x)
      /\ NameOf(e)' = name /\ MeantBy(e, F)' = {} /\ \A x : NameOf(x)' = eps'[x].name
      /\ \A n \in Name : endpoints'[n] = a => n = name
  BY AddsLeaves
<1>3. \A i \in 1..Len(t) : t[i] \in Frame /\ FrameOK(t[i])
  BY DEF Holds, StackOK
<1>4. ASSUME NEW x \in EpsOf, NEW f \in Frame, FrameOK(f) PROVE f \in Coming(x)' <=> f \in Coming(x)
  <2>1. /\ \A n \in Name : endpoints'[n] = f.arr <=> endpoints[n] = f.arr
        /\ \A p \in 1..Len(arrays'[f.arr]) :
             \/ p \in PlacesOf(f.arr) /\ arrays'[f.arr][p] = arrays[f.arr][p] /\ arrays'[f.arr][p] \in EpsOf
             \/ f.name = name /\ f.arr = a /\ p = l + 1 /\ p > Len(arrays[a]) /\ arrays'[f.arr][p] = e
        /\ \A p \in PlacesOf(f.arr) : p \in 1..Len(arrays'[f.arr]) /\ arrays'[f.arr][p] = arrays[f.arr][p]
    BY <1>4, AddsFrames
  <2>2. f.arr = endpoints'[NameOf(x)'] <=> f.arr = endpoints[NameOf(x)]
    BY <1>2, <2>1
  <2>3. f \in Coming(x)' <=> /\ f.kind = "fire" /\ f.arr = endpoints'[NameOf(x)']
                             /\ \E p \in 1..Len(arrays'[f.arr]) :
                                  arrays'[f.arr][p] = x /\ p <= f.len /\ (IF f.at = "loop" THEN f.index <= p ELSE f.index < p)
    BY DEF Coming, PlacesOf
  <2>4. f \in Coming(x) <=> /\ f.kind = "fire" /\ f.arr = endpoints[NameOf(x)]
                            /\ \E p \in PlacesOf(f.arr) :
                                 arrays[f.arr][p] = x /\ p <= f.len /\ (IF f.at = "loop" THEN f.index <= p ELSE f.index < p)
    BY DEF Coming
  <2> DEFINE R(p) == p <= f.len /\ (IF f.at = "loop" THEN f.index <= p ELSE f.index < p)
  <2>5. f \in Coming(x)' <=> (f.kind = "fire" /\ f.arr = endpoints[NameOf(x)] /\ \E p \in 1..Len(arrays'[f.arr]) : arrays'[f.arr][p] = x /\ R(p))
    BY <2>2, <2>3
  <2>6. f \in Coming(x) <=> (f.kind = "fire" /\ f.arr = endpoints[NameOf(x)] /\ \E p \in PlacesOf(f.arr) : arrays[f.arr][p] = x /\ R(p))
    BY <2>4
  <2> HIDE DEF R
  <2>7. (\E p \in 1..Len(arrays'[f.arr]) : arrays'[f.arr][p] = x /\ R(p)) <=> \E p \in PlacesOf(f.arr) : arrays[f.arr][p] = x /\ R(p)
    BY <1>1, <2>1
  <2> QED BY <2>5, <2>6, <2>7
<1>5. ASSUME name \notin removed, NEW f \in Frame, FrameOK(f) PROVE f \notin Coming(e)'
  <2>1. /\ \A n \in Name : endpoints'[n] = f.arr <=> endpoints[n] = f.arr
        /\ \A p \in 1..Len(arrays'[f.arr]) :
             \/ p \in PlacesOf(f.arr) /\ arrays'[f.arr][p] = arrays[f.arr][p] /\ arrays'[f.arr][p] \in EpsOf
             \/ f.name = name /\ f.arr = a /\ p = l + 1 /\ p > Len(arrays[a]) /\ arrays'[f.arr][p] = e
        /\ Len(arrays[f.arr]) \in Nat
    BY <1>5, AddsFrames
  <2> SUFFICES ASSUME f \in Coming(e)' PROVE FALSE
    OBVIOUS
  <2>2. PICK p \in 1..Len(arrays'[f.arr]) : arrays'[f.arr][p] = e /\ p <= f.len
    BY DEF Coming, PlacesOf
  <2>3. f.name = name /\ f.arr = a /\ p > Len(arrays[a]) /\ p \in Int
    BY <1>1, <2>1, <2>2
  <2>4. f.len <= Len(arrays[a]) /\ f.len \in Nat /\ Len(arrays[a]) \in Nat
    BY <1>5, <2>1, <2>3 DEF FrameOK, Frame
  <2> DEFINE k == Len(arrays[a])
  <2>5. p > k /\ p <= f.len /\ f.len <= k /\ f.len \in Nat /\ k \in Nat /\ p \in Int
    BY <2>2, <2>3, <2>4
  <2> HIDE DEF k
  <2> QED BY <2>5
<1> HIDE DEF Adds
<1>6. ASSUME NEW x \in EpsOf, Undisturbed(x)'
      PROVE  Len(seen'[x]) + Len(eps'[x].pending) + Count(t, Coming(x)') = Cardinality(MeantBy(x, F)')
  <2>1. Undisturbed(x) /\ MeantBy(x, F)' = Meant(x) /\ seen'[x] = seen[x] /\ eps'[x] = eps[x]
    BY <1>1, <1>2, <1>6
  <2> DEFINE X == Coming(x)'
             Y == Coming(x)
  <2>2. \A i \in 1..Len(t) : t[i] \in X <=> t[i] \in Y
    BY <1>3, <1>4
  <2>3. Len(seen[x]) + Len(eps[x].pending) + Count(t, Y) = Cardinality(Meant(x))
    BY <2>1 DEF Holds, CountsOK
  <2> HIDE DEF X, Y
  <2>4. Count(t, X) = Count(t, Y)
    BY <2>2, CountSame
  <2> QED BY <2>1, <2>3, <2>4 DEF X
<1>7. ASSUME Undisturbed(e)'
      PROVE  Len(seen'[e]) + Len(eps'[e].pending) + Count(t, Coming(e)') = Cardinality(MeantBy(e, F)')
  <2>1. name \notin removed
    BY <1>1, <1>2, <1>7 DEF Undisturbed
  <2> DEFINE X == Coming(e)'
  <2>2. \A i \in 1..Len(t) : t[i] \notin X
    BY <1>3, <1>5, <2>1
  <2> HIDE DEF X
  <2>3. Count(t, X) = 0
    <3>1. (\A i \in 1..Len(t) : t[i] \notin X) => Count(t, X) = 0
      BY CountIs
    <3> QED BY <2>2, <3>1
  <2>4. Len(seen'[e]) = 0 /\ Len(eps'[e].pending) = 0
    BY <1>1
  <2>5. Cardinality(MeantBy(e, F)') = 0
    BY <1>2, FS_EmptySet
  <2> QED BY <2>3, <2>4, <2>5 DEF X
<1>8. ASSUME NEW x \in EpsOf', Undisturbed(x)'
      PROVE  Len(seen'[x]) + Len(eps'[x].pending) + Count(t, Coming(x)') = Cardinality(MeantBy(x, F)')
  <2>1. CASE x \in EpsOf
    BY <1>6, <1>8, <2>1
  <2>2. CASE x = e
    BY <1>7, <1>8, <2>2
  <2> QED BY <1>1, <2>1, <2>2
<1> QED BY <1>8 DEF CountsBefore, Count

\* The first observers have had the events so far.
LEMMA AddsFirst ==
    ASSUME TypeOK, ListsOK, NEW name, NEW e, NEW a, NEW l, NEW F, Adds(name, e, a, l, F), NEW t \in Seq(Frame), Holds(t), Busy(t),
           TypeOK', ListsOK'
    PROVE  FirstBefore(F)'
<1>1. /\ EpsOf' = EpsOf \cup {e} /\ e \notin EpsOf /\ UNCHANGED removed
      /\ \A b \in ListsOf' : \A p \in 1..Len(arrays'[b]) :
         \/ b = a /\ p = l + 1 /\ arrays'[b][p] = e
         \/ b \in ListsOf /\ p \in PlacesOf(b) /\ arrays'[b][p] = arrays[b][p]
  BY DEF Adds
<1>2. /\ \A x \in EpsOf : Known(x)' = Known(x) /\ MeantBy(x, F)' = Meant(x)
      /\ Known(e)' = <<>> /\ MeantBy(e, F)' = {}
      /\ \A n \in Name, b \in ListsOf : endpoints'[n] = b <=> endpoints[n] = b
  BY AddsLeaves
<1> HIDE DEF Adds
<1>3. ASSUME NEW n \in Name, n \notin removed', endpoints'[n] # None, Len(arrays'[endpoints'[n]]) >= 1,
             NEW x, x = arrays'[endpoints'[n]][1]
      PROVE  Ascending(Known(x)') /\ Range(Known(x)') = MeantBy(x, F)'
  <2>a. SUFFICES ASSUME NEW b, b = endpoints'[n], NEW q, q = arrays'[b] PROVE Ascending(Known(x)') /\ Range(Known(x)') = MeantBy(x, F)'
    OBVIOUS
  <2>1. b \in ListsOf' /\ q \in Seq(Nat)
    BY <1>3, <2>a DEF ListsOK, TypeOK, ListsOf
  <2>2. 1 \in 1..Len(q)
    <3>1. Len(q) \in Nat /\ Len(q) >= 1
      BY <1>3, <2>a, <2>1, LenProperties
    <3> QED BY <3>1
  <2>3. (b = a /\ 1 = l + 1 /\ x = e) \/ (b \in ListsOf /\ 1 \in PlacesOf(b) /\ x = arrays[b][1])
    BY <1>1, <1>3, <2>a, <2>1, <2>2
  <2>4. CASE x = e
    <3>1. Known(x)' = <<>> /\ MeantBy(x, F)' = {}
      BY <1>2, <2>4
    <3>2. Ascending(<<>>) /\ Range(<<>>) = {}
      BY DEF Ascending, Range
    <3> QED BY <3>1, <3>2
  <2>5. CASE b \in ListsOf /\ 1 \in PlacesOf(b) /\ x = arrays[b][1]
    <3>1. endpoints[n] = b /\ n \notin removed /\ x \in EpsOf /\ endpoints[n] # None
      BY <1>1, <1>2, <1>3, <2>a, <2>5 DEF ListsOK
    <3>2. Len(arrays[b]) >= 1
      BY <2>5, TypesOf DEF PlacesOf
    <3>3. FirstOK(t) /\ ~AboutTo(t, n)
      BY BusyIs DEF Holds
    <3>4. Ascending(Known(x)) /\ Range(Known(x)) = Meant(x)
      BY <2>5, <3>1, <3>2, <3>3 DEF FirstOK
    <3>5. Known(x)' = Known(x) /\ MeantBy(x, F)' = Meant(x)
      BY <1>2, <3>1
    <3> QED BY <3>4, <3>5
  <2> QED BY <2>3, <2>4, <2>5
<1> QED BY <1>3 DEF FirstBefore, Ascending, Range

\* An observer is added, and the event on is fired, unless it is there already.
LEMMA AddKeeps ==
    ASSUME IInv, NEW name \in Name, NEW callback \in Callback, addOneObserver(name, callback)
    PROVE  IInv'
<1> SUFFICES ASSUME NEW t, t = stack, NEW F, F = fired, NEW on, on = "on" PROVE IInv'
  OBVIOUS
<1>1. TypeOK /\ ListsOK /\ Holds(t) /\ t \in Seq(Frame) /\ F \in Seq(Name) /\ Len(F) \in Nat /\ on \in Name
  BY TypesOf, EventNames DEF IInv, TypeOK
<1>2. t # <<>> => t[1].at = "callback"
  BY DEF addOneObserver, Calls, Top
<1>3. CASE \E e \in Observers(name) : Same(e, callback)
  <2>1. stack' = t /\ UNCHANGED <<state, fired, seen, since, cleared, removed>>
    BY <1>3 DEF addOneObserver
  <2> QED BY <1>1, <2>1, OnlyStack
<1>4. CASE ~\E e \in Observers(name) : Same(e, callback)
  <2>1. /\ \E e, a, l : Adds(name, e, a, l, F)
        /\ TypeOK' /\ fired' = Append(F, on)
        /\ stack' = IF endpoints'[on] = None THEN t
                    ELSE push(t, Loop("fire", on, Len(F) + 1, Every, endpoints', arrays'))
    BY <1>1, <1>4, AddsIs
  <2>2. PICK e, a, l : Adds(name, e, a, l, F)
    BY <2>1
  <2>3. Len(fired') = Len(F) + 1 /\ Busy(t)
    BY <1>1, <1>2, <2>1, AppendProperties DEF Busy
  <2>4. ListsOK'
    BY <1>1, <2>2, <2>3, AddsLists
  <2>5. StackOK(t)' /\ RunningOK(t)'
    BY <1>1, <2>2, <2>3, AddsStack
  <2>6. SilentOK(t)'
    BY <1>1, <2>2, <2>3, AddsSilent
  <2>7. CountsBefore(t, F)'
    BY <1>1, <2>2, AddsCounts
  <2>8. FirstBefore(F)'
    BY <1>1, <2>1, <2>2, <2>3, <2>4, AddsFirst
  <2>9. Firing(t, on, F)'
    BY <1>1, <1>2, <2>1, <2>4, <2>5, <2>6, <2>7, <2>8 DEF Firing
  <2> QED BY <2>9, FiringThen
<1> QED BY <1>3, <1>4

-----------------------------------------------------------------------------
(***************************************************************************)
(* The theorems.                                                            *)
(***************************************************************************)

\* At first there are no observers, events and calls.
LEMMA InitHolds ==
    ASSUME Init
    PROVE  IInv
<1>1. /\ endpoints = [n \in Name |-> 0] /\ arrays = <<>> /\ eps = <<>> /\ stack = <<>> /\ fired = <<>>
      /\ seen = <<>> /\ since = <<>> /\ cleared = [n \in Name |-> 0] /\ removed = {}
  BY DEF Init, None
<1>2. TypeOK
  BY <1>1 DEF TypeOK
<1>3. EpsOf = {} /\ ListsOf = {} /\ \A i : i \notin 1..Len(stack)
  BY <1>1 DEF EpsOf, ListsOf
<1>4. ListsOK
  BY <1>1, <1>3 DEF ListsOK, None
<1>5. StackOK(stack)
  BY <1>3 DEF StackOK
<1>6. RunningOK(stack) /\ SilentOK(stack) /\ CountsOK(stack)
  BY <1>3 DEF RunningOK, SilentOK, CountsOK
<1>7. FirstOK(stack)
  BY <1>1 DEF FirstOK, None
<1> QED BY <1>2, <1>4, <1>5, <1>6, <1>7 DEF IInv, Holds

\* Every step keeps what holds.
LEMMA StepHolds ==
    ASSUME IInv, [Next]_vars
    PROVE  IInv'
<1>1. CASE UNCHANGED vars
  <2> SUFFICES ASSUME NEW s, s = stack PROVE IInv'
    OBVIOUS
  <2>1. TypeOK /\ ListsOK /\ Holds(s) /\ s \in Seq(Frame) /\ stack' = s
        /\ UNCHANGED <<state, fired, seen, since, cleared, removed>>
    BY <1>1, TypesOf DEF IInv, vars, state
  <2> QED BY <2>1, OnlyStack
<1>2. CASE EndLoop
  BY <1>2, EndLoopKeeps
<1>3. CASE Postpone
  BY <1>3, PostponeKeeps
<1>4. CASE Run
  BY <1>4, RunKeeps
<1>5. CASE Return
  BY <1>5, ReturnKeeps
<1>6. CASE Skip
  BY <1>6, SkipKeeps
<1>7. CASE FireOff
  BY <1>7, FireOffKeeps
<1>8. CASE Splice
  BY <1>8, SpliceKeeps
<1>9. ASSUME NEW n \in Fired, Fire(n) PROVE IInv'
  <2>1. n \in Name
    BY EventNames
  <2> QED BY <1>9, <2>1, FireKeeps
<1>10. ASSUME NEW n \in Name, NEW c \in Callback, addOneObserver(n, c) PROVE IInv'
  BY <1>10, AddKeeps
<1>11. ASSUME NEW names \in {{n} : n \in Name} \cup {Name}, clearObservers(names) PROVE IInv'
  BY <1>11, ClearKeeps
<1>12. ASSUME NEW n \in Name, NEW c \in Callback \cup {Every}, removeOneObserver(n, c) PROVE IInv'
  BY <1>12, RemoveKeeps
<1> HIDE DEF IInv
<1> QED BY <1>1, <1>2, <1>3, <1>4, <1>5, <1>6, <1>7, <1>8, <1>9, <1>10, <1>11, <1>12 DEF Next, Step, Rest

\* What holds of the observers, the events and the calls holds always, whatever names,
\* functions and calls there are.
THEOREM Invariant == Spec => []IInv
<1>1. Init => IInv
  BY InitHolds
<1>2. IInv /\ [Next]_vars => IInv'
  BY StepHolds
<1> QED BY <1>1, <1>2, PTL DEF Spec

\* The endpoints, the arrays and the calls of fireThis and removeOneObserver are of their types.
THEOREM Types == Spec => []TypeOK
<1>1. IInv => TypeOK
  BY DEF IInv
<1> QED BY <1>1, Invariant, PTL

\* The calls of an observer are counted as its running callbacks.
LEMMA RunningIs ==
    ASSUME TypeOK, RunningOK(stack)
    PROVE  ActiveIsRunning
<1> SUFFICES ASSUME NEW e \in DOMAIN eps
             PROVE  Cardinality({i \in Callbacks : stack[i].e = e}) = IF eps[e].active THEN 1 ELSE 0
  BY DEF ActiveIsRunning
<1>1. e \in EpsOf /\ stack \in Seq(Frame)
  BY DEF TypeOK, EpsOf
<1>2. {i \in Callbacks : stack[i].e = e} = {i \in 1..Len(stack) : stack[i] \in CallsOf(e)}
  <2>1. DOMAIN stack = 1..Len(stack) /\ \A i \in 1..Len(stack) : stack[i] \in Frame
    BY <1>1
  <2> QED BY <2>1 DEF Callbacks, CallsOf
<1>3. Count(stack, CallsOf(e)) = IF eps[e].active THEN 1 ELSE 0
  BY <1>1 DEF RunningOK
<1> QED BY <1>2, <1>3 DEF Count

\* An observer is active while one call of it runs and only then (e.active in fireThis of
\* Emitter.es), through events that it fires itself, exceptions, removals and clearing.
THEOREM ActiveWhileRunning == Spec => []ActiveIsRunning
<1>1. IInv => ActiveIsRunning
  BY RunningIs DEF IInv, Holds
<1> QED BY <1>1, Invariant, PTL

\* With no call left no event waits, and what was counted is what was seen.
LEMMA MeantIsSeen ==
    ASSUME IInv
    PROVE  CallsMatchEvents
<1>1. TypeOK /\ ListsOK /\ RunningOK(stack) /\ SilentOK(stack) /\ CountsOK(stack) /\ FirstOK(stack)
  BY DEF IInv, Holds
<1>2. DOMAIN eps = EpsOf /\ \A e \in EpsOf : DOMAIN seen[e] = 1..Len(seen[e])
  <2>1. \A e \in EpsOf : seen[e] \in Seq(Nat)
    BY <1>1, TypesOf
  <2>2. DOMAIN eps = EpsOf
    BY <1>1 DEF TypeOK, EpsOf
  <2> QED BY <2>1, <2>2
<1>3. ClearedIsSilent
  BY <1>1, <1>2 DEF ClearedIsSilent, SilentOK, NameOf
<1>4. ASSUME stack = <<>>, NEW e \in EpsOf PROVE eps[e].pending = <<>> /\ Len(eps[e].pending) = 0
  <2>1. \A X : Count(stack, X) = 0
    <3>1. stack \in Seq(Frame) /\ \A i : i \notin 1..Len(stack)
      BY <1>1, <1>4, TypesOf
    <3> QED BY <3>1, CountIs
  <2>2. ~eps[e].active
    BY <1>1, <2>1 DEF RunningOK
  <2> QED BY <1>1, <2>2 DEF RunningOK
<1>5. CalledAsOften
  <2> SUFFICES ASSUME stack = <<>>, NEW e \in EpsOf, Undisturbed(e) PROVE Len(seen[e]) = Cardinality(Meant(e))
    BY <1>2 DEF CalledAsOften
  <2>1. Count(stack, Coming(e)) = 0
    <3>1. stack \in Seq(Frame) /\ \A i : i \notin 1..Len(stack)
      BY <1>1, TypesOf
    <3> DEFINE X == Coming(e)
    <3> HIDE DEF X
    <3>2. (\A i \in 1..Len(stack) : stack[i] \notin X) => Count(stack, X) = 0
      BY <3>1, CountIs
    <3> QED BY <3>1, <3>2 DEF X
  <2>2. Len(seen[e]) + Len(eps[e].pending) + Count(stack, Coming(e)) = Cardinality(Meant(e))
    BY <1>1 DEF CountsOK
  <2>3. Len(eps[e].pending) = 0 /\ Len(seen[e]) \in Nat
    BY <1>1, <1>4, TypesOf
  <2> QED BY <2>1, <2>2, <2>3
<1>6. FirstHasAll
  <2> SUFFICES ASSUME stack = <<>>, NEW n \in Name, n \notin removed, Observers(n) # {}, NEW e, e = arrays[endpoints[n]][1]
               PROVE  Ascending(seen[e]) /\ Range(seen[e]) = Meant(e)
    BY DEF FirstHasAll
  <2>1. endpoints[n] # None /\ endpoints[n] \in ListsOf
    BY <1>1 DEF Observers, ListsOK
  <2>2. Len(arrays[endpoints[n]]) >= 1 /\ 1 \in PlacesOf(endpoints[n])
    <3> DEFINE q == arrays[endpoints[n]]
    <3>1. q \in Seq(Nat) /\ Len(q) \in Nat
      BY <1>1, <2>1, TypesOf
    <3>2. Range(q) # {}
      BY <2>1 DEF Observers
    <3> HIDE DEF q
    <3>3. q # <<>>
      BY <3>2 DEF Range
    <3>4. Len(q) >= 1
      BY <3>1, <3>3, EmptySeq
    <3> QED BY <3>1, <3>4 DEF q, PlacesOf
  <2>3. e \in EpsOf
    BY <1>1, <2>1, <2>2 DEF ListsOK
  <2>4. ~AboutTo(stack, n)
    BY DEF AboutTo
  <2>5. Ascending(Known(e)) /\ Range(Known(e)) = Meant(e)
    BY <1>1, <2>1, <2>2, <2>4 DEF FirstOK
  <2>6. Known(e) = seen[e]
    <3>1. seen[e] \in Seq(Nat)
      BY <1>1, <2>3, TypesOf
    <3>2. Known(e) = seen[e] \o <<>>
      BY <1>4, <2>3 DEF Known
    <3> QED BY <3>1, <3>2, ConcatEmptySeq
  <2> QED BY <2>5, <2>6
<1> QED BY <1>3, <1>5, <1>6 DEF CallsMatchEvents, EventsArrive

\* The calls of the observers agree with what was fired: when the script has control again, each
\* observer that nobody removed was called as many times as its event was fired since it was
\* registered, though those behind the first may have had one event twice and another never; the
\* first of a name has had each event once and in order; one that was cleared sees nothing later
\* (fireThis, addOneObserver, clearObservers and removeOneObserver of Emitter.es).
THEOREM CallsAgree == Spec => []CallsMatchEvents
<1>1. IInv => CallsMatchEvents
  BY MeantIsSeen
<1> QED BY <1>1, Invariant, PTL
=============================================================================
