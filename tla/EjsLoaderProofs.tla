--------------------------- MODULE EjsLoaderProofs ---------------------------
(***************************************************************************)
(* Theorems about EjsLoader: that listed modules have run, that a module    *)
(* runs once, and that all it requires is there when it runs.               *)
(*                                                                          *)
(* The compiler is a recursion over sources, of which nothing can be proved *)
(* here.  The theorems take from it that the files it writes are whole.     *)
(***************************************************************************)
EXTENDS EjsLoader, SequenceTheorems, WellFoundedInduction, TLAPS

\* A sequence, whatever its elements are
IsList(s) == s \in Seq(Range(s))

-----------------------------------------------------------------------------
(***************************************************************************)
(* The invariant.                                                           *)
(***************************************************************************)
\* Records have the fields they were made with
IsLoad(f) ==
    /\ f.call = "load"
    /\ f = [call |-> "load", file |-> f.file, at |-> f.at, phase |-> f.phase, reload |-> f.reload,
            firstModule |-> f.firstModule, mp |-> f.mp, current |-> f.current]
    /\ f.at \in Nat \ {0} /\ f.firstModule \in Nat /\ f.mp \in Nat
    /\ f.phase \in {"sections", "dependency", "after", "initializer", "failed"}
IsRun(f) ==
    /\ f.call = "initializer"
    /\ f = [call |-> "initializer", mp |-> f.mp, at |-> 1]
    /\ f.mp \in Nat \ {0}
IsModule(r) ==
    /\ r = [name |-> r.name, checksum |-> r.checksum, script |-> r.script, fixups |-> r.fixups, loading |-> r.loading,
            initialized |-> r.initialized, ran |-> r.ran, version |-> r.version, file |-> r.file]
    /\ IsList(r.fixups) /\ r.loading \in BOOLEAN /\ r.initialized \in BOOLEAN
    /\ ~r.initialized => r.ran = "no"
    /\ r.script.does \in {"loads", "tries"} => r.script.module \in Modules
IsType(t) == "needFixup" \in DOMAIN t

ModulesOK(ms, md) ==
    /\ IsList(ms) /\ IsList(md)
    /\ \A m \in 1..Len(md) : IsModule(md[m])
    /\ \A k \in 1..Len(ms) : ms[k] \in 1..Len(md)
    /\ \A k, l \in 1..Len(ms) : ms[k] = ms[l] => k = l
Types ==
    /\ ModulesOK(modules, mods) /\ returned \in {"no", "ok", "failed"}
    /\ \A c \in DOMAIN globals : IsType(globals[c])

Done(md, m) == md[m].ran = "done" /\ md[m].initialized /\ ~md[m].loading

\* Where a load is with its module: it is the first of those that are listed since,
\* unless the load fails, and has been initialized when the load goes on to others
LoadOK(f, ms, md) ==
    /\ IsWhole(f.file) /\ f.firstModule <= Len(ms)
    /\ f.mp = None <=> f.phase = "sections" /\ f.at = 1
    /\ f.mp # None => f.mp <= Len(md) /\ md[f.mp].file = f.file /\ md[f.mp].name = NameIn(f.file)
    /\ f.mp # None /\ f.phase # "failed" => f.firstModule < Len(ms) /\ ms[f.firstModule + 1] = f.mp
    /\ f.mp # None /\ f.phase \in {"sections", "dependency"} => md[f.mp].loading /\ ~md[f.mp].initialized
    /\ f.phase = "dependency" => f.at <= Len(f.file.sections) /\ Kind(f.file, f.at) = "dependency"
    /\ f.phase = "after" =>
        \/ f.at = f.firstModule + 1 /\ ~md[f.mp].initialized
        \/ f.at > f.firstModule + 1 /\ Done(md, f.mp)
    /\ f.phase = "initializer" => f.at > f.firstModule + 1

\* The script of a module runs
RunOK(f, md) == f.mp <= Len(md) /\ md[f.mp].ran = "begun" /\ md[f.mp].initialized /\ ~md[f.mp].loading

CallOK(f, ms, md) == (IsLoad(f) /\ LoadOK(f, ms, md)) \/ (IsRun(f) /\ RunOK(f, md))

\* What waits for what
Calls(f, g) ==
    \/ f.call = "initializer" /\ g.call = "load"
    \/ f.call = "load" /\ f.phase = "initializer" /\ g.call = "initializer" /\ g.mp = f.mp
    \/ f.call = "load" /\ f.phase = "dependency" /\ g.call = "load" /\ NameIn(g.file) = f.file.sections[f.at].name

StackOK(s, ms, md) ==
    /\ IsList(s)
    /\ \A i \in 1..Len(s) : CallOK(s[i], ms, md)
    /\ \A i \in 1..Len(s) - 1 : Calls(s[i], s[i + 1])
    /\ s # <<>> => s[1].call = "load"
    /\ \A i, j \in 1..Len(s) :
        i < j /\ s[i].call = "load" /\ s[j].call = "load" => s[i].firstModule < s[j].firstModule

\* What goes on now
TopIs(f, ms, md, ret) ==
    f.call = "load" =>
        /\ f.mp = None => f.firstModule = Len(ms)
        /\ f.phase = "dependency" =>
            /\ ret # "no"
            /\ ret = "ok" => \E k \in 1..Len(ms) : md[ms[k]].name = f.file.sections[f.at].name
        /\ f.phase = "initializer" => ret # "no" /\ (ret = "ok" => Done(md, f.mp))
TopOK(s, ms, md, ret) == s # <<>> => TopIs(s[Len(s)], ms, md, ret)

\* A listed module has run, but for those that are being loaded
LoadedBy(f, k) == f.call = "load" /\ f.mp # None /\ k = f.firstModule + 1
Listed(s, ms, md) == \A k \in 1..Len(ms) : Done(md, ms[k]) \/ \E i \in 1..Len(s) : LoadedBy(s[i], k)

LInv == Types /\ StackOK(stack, modules, mods) /\ TopOK(stack, modules, mods, returned) /\ Listed(stack, modules, mods)

\* Until a load fails or reloads, modules have different names and are listed
Once(s, ms, md) ==
    /\ \A m, n \in 1..Len(md) : md[m].name = md[n].name => m = n
    /\ \/ s # <<>> /\ s[Len(s)].call = "load" /\ s[Len(s)].phase = "failed"
       \/ \A m \in 1..Len(md) : \E k \in 1..Len(ms) : ms[k] = m
    /\ s # <<>> /\ s[Len(s)].call = "load" /\ s[Len(s)].mp = None
        => \A m \in 1..Len(md) : md[m].name # NameIn(s[Len(s)].file)

\* What a load has found that its module requires
IsMet(s, i, required, md) ==
    \E m \in 1..Len(md) :
        /\ md[m].name = required.name /\ md[m].checksum = required.checksum
        /\ md[m].ran = "done" \/ \E j \in 1..i : s[j].call = "load" /\ s[j].mp = m
Passed(f, k) == (f.phase \in {"sections", "dependency"} /\ k < f.at) \/ f.phase \in {"after", "initializer"}
Met(s, md) ==
    \A i \in 1..Len(s) : s[i].call = "load" =>
        \A k \in 1..Len(s[i].file.sections) :
            Kind(s[i].file, k) = "dependency" /\ Passed(s[i], k) => IsMet(s, i, s[i].file.sections[k], md)

\* Classes that wait for a base class are on the list of their module
Based(fixups, c) == \E x \in 1..Len(fixups) : fixups[x].kind = "base" /\ fixups[x].target = c
ClassOK(md, gl, m, c) == c \in DOMAIN gl /\ (gl[c].needFixup => Based(md[m].fixups, c))
Classes(f, md, gl, ret) ==
    /\ f.call = "load" /\ f.phase = "sections" =>
        \A k \in 1..Len(f.file.sections) :
            k < f.at /\ Kind(f.file, k) = "class" => ClassOK(md, gl, f.mp, f.file.sections[k].name)
    /\ f.call = "load" /\ f.phase = "after" /\ f.at = f.firstModule + 1 =>
        \A c \in DOMAIN f.file.layouts :
            IF md[f.mp].loading THEN ClassOK(md, gl, f.mp, c) ELSE ~gl[c].needFixup
    /\ f.call = "initializer" /\ ret = "no" => \A c \in DOMAIN md[f.mp].file.layouts : ~gl[c].needFixup
ClassesAt(s, md, gl, ret) == s # <<>> => Classes(s[Len(s)], md, gl, ret)
ClassesOK == ClassesAt(stack, mods, globals, returned)


-----------------------------------------------------------------------------
(***************************************************************************)
(* Lists.                                                                   *)
(***************************************************************************)

\* A list is a function on the numbers up to its length.
LEMMA ListIs ==
    ASSUME NEW s, IsList(s)
    PROVE  Len(s) \in Nat /\ DOMAIN s = 1..Len(s) /\ (s = <<>> <=> Len(s) = 0)
<1>1. s \in Seq(Range(s))
  BY DEF IsList
<1> QED BY <1>1, LenProperties, EmptySeq

\* Such a function is a list.
LEMMA IsAList ==
    ASSUME NEW n \in Nat, NEW s, s = [i \in 1..n |-> s[i]]
    PROVE  IsList(s) /\ Len(s) = n
<1>1. DOMAIN s = 1..n
  OBVIOUS
<1>2. \A i \in 1..n : s[i] \in Range(s)
  BY <1>1 DEF Range
<1> DEFINE R == Range(s)
<1> HIDE DEF R
<1>3. s \in [1..n -> R]
  BY <1>2 DEF R
<1>4. s \in Seq(R) /\ Len(s) = n
  BY <1>3
<1> QED BY <1>4 DEF IsList, R

\* A list with one more at its end.
LEMMA AppendIs ==
    ASSUME NEW s, IsList(s), NEW e
    PROVE  /\ IsList(Append(s, e)) /\ Len(Append(s, e)) = Len(s) + 1 /\ Append(s, e) # <<>>
           /\ \A i \in 1..Len(s) : Append(s, e)[i] = s[i]
           /\ Append(s, e)[Len(s) + 1] = e
<1> DEFINE R == Range(s) \cup {e}
           a == Append(s, e)
<1>1. s \in Seq(R) /\ e \in R
  <2>1. s \in Seq(Range(s))
    BY DEF IsList
  <2> DEFINE Q == Range(s)
  <2> HIDE DEF Q
  <2>2. s \in Seq(Q) /\ Q \subseteq Q \cup {e}
    BY <2>1 DEF Q
  <2>3. s \in Seq(Q \cup {e})
    BY <2>2
  <2> QED BY <2>3 DEF Q
<1> HIDE DEF R
<1>2. a \in Seq(R) /\ a # <<>> /\ Len(a) = Len(s) + 1 /\ (\A i \in 1..Len(s) : a[i] = s[i]) /\ a[Len(s) + 1] = e
  BY <1>1, AppendProperties
<1> HIDE DEF a
<1>3. Len(a) \in Nat /\ a = [i \in 1..Len(a) |-> a[i]]
  BY <1>2, LenProperties
<1>4. IsList(a)
  BY <1>3, IsAList
<1> QED BY <1>2, <1>4 DEF a

\* What is below the top of a stack.
LEMMA FrontIs ==
    ASSUME NEW s, IsList(s), s # <<>>
    PROVE  /\ IsList(Front(s)) /\ Len(Front(s)) = Len(s) - 1
           /\ \A i \in 1..Len(s) - 1 : Front(s)[i] = s[i]
           /\ Len(s) \in Nat /\ Len(s) > 0 /\ Last(s) = s[Len(s)]
<1> DEFINE n == Len(s) - 1
           f == SubSeq(s, 1, n)
           R == Range(s)
<1>1. Len(s) \in Nat /\ Len(s) > 0 /\ n \in Nat /\ DOMAIN s = 1..Len(s)
  BY ListIs
<1>2. \A i \in 1..n : s[i] \in R
  BY <1>1 DEF Range
<1> HIDE DEF n, R
<1>3. f \in Seq(R) /\ Len(f) = (IF 1 <= n THEN n - 1 + 1 ELSE 0)
      /\ \A i \in 1..n - 1 + 1 : f[i] = s[1 + i - 1]
  BY <1>1, <1>2, SubSeqProperties
<1>4. Len(f) = n /\ \A i \in 1..n : f[i] = s[i]
  BY <1>1, <1>3
<1> HIDE DEF f
<1>5. f = [i \in 1..n |-> f[i]]
  BY <1>3, <1>4, LenProperties
<1>6. IsList(f)
  BY <1>1, <1>5, IsAList
<1> QED BY <1>1, <1>4, <1>6 DEF f, n, Front, Last

\* A stack with another top.
LEMMA SetTopIs ==
    ASSUME NEW s, IsList(s), s # <<>>, NEW f
    PROVE  /\ IsList(Append(Front(s), f)) /\ Len(Append(Front(s), f)) = Len(s) /\ Append(Front(s), f) # <<>>
           /\ \A i \in 1..Len(s) - 1 : Append(Front(s), f)[i] = s[i]
           /\ Append(Front(s), f)[Len(s)] = f
<1>1. /\ IsList(Front(s)) /\ Len(Front(s)) = Len(s) - 1
      /\ \A i \in 1..Len(s) - 1 : Front(s)[i] = s[i]
      /\ Len(s) \in Nat /\ Len(s) > 0
  BY FrontIs
<1> DEFINE t == Front(s)
<1> HIDE DEF t
<1>2. /\ IsList(Append(t, f)) /\ Len(Append(t, f)) = Len(t) + 1 /\ Append(t, f) # <<>>
      /\ \A i \in 1..Len(t) : Append(t, f)[i] = t[i]
      /\ Append(t, f)[Len(t) + 1] = f
  BY <1>1, AppendIs DEF t
<1>3. Len(t) + 1 = Len(s) /\ 1..Len(t) = 1..Len(s) - 1
  BY <1>1 DEF t
<1> QED BY <1>1, <1>2, <1>3 DEF t

Put(s, k, e) == [s EXCEPT ![k] = e]

\* A list with another element in place of one.
LEMMA PutIs ==
    ASSUME NEW s, IsList(s), NEW k \in 1..Len(s), NEW e
    PROVE  /\ IsList(Put(s, k, e)) /\ Len(Put(s, k, e)) = Len(s)
           /\ \A i \in 1..Len(s) : i # k => Put(s, k, e)[i] = s[i]
           /\ Put(s, k, e)[k] = e
<1> DEFINE n == Len(s)
           t == Put(s, k, e)
<1>1. n \in Nat /\ DOMAIN s = 1..n
  BY ListIs
<1>2. t = [i \in 1..n |-> t[i]] /\ \A i \in 1..n : t[i] = IF i = k THEN e ELSE s[i]
  BY <1>1 DEF Put
<1> HIDE DEF t
<1>3. IsList(t) /\ Len(t) = n
  BY <1>1, <1>2, IsAList
<1> QED BY <1>2, <1>3 DEF t

\* Two lists, one after the other.
LEMMA ConcatIs ==
    ASSUME NEW s, IsList(s), NEW t, IsList(t)
    PROVE  /\ IsList(s \o t) /\ Len(s \o t) = Len(s) + Len(t)
           /\ \A i \in 1..Len(s) : (s \o t)[i] = s[i]
           /\ \A i \in 1..Len(t) : (s \o t)[Len(s) + i] = t[i]
<1> DEFINE P == Range(s)
           Q == Range(t)
           R == P \cup Q
           u == s \o t
<1>1. s \in Seq(P) /\ t \in Seq(Q) /\ Len(s) \in Nat /\ Len(t) \in Nat
  BY ListIs DEF IsList
<1> HIDE DEF P, Q
<1>2. s \in Seq(R) /\ t \in Seq(R)
  BY <1>1
<1> HIDE DEF R
<1>3. u \in Seq(R) /\ Len(u) = Len(s) + Len(t)
      /\ \A i \in 1..Len(s) + Len(t) : u[i] = IF i <= Len(s) THEN s[i] ELSE t[i - Len(s)]
  BY <1>2, ConcatProperties
<1> HIDE DEF u
<1>4. u = [i \in 1..Len(u) |-> u[i]] /\ Len(u) \in Nat
  BY <1>3, LenProperties
<1>5. IsList(u)
  BY <1>4, IsAList
<1>6. \A i \in 1..Len(s) : u[i] = s[i]
  BY <1>1, <1>3
<1>7. ASSUME NEW i \in 1..Len(t) PROVE u[Len(s) + i] = t[i]
  <2>1. Len(s) + i \in 1..Len(s) + Len(t) /\ ~(Len(s) + i <= Len(s)) /\ Len(s) + i - Len(s) = i
    BY <1>1
  <2> QED BY <1>3, <2>1
<1> QED BY <1>3, <1>5, <1>6, <1>7 DEF u

\* A list without an element that it has once.
LEMMA RemoveFirstIs ==
    ASSUME NEW s, IsList(s), NEW k \in 1..Len(s), \A i \in 1..Len(s) : s[i] = s[k] => i = k
    PROVE  /\ IsList(RemoveFirst(s, s[k])) /\ Len(RemoveFirst(s, s[k])) = Len(s) - 1
           /\ \A i \in 1..k - 1 : RemoveFirst(s, s[k])[i] = s[i]
           /\ \A i \in k..Len(s) - 1 : RemoveFirst(s, s[k])[i] = s[i + 1]
<1> DEFINE n == Len(s)
           I == {i \in 1..n : s[i] = s[k]}
           a == SubSeq(s, 1, k - 1)
           b == SubSeq(s, k + 1, n)
           r == RemoveFirst(s, s[k])
<1>1. n \in Nat /\ DOMAIN s = 1..n /\ k \in Nat /\ k >= 1 /\ k <= n
  BY ListIs
<1>2. I = {k}
  OBVIOUS
<1>3. Min(I) = k
  BY <1>1, <1>2 DEF Min
<1>4. SelectInSeq(s, LAMBDA v : v = s[k]) = k
  BY <1>2, <1>3 DEF SelectInSeq
<1>5. r = a \o b
  BY <1>1, <1>4 DEF RemoveFirst, RemoveAt
<1>6. IsList(a) /\ Len(a) = k - 1 /\ \A i \in 1..k - 1 : a[i] = s[i]
  <2>1. a = [i \in 1..k - 1 |-> s[i]]
    BY <1>1
  <2>2. a = [i \in 1..k - 1 |-> a[i]] /\ k - 1 \in Nat /\ \A i \in 1..k - 1 : a[i] = s[i]
    BY <1>1, <2>1
  <2> HIDE DEF a
  <2> QED BY <2>2, IsAList
<1>7. IsList(b) /\ Len(b) = n - k /\ \A i \in 1..n - k : b[i] = s[k + i]
  <2> DEFINE R == Range(s)
  <2>1. \A i \in k + 1..n : s[i] \in R
    BY <1>1 DEF Range
  <2> HIDE DEF R, n
  <2>2. b \in Seq(R) /\ Len(b) = (IF k + 1 <= n THEN n - (k + 1) + 1 ELSE 0)
        /\ \A i \in 1..n - (k + 1) + 1 : b[i] = s[k + 1 + i - 1]
    <3>1. k + 1 \in Int /\ n \in Int
      BY <1>1
    <3> QED BY <2>1, <3>1, SubSeqProperties
  <2>3. Len(b) = n - k /\ \A i \in 1..n - k : b[i] = s[k + i]
    BY <1>1, <2>2
  <2> HIDE DEF b
  <2>4. b = [i \in 1..n - k |-> b[i]] /\ n - k \in Nat
    BY <1>1, <2>2, <2>3, LenProperties
  <2> QED BY <2>3, <2>4, IsAList
<1> HIDE DEF a, b, I, r, n
<1>8. /\ IsList(r) /\ Len(r) = (k - 1) + (n - k)
      /\ \A i \in 1..k - 1 : r[i] = a[i]
      /\ \A i \in 1..n - k : r[(k - 1) + i] = b[i]
  <2>1. PICK p : p = a
    OBVIOUS
  <2>2. PICK q : q = b
    OBVIOUS
  <2>3. IsList(p) /\ IsList(q)
    BY <1>6, <1>7, <2>1, <2>2
  <2>4. /\ IsList(p \o q) /\ Len(p \o q) = Len(p) + Len(q)
        /\ \A i \in 1..Len(p) : (p \o q)[i] = p[i]
        /\ \A i \in 1..Len(q) : (p \o q)[Len(p) + i] = q[i]
    BY <2>3, ConcatIs
  <2>5. r = p \o q
    BY <1>5, <2>1, <2>2
  <2> QED BY <1>6, <1>7, <2>1, <2>2, <2>4, <2>5
<1>9. ASSUME NEW i \in k..n - 1 PROVE r[i] = s[i + 1]
  <2>1. i - k + 1 \in 1..n - k /\ (k - 1) + (i - k + 1) = i /\ k + (i - k + 1) = i + 1
    BY <1>1
  <2> QED BY <1>7, <1>8, <2>1
<1>10. Len(r) = n - 1
  BY <1>1, <1>8
<1> QED BY <1>6, <1>8, <1>9, <1>10 DEF r, n

-----------------------------------------------------------------------------
(***************************************************************************)
(* Stacks.                                                                  *)
(***************************************************************************)

\* Of a module nothing changes that a call is about
Kept(md, md2, m) ==
    /\ m <= Len(md2) /\ md2[m].file = md[m].file /\ md2[m].name = md[m].name
    /\ md2[m].loading = md[m].loading /\ md2[m].initialized = md[m].initialized /\ md2[m].ran = md[m].ran

\* A call is as it should be as long as its module stays where it is and as it is.
LEMMA CallStays ==
    ASSUME NEW f, NEW ms, NEW md, NEW ms2, NEW md2, CallOK(f, ms, md),
           f.call = "load" => f.firstModule <= Len(ms2),
           f.call = "load" /\ f.firstModule < Len(ms)
                => f.firstModule < Len(ms2) /\ ms2[f.firstModule + 1] = ms[f.firstModule + 1],
           f.mp # None => Kept(md, md2, f.mp)
    PROVE  CallOK(f, ms2, md2)
<1>1. CASE IsLoad(f) /\ LoadOK(f, ms, md)
  <2>1. f.call = "load"
    BY <1>1 DEF IsLoad
  <2>2. IsWhole(f.file) /\ f.firstModule <= Len(ms2) /\ (f.mp = None <=> f.phase = "sections" /\ f.at = 1)
    BY <1>1, <2>1 DEF LoadOK
  <2>3. f.mp # None => f.mp <= Len(md2) /\ md2[f.mp].file = f.file /\ md2[f.mp].name = NameIn(f.file)
    BY <1>1 DEF LoadOK, Kept
  <2>4. f.mp # None /\ f.phase # "failed" => f.firstModule < Len(ms2) /\ ms2[f.firstModule + 1] = f.mp
    BY <1>1, <2>1 DEF LoadOK
  <2>5. f.mp # None /\ f.phase \in {"sections", "dependency"} => md2[f.mp].loading /\ ~md2[f.mp].initialized
    BY <1>1 DEF LoadOK, Kept
  <2>6. f.phase = "dependency" => f.at <= Len(f.file.sections) /\ Kind(f.file, f.at) = "dependency"
    BY <1>1 DEF LoadOK
  <2>7. f.phase = "after" =>
            \/ f.at = f.firstModule + 1 /\ ~md2[f.mp].initialized
            \/ f.at > f.firstModule + 1 /\ Done(md2, f.mp)
    BY <1>1 DEF LoadOK, Kept, Done
  <2>8. f.phase = "initializer" => f.at > f.firstModule + 1
    BY <1>1 DEF LoadOK
  <2>9. LoadOK(f, ms2, md2)
    BY <2>2, <2>3, <2>4, <2>5, <2>6, <2>7, <2>8 DEF LoadOK
  <2> QED BY <1>1, <2>9 DEF CallOK
<1>2. CASE IsRun(f) /\ RunOK(f, md)
  <2>1. f.mp # None
    BY <1>2 DEF IsRun, None
  <2> QED BY <1>2, <2>1 DEF CallOK, RunOK, Kept
<1> QED BY <1>1, <1>2 DEF CallOK

\* The calls of a stack.
LEMMA StackHas ==
    ASSUME NEW s, NEW ms, NEW md, StackOK(s, ms, md)
    PROVE  /\ IsList(s) /\ Len(s) \in Nat
           /\ \A i \in 1..Len(s) : CallOK(s[i], ms, md)
           /\ \A i \in 1..Len(s) : (s[i].call = "load" /\ IsLoad(s[i]) /\ LoadOK(s[i], ms, md))
                                   \/ (s[i].call = "initializer" /\ IsRun(s[i]) /\ RunOK(s[i], md))
           /\ s # <<>> => Len(s) \in 1..Len(s) /\ Last(s) = s[Len(s)] /\ Len(s) > 0
<1>1. IsList(s) /\ \A i \in 1..Len(s) : CallOK(s[i], ms, md)
  BY DEF StackOK
<1>2. Len(s) \in Nat /\ (s # <<>> => Last(s) = s[Len(s)] /\ Len(s) > 0)
  BY <1>1, ListIs, FrontIs
<1>3. \A i \in 1..Len(s) : (s[i].call = "load" /\ IsLoad(s[i]) /\ LoadOK(s[i], ms, md))
                           \/ (s[i].call = "initializer" /\ IsRun(s[i]) /\ RunOK(s[i], md))
  BY <1>1 DEF CallOK, IsLoad, IsRun
<1> QED BY <1>1, <1>2, <1>3

\* A call returns.
LEMMA StackPop ==
    ASSUME NEW s, NEW ms, NEW md, NEW ms2, NEW md2, StackOK(s, ms, md), s # <<>>,
           \A i \in 1..Len(s) - 1 : CallOK(s[i], ms2, md2)
    PROVE  StackOK(Front(s), ms2, md2)
<1> DEFINE t == Front(s)
<1>1. IsList(t) /\ Len(t) = Len(s) - 1 /\ (\A i \in 1..Len(s) - 1 : t[i] = s[i]) /\ Len(s) \in Nat
  BY FrontIs DEF StackOK
<1> HIDE DEF t
<1>2. \A i \in 1..Len(t) : CallOK(t[i], ms2, md2)
  BY <1>1
<1>3. \A i \in 1..Len(t) - 1 : Calls(t[i], t[i + 1])
  BY <1>1 DEF StackOK
<1>4. t # <<>> => t[1].call = "load"
  <2>1. t # <<>> => Len(t) \in Nat /\ Len(t) # 0
    BY <1>1, ListIs
  <2>2. t # <<>> => 1 \in 1..Len(s) - 1
    BY <1>1, <2>1
  <2> QED BY <1>1, <2>2 DEF StackOK
<1>5. \A i, j \in 1..Len(t) :
        i < j /\ t[i].call = "load" /\ t[j].call = "load" => t[i].firstModule < t[j].firstModule
  BY <1>1 DEF StackOK
<1> QED BY <1>1, <1>2, <1>3, <1>4, <1>5 DEF StackOK, t

\* A load goes on.
LEMMA StackSet ==
    ASSUME NEW s, NEW ms, NEW md, NEW ms2, NEW md2, StackOK(s, ms, md), s # <<>>,
           \A i \in 1..Len(s) - 1 : CallOK(s[i], ms2, md2),
           NEW f, CallOK(f, ms2, md2), f.call = "load", s[Len(s)].call = "load",
           f.file = s[Len(s)].file, f.firstModule = s[Len(s)].firstModule
    PROVE  StackOK(Append(Front(s), f), ms2, md2)
<1> DEFINE t == Append(Front(s), f)
           n == Len(s)
<1>1. /\ IsList(t) /\ Len(t) = n /\ (\A i \in 1..n - 1 : t[i] = s[i]) /\ t[n] = f
      /\ n \in Nat /\ n > 0
  BY SetTopIs, FrontIs DEF StackOK
<1> HIDE DEF t
<1>2. \A i \in 1..Len(t) : CallOK(t[i], ms2, md2)
  BY <1>1
<1>3. ASSUME NEW i \in 1..Len(t) - 1 PROVE Calls(t[i], t[i + 1])
  <2>1. Calls(s[i], s[i + 1])
    BY <1>1 DEF StackOK
  <2>2. CASE i + 1 = n
    <3>1. t[i] = s[i] /\ t[i + 1] = f /\ s[i + 1].call = "load" /\ f.file = s[i + 1].file
      BY <1>1, <2>2
    <3>2. Calls(s[i], f)
      BY <2>1, <3>1 DEF Calls
    <3> QED BY <3>1, <3>2
  <2>3. CASE i + 1 # n
    <3>1. t[i] = s[i] /\ t[i + 1] = s[i + 1]
      BY <1>1, <2>3
    <3> QED BY <2>1, <3>1
  <2> QED BY <2>2, <2>3
<1>4. t # <<>> => t[1].call = "load"
  BY <1>1 DEF StackOK
<1>5. \A i \in 1..n : t[i].call = s[i].call /\ (s[i].call = "load" => t[i].firstModule = s[i].firstModule)
  BY <1>1
<1>6. \A i, j \in 1..Len(t) :
        i < j /\ t[i].call = "load" /\ t[j].call = "load" => t[i].firstModule < t[j].firstModule
  BY <1>1, <1>5 DEF StackOK
<1> QED BY <1>1, <1>2, <1>3, <1>4, <1>6 DEF StackOK, t

\* A call is made.
LEMMA StackPush ==
    ASSUME NEW s, NEW ms, NEW md, StackOK(s, ms, md), NEW g, CallOK(g, ms, md),
           s # <<>> => Calls(s[Len(s)], g), s = <<>> => g.call = "load",
           \A i \in 1..Len(s) : s[i].call = "load" /\ g.call = "load" => s[i].firstModule < g.firstModule
    PROVE  StackOK(Append(s, g), ms, md)
<1> DEFINE t == Append(s, g)
           n == Len(s)
<1>1. /\ IsList(t) /\ Len(t) = n + 1 /\ (\A i \in 1..n : t[i] = s[i]) /\ t[n + 1] = g
      /\ n \in Nat /\ (s = <<>> <=> n = 0)
  BY AppendIs, ListIs DEF StackOK
<1> HIDE DEF t
<1>2. \A i \in 1..Len(t) : CallOK(t[i], ms, md)
  BY <1>1 DEF StackOK
<1>3. ASSUME NEW i \in 1..Len(t) - 1 PROVE Calls(t[i], t[i + 1])
  <2>1. CASE i = n
    <3>1. t[i] = s[n] /\ t[i + 1] = g /\ s # <<>>
      BY <1>1, <2>1
    <3> QED BY <3>1
  <2>2. CASE i # n
    <3>1. t[i] = s[i] /\ t[i + 1] = s[i + 1] /\ i \in 1..n - 1
      BY <1>1, <2>2
    <3> QED BY <3>1 DEF StackOK
  <2> QED BY <2>1, <2>2
<1>4. t[1].call = "load"
  BY <1>1 DEF StackOK
<1>5. ASSUME NEW i \in 1..Len(t), NEW j \in 1..Len(t), i < j, t[i].call = "load", t[j].call = "load"
      PROVE  t[i].firstModule < t[j].firstModule
  <2>1. t[i] = s[i] /\ i \in 1..n
    BY <1>1, <1>5
  <2>2. CASE j = n + 1
    BY <1>1, <1>5, <2>1, <2>2
  <2>3. CASE j # n + 1
    <3>1. t[j] = s[j] /\ j \in 1..n
      BY <1>1, <2>3
    <3> QED BY <1>5, <2>1, <3>1 DEF StackOK
  <2> QED BY <2>2, <2>3
<1> QED BY <1>1, <1>2, <1>3, <1>4, <1>5 DEF StackOK, t

\* The calls below the top wait, each for a module of its own or with the load of it.
LEMMA BelowIs ==
    ASSUME NEW s, NEW ms, NEW md, StackOK(s, ms, md), NEW i \in 1..Len(s) - 1
    PROVE  /\ s[i].mp \in 1..Len(md)
           /\ s[i].call = "load" =>
                /\ s[i].phase \in {"dependency", "initializer"}
                /\ s[i].firstModule \in Nat /\ s[i].firstModule < Len(ms) /\ ms[s[i].firstModule + 1] = s[i].mp
           /\ s[i].call # "load" => s[i].call = "initializer" /\ i - 1 \in 1..Len(s) - 1
                                    /\ s[i - 1].call = "load" /\ s[i - 1].mp = s[i].mp
<1>1. i \in 1..Len(s) /\ i + 1 \in 1..Len(s) /\ Len(s) \in Nat
  BY StackHas
<1>2. Calls(s[i], s[i + 1])
  BY DEF StackOK
<1>3. CASE s[i].call = "load"
  <2>1. IsLoad(s[i]) /\ LoadOK(s[i], ms, md)
    BY <1>1, <1>3, StackHas
  <2>2. s[i].phase \in {"dependency", "initializer"}
    BY <1>2, <1>3 DEF Calls
  <2>3. s[i].mp # None /\ s[i].phase # "failed" /\ s[i].mp \in Nat /\ s[i].firstModule \in Nat
    BY <2>1, <2>2 DEF LoadOK, IsLoad
  <2>4. s[i].mp <= Len(md) /\ s[i].firstModule < Len(ms) /\ ms[s[i].firstModule + 1] = s[i].mp
    BY <2>1, <2>3 DEF LoadOK
  <2> QED BY <1>3, <2>2, <2>3, <2>4 DEF None
<1>4. CASE s[i].call # "load"
  <2>1. s[i].call = "initializer" /\ IsRun(s[i]) /\ RunOK(s[i], md)
    BY <1>1, <1>4, StackHas
  <2>2. i # 1
    BY <1>1, <1>4 DEF StackOK
  <2>3. i - 1 \in 1..Len(s) - 1 /\ (i - 1) + 1 = i
    BY <1>1, <2>2
  <2>4. Calls(s[i - 1], s[i])
    BY <2>3 DEF StackOK
  <2>5. s[i - 1].call = "load" /\ s[i - 1].mp = s[i].mp
    BY <2>1, <2>4 DEF Calls
  <2>6. s[i].mp \in Nat \ {0} /\ s[i].mp <= Len(md)
    BY <2>1 DEF IsRun, RunOK
  <2> QED BY <1>4, <2>1, <2>3, <2>5, <2>6
<1> QED BY <1>3, <1>4

\* No module is on the list of modules (ejsAddModule) twice.
LEMMA ListedOnce ==
    ASSUME NEW ms, NEW md, ModulesOK(ms, md)
    PROVE  \A k, l \in 1..Len(ms) : ms[k] = ms[l] => k = l
BY DEF ModulesOK

\* Their modules are others than the one of the top.
LEMMA OthersDiffer ==
    ASSUME NEW s, NEW ms, NEW md, StackOK(s, ms, md), ModulesOK(ms, md), s # <<>>,
           s[Len(s)].call = "load", s[Len(s)].mp # None, s[Len(s)].phase # "failed",
           NEW i \in 1..Len(s) - 1
    PROVE  s[i].mp # s[Len(s)].mp /\ (s[i].call = "load" => s[i].firstModule < s[Len(s)].firstModule)
<1> DEFINE n == Len(s)
           t == s[n]
<1>1. n \in Nat /\ n \in 1..n /\ IsLoad(t) /\ LoadOK(t, ms, md)
  BY StackHas
<1>2. t.firstModule \in Nat /\ t.firstModule < Len(ms) /\ ms[t.firstModule + 1] = t.mp /\ Len(ms) \in Nat
  BY <1>1, ListIs DEF IsLoad, LoadOK, ModulesOK
<1> HIDE DEF t
<1>3. \A j \in 1..n - 1 : s[j].call = "load" => s[j].firstModule < t.firstModule
  BY <1>1 DEF StackOK, t
<1>4. ASSUME NEW j \in 1..n - 1, s[j].call = "load" PROVE s[j].mp # t.mp
  <2>1. s[j].firstModule \in Nat /\ s[j].firstModule < Len(ms) /\ ms[s[j].firstModule + 1] = s[j].mp
    BY <1>4, BelowIs
  <2>2. s[j].firstModule + 1 \in 1..Len(ms) /\ t.firstModule + 1 \in 1..Len(ms)
        /\ s[j].firstModule + 1 # t.firstModule + 1
    <3>1. PICK x, y, l : x = s[j].firstModule /\ y = t.firstModule /\ l = Len(ms)
      OBVIOUS
    <3>2. x \in Nat /\ y \in Nat /\ l \in Nat /\ x < l /\ y < l /\ x < y
      BY <1>2, <1>3, <1>4, <2>1, <3>1, Zenon
    <3>3. x + 1 \in 1..l /\ y + 1 \in 1..l /\ x + 1 # y + 1
      BY <3>2
    <3> QED BY <3>1, <3>3
  <2>3. \A k, l \in 1..Len(ms) : ms[k] = ms[l] => k = l
    BY ListedOnce, Zenon
  <2>4. PICK k \in 1..Len(ms), l \in 1..Len(ms) : k = s[j].firstModule + 1 /\ l = t.firstModule + 1
    BY <2>2, Zenon
  <2>5. k # l /\ ms[k] = s[j].mp /\ ms[l] = t.mp
    BY <1>2, <2>1, <2>2, <2>4
  <2> QED BY <2>3, <2>5
<1>5. s[i].call # "load" => i - 1 \in 1..n - 1 /\ s[i - 1].call = "load" /\ s[i - 1].mp = s[i].mp
  BY BelowIs
<1>6. s[i].mp # t.mp
  BY <1>4, <1>5
<1> QED BY <1>3, <1>6 DEF t

\* A load goes on with the same modules on the list.
LEMMA TopMoves ==
    ASSUME NEW s, NEW ms, NEW md, NEW md2, StackOK(s, ms, md), Listed(s, ms, md), ModulesOK(ms, md), ModulesOK(ms, md2),
           s # <<>>, s[Len(s)].call = "load", s[Len(s)].mp # None, s[Len(s)].phase # "failed",
           NEW f, IsLoad(f), f.file = s[Len(s)].file, f.mp = s[Len(s)].mp, f.firstModule = s[Len(s)].firstModule,
           LoadOK(f, ms, md2),
           Len(md2) = Len(md), \A m \in 1..Len(md) : m # f.mp => Kept(md, md2, m)
    PROVE  StackOK(Append(Front(s), f), ms, md2) /\ Listed(Append(Front(s), f), ms, md2)
<1> DEFINE n == Len(s)
           t == Append(Front(s), f)
<1>1. n \in Nat /\ n \in 1..n /\ f.call = "load"
  BY StackHas DEF IsLoad
<1>2. ASSUME NEW i \in 1..n - 1 PROVE CallOK(s[i], ms, md2)
  <2>1. CallOK(s[i], ms, md)
    BY <1>1, StackHas
  <2>2. s[i].mp # f.mp
    BY OthersDiffer
  <2>3. s[i].mp \in 1..Len(md)
    BY BelowIs
  <2>4. Kept(md, md2, s[i].mp)
    BY <2>2, <2>3
  <2>5. s[i].call = "load" => s[i].firstModule <= Len(ms)
    BY <1>1, StackHas DEF LoadOK
  <2> QED BY <2>1, <2>4, <2>5, CallStays
<1>3. CallOK(f, ms, md2)
  BY DEF CallOK
<1>4. StackOK(t, ms, md2)
  BY <1>1, <1>2, <1>3, StackSet
<1>5. Len(t) = n /\ (\A i \in 1..n - 1 : t[i] = s[i]) /\ t[n] = f
  <2>1. IsList(s)
    BY DEF StackOK
  <2> QED BY <2>1, SetTopIs
<1> HIDE DEF t
<1>6. ASSUME NEW k \in 1..Len(ms) PROVE Done(md2, ms[k]) \/ \E i \in 1..n : LoadedBy(t[i], k)
  <2>1. CASE ms[k] = f.mp
    <3>1. IsLoad(s[n]) /\ LoadOK(s[n], ms, md)
      BY <1>1, StackHas
    <3>2. s[n].firstModule < Len(ms) /\ ms[s[n].firstModule + 1] = f.mp /\ f.firstModule \in Nat /\ Len(ms) \in Nat
      BY <3>1, ListIs DEF LoadOK, IsLoad, ModulesOK
    <3>3. k = f.firstModule + 1
      BY <2>1, <3>2 DEF ModulesOK
    <3>4. LoadedBy(t[n], k)
      BY <1>1, <1>5, <3>3 DEF LoadedBy
    <3> QED BY <1>1, <3>4
  <2>2. CASE ms[k] # f.mp /\ Done(md, ms[k])
    <3>1. Kept(md, md2, ms[k])
      BY <2>2 DEF ModulesOK
    <3> QED BY <2>2, <3>1 DEF Done, Kept
  <2>3. CASE \E i \in 1..n : LoadedBy(s[i], k)
    <3>1. PICK i \in 1..n : LoadedBy(s[i], k)
      BY <2>3
    <3>2. i = n => LoadedBy(t[i], k)
      BY <1>1, <1>5, <3>1 DEF LoadedBy
    <3>3. i # n => t[i] = s[i]
      BY <1>1, <1>5
    <3> QED BY <3>1, <3>2, <3>3
  <2> QED BY <2>1, <2>2, <2>3 DEF Listed
<1> QED BY <1>4, <1>5, <1>6 DEF Listed, t

-----------------------------------------------------------------------------
(***************************************************************************)
(* Taking modules off the list.                                             *)
(***************************************************************************)
\* The list keeps what was before, and of the rest none that was the first of it
Thins(ms, ms2, first) ==
    /\ IsList(ms2) /\ first <= Len(ms2)
    /\ \A k \in 1..first : ms2[k] = ms[k]
    /\ \A k \in first + 1..Len(ms2) : \E l \in first + 2..Len(ms) : ms2[k] = ms[l]
    /\ \A k, l \in 1..Len(ms2) : ms2[k] = ms2[l] => k = l

\* Removing the first module of a load does that.
LEMMA RemovalThins ==
    ASSUME NEW ms, IsList(ms), \A k, l \in 1..Len(ms) : ms[k] = ms[l] => k = l,
           NEW first \in Nat, first < Len(ms)
    PROVE  Thins(ms, RemoveFirst(ms, ms[first + 1]), first)
<1> DEFINE r == RemoveFirst(ms, ms[first + 1])
           n == Len(ms)
<1>1. n \in Nat /\ first + 1 \in 1..n /\ (first + 1) - 1 = first
  BY ListIs
<1>2. /\ IsList(r) /\ Len(r) = n - 1
      /\ \A k \in 1..(first + 1) - 1 : r[k] = ms[k]
      /\ \A k \in first + 1..n - 1 : r[k] = ms[k + 1]
  BY <1>1, RemoveFirstIs
<1> HIDE DEF r
<1>3. \A k \in 1..first : r[k] = ms[k]
  BY <1>1, <1>2
<1>4. ASSUME NEW k \in first + 1..Len(r) PROVE \E l \in first + 2..n : r[k] = ms[l]
  <2>1. k \in first + 1..n - 1 /\ k + 1 \in first + 2..n
    BY <1>1, <1>2
  <2> QED BY <1>2, <2>1
<1>5. ASSUME NEW k \in 1..Len(r), NEW l \in 1..Len(r), r[k] = r[l] PROVE k = l
  <2>1. \A j \in 1..Len(r) : (j <= first /\ r[j] = ms[j] /\ j \in 1..n)
                             \/ (j > first /\ r[j] = ms[j + 1] /\ j + 1 \in 1..n)
    BY <1>1, <1>2, <1>3
  <2>2. CASE k <= first /\ l <= first
    BY <1>1, <1>5, <2>1, <2>2
  <2>3. CASE k > first /\ l > first
    <3>1. k + 1 = l + 1
      BY <1>5, <2>1, <2>3
    <3> QED BY <1>1, <1>2, <3>1
  <2>4. CASE k <= first /\ l > first
    <3>1. k = l + 1
      BY <1>5, <2>1, <2>4
    <3> QED BY <1>1, <1>2, <2>4, <3>1
  <2>5. CASE k > first /\ l <= first
    <3>1. k + 1 = l
      BY <1>5, <2>1, <2>5
    <3> QED BY <1>1, <1>2, <2>5, <3>1
  <2> QED BY <1>1, <1>2, <2>2, <2>3, <2>4, <2>5
<1>6. first <= Len(r)
  BY <1>1, <1>2
<1> QED BY <1>2, <1>3, <1>4, <1>5, <1>6 DEF Thins, r

\* What a load that fails does to the list is that.
LEMMA UnloadThins ==
    ASSUME NEW ms, IsList(ms), \A k, l \in 1..Len(ms) : ms[k] = ms[l] => k = l,
           NEW first \in Nat, first <= Len(ms)
    PROVE  Thins(ms, Unload(ms, first), first)
<1> DEFINE n == Len(ms)
           h == (n - first) \div 2
           Was(k) == IF k <= first THEN k ELSE 2 * k - first
           u == Unload(ms, first)
<1>1. n \in Nat /\ h \in Nat /\ 2 * h <= n - first
  BY ListIs
<1> HIDE DEF h
<1>2. u = [k \in 1..first + h |-> IF k <= first THEN ms[k] ELSE ms[2 * k - first]]
  BY DEF Unload, h
<1>3. \A k \in 1..first + h : u[k] = ms[Was(k)]
  BY <1>2
<1>4. u = [k \in 1..first + h |-> u[k]] /\ first + h \in Nat
  BY <1>1, <1>2
<1> HIDE DEF u
<1>5. IsList(u) /\ Len(u) = first + h
  BY <1>4, IsAList
<1>6. \A k \in 1..first + h : Was(k) \in 1..n /\ (k > first => Was(k) \in first + 2..n)
  BY <1>1
<1>7. \A k, l \in 1..first + h : Was(k) = Was(l) => k = l
  BY <1>1
<1>8. \A k \in 1..first : u[k] = ms[k]
  BY <1>1, <1>3
<1> HIDE DEF Was
<1>9. ASSUME NEW k \in first + 1..Len(u) PROVE \E l \in first + 2..n : u[k] = ms[l]
  <2>1. k \in 1..first + h /\ k > first
    BY <1>1, <1>5
  <2> QED BY <1>3, <1>6, <2>1
<1>10. \A k, l \in 1..Len(u) : u[k] = u[l] => k = l
  <2> SUFFICES ASSUME NEW k \in 1..Len(u), NEW l \in 1..Len(u), u[k] = u[l] PROVE k = l
    OBVIOUS
  <2>1. k \in 1..first + h /\ l \in 1..first + h
    BY <1>5
  <2>2. ms[Was(k)] = ms[Was(l)] /\ Was(k) \in 1..n /\ Was(l) \in 1..n
    BY <1>3, <1>6, <2>1
  <2>3. Was(k) = Was(l)
    BY <2>2
  <2> QED BY <1>7, <2>1, <2>3
<1>11. first <= Len(u)
  BY <1>1, <1>5
<1> QED BY <1>5, <1>8, <1>9, <1>10, <1>11 DEF Thins, u

\* Where the calls below a load are, and what is listed, when its load takes modules
\* off the list.
LEMMA Thinned ==
    ASSUME NEW s, NEW ms, NEW ms2, NEW md, StackOK(s, ms, md), ModulesOK(ms, md), Listed(s, ms, md),
           s # <<>>, s[Len(s)].call = "load", Thins(ms, ms2, s[Len(s)].firstModule)
    PROVE  /\ ModulesOK(ms2, md)
           /\ \A i \in 1..Len(s) - 1 : CallOK(s[i], ms2, md)
           /\ \A k \in 1..Len(ms2) : Done(md, ms2[k]) \/ \E i \in 1..Len(s) - 1 : LoadedBy(s[i], k)
<1> DEFINE n == Len(s)
           first == s[n].firstModule
<1>1. n \in Nat /\ n \in 1..n /\ first \in Nat
  BY StackHas DEF IsLoad
<1>2. /\ IsList(ms2) /\ first <= Len(ms2) /\ Len(ms2) \in Nat /\ Len(ms) \in Nat
      /\ \A k \in 1..first : ms2[k] = ms[k]
      /\ \A k \in first + 1..Len(ms2) : \E l \in first + 2..Len(ms) : ms2[k] = ms[l]
      /\ \A k, l \in 1..Len(ms2) : ms2[k] = ms2[l] => k = l
  BY ListIs DEF Thins, ModulesOK
<1>3. first <= Len(ms)
  BY <1>1, StackHas DEF LoadOK
<1>4. \A i \in 1..n - 1 : s[i].call = "load" => s[i].firstModule < first
  BY <1>1 DEF StackOK
<1> HIDE DEF first
<1>5. ModulesOK(ms2, md)
  <2>1. ASSUME NEW k \in 1..Len(ms2) PROVE \E l \in 1..Len(ms) : ms2[k] = ms[l]
    <3>1. CASE k <= first
      BY <1>1, <1>2, <1>3, <3>1
    <3>2. CASE k > first
      BY <1>1, <1>2, <3>2
    <3> QED BY <1>1, <1>2, <3>1, <3>2
  <2>2. \A k \in 1..Len(ms2) : ms2[k] \in 1..Len(md)
    BY <2>1 DEF ModulesOK
  <2> QED BY <1>2, <2>2 DEF ModulesOK
<1>6. ASSUME NEW i \in 1..n - 1 PROVE CallOK(s[i], ms2, md)
  <2>1. CallOK(s[i], ms, md)
    BY <1>1, StackHas
  <2>2. Kept(md, md, s[i].mp)
    BY BelowIs DEF Kept
  <2>3. s[i].call = "load" => s[i].firstModule \in Nat /\ s[i].firstModule < first
    BY <1>4, BelowIs
  <2>4. s[i].call = "load" => s[i].firstModule < Len(ms2) /\ ms2[s[i].firstModule + 1] = ms[s[i].firstModule + 1]
    BY <1>1, <1>2, <2>3
  <2>5. s[i].call = "load" => s[i].firstModule <= Len(ms2)
    BY <1>1, <1>2, <2>3
  <2> QED BY <2>1, <2>2, <2>4, <2>5, CallStays
<1>7. ASSUME NEW k \in 1..Len(ms2) PROVE Done(md, ms2[k]) \/ \E i \in 1..n - 1 : LoadedBy(s[i], k)
  <2>1. CASE k <= first
    <3>1. k \in 1..Len(ms) /\ ms2[k] = ms[k]
      BY <1>1, <1>2, <1>3, <2>1
    <3>2. ~LoadedBy(s[n], k)
      BY <1>1, <2>1 DEF LoadedBy, first
    <3>3. Done(md, ms[k]) \/ \E i \in 1..n : LoadedBy(s[i], k)
      BY <3>1 DEF Listed
    <3>4. \A i \in 1..n : i # n => i \in 1..n - 1
      BY <1>1
    <3> QED BY <3>1, <3>2, <3>3, <3>4
  <2>2. CASE k > first
    <3>1. PICK l \in first + 2..Len(ms) : ms2[k] = ms[l]
      BY <1>1, <1>2, <2>2
    <3>2. l \in 1..Len(ms)
      BY <1>1, <1>2
    <3>3. ASSUME NEW i \in 1..n, LoadedBy(s[i], l) PROVE FALSE
      <4>1. s[i].call = "load" /\ l = s[i].firstModule + 1
        BY <3>3 DEF LoadedBy
      <4>2. s[i].firstModule <= first /\ s[i].firstModule \in Nat
        BY <1>1, <1>4, <4>1, BelowIs DEF first
      <4> QED BY <1>1, <4>1, <4>2
    <3> QED BY <3>1, <3>2, <3>3 DEF Listed
  <2>3. k <= first \/ k > first
    BY <1>1, <1>2
  <2> QED BY <2>1, <2>2, <2>3
<1> QED BY <1>5, <1>6, <1>7

-----------------------------------------------------------------------------
(***************************************************************************)
(* Records.                                                                 *)
(***************************************************************************)
Frame(f, at, phase, mp, current) ==
    [call |-> "load", file |-> f.file, at |-> at, phase |-> phase, reload |-> f.reload,
     firstModule |-> f.firstModule, mp |-> mp, current |-> current]
Phases == {"sections", "dependency", "after", "initializer", "failed"}

\* A load that goes on is a load.
LEMMA FrameIs ==
    ASSUME NEW f, IsLoad(f), NEW at \in Nat \ {0}, NEW phase \in Phases, NEW mp \in Nat, NEW current
    PROVE  LET g == Frame(f, at, phase, mp, current) IN
           /\ IsLoad(g) /\ g.call = "load" /\ g.file = f.file /\ g.at = at /\ g.phase = phase
           /\ g.firstModule = f.firstModule /\ g.mp = mp /\ g.current = current
<1> DEFINE g == Frame(f, at, phase, mp, current)
<1>1. /\ g.call = "load" /\ g.file = f.file /\ g.at = at /\ g.phase = phase /\ g.reload = f.reload
      /\ g.firstModule = f.firstModule /\ g.mp = mp /\ g.current = current
  BY DEF Frame
<1>2. g = [call |-> "load", file |-> g.file, at |-> g.at, phase |-> g.phase, reload |-> g.reload,
           firstModule |-> g.firstModule, mp |-> g.mp, current |-> g.current]
  BY <1>1 DEF Frame
<1> HIDE DEF g
<1>3. f.firstModule \in Nat
  BY DEF IsLoad
<1>4. IsLoad(g)
  BY <1>1, <1>2, <1>3 DEF IsLoad, Phases
<1> QED BY <1>1, <1>4 DEF g

\* The ways in which a load goes on.
LEMMA Changes ==
    ASSUME NEW f, IsLoad(f), NEW at, NEW phase, NEW mp, NEW current
    PROVE  /\ Onward(f) = Frame(f, f.at + 1, f.phase, f.mp, f.current)
           /\ [f EXCEPT !.phase = phase] = Frame(f, f.at, phase, f.mp, f.current)
           /\ Onward([f EXCEPT !.phase = phase]) = Frame(f, f.at + 1, phase, f.mp, f.current)
           /\ Onward([f EXCEPT !.mp = mp]) = Frame(f, f.at + 1, f.phase, mp, f.current)
           /\ Onward([f EXCEPT !.current = current]) = Frame(f, f.at + 1, f.phase, f.mp, current)
           /\ [f EXCEPT !.phase = phase, !.at = at] = Frame(f, at, phase, f.mp, f.current)
           /\ [Onward(f) EXCEPT !.phase = phase] = Frame(f, f.at + 1, phase, f.mp, f.current)
<1> DEFINE Like(g) == g = [call |-> "load", file |-> g.file, at |-> g.at, phase |-> g.phase, reload |-> g.reload,
                           firstModule |-> g.firstModule, mp |-> g.mp, current |-> g.current]
<1>1. ASSUME NEW g, Like(g), NEW x
      PROVE  /\ [g EXCEPT !.at = x] = Frame(g, x, g.phase, g.mp, g.current)
             /\ [g EXCEPT !.phase = x] = Frame(g, g.at, x, g.mp, g.current)
             /\ [g EXCEPT !.mp = x] = Frame(g, g.at, g.phase, x, g.current)
             /\ [g EXCEPT !.current = x] = Frame(g, g.at, g.phase, g.mp, x)
  <2>1. [g EXCEPT !.at = x] = Frame(g, x, g.phase, g.mp, g.current)
    BY <1>1, SMT DEF Frame
  <2>2. [g EXCEPT !.phase = x] = Frame(g, g.at, x, g.mp, g.current)
    BY <1>1, SMT DEF Frame
  <2>3. [g EXCEPT !.mp = x] = Frame(g, g.at, g.phase, x, g.current)
    BY <1>1, SMT DEF Frame
  <2>4. [g EXCEPT !.current = x] = Frame(g, g.at, g.phase, g.mp, x)
    BY <1>1, SMT DEF Frame
  <2> QED BY <2>1, <2>2, <2>3, <2>4
<1>2. Like(f)
  BY DEF IsLoad
<1>3. ASSUME NEW a, NEW p, NEW m, NEW c
      PROVE  LET g == Frame(f, a, p, m, c) IN
             /\ Like(g) /\ g.at = a /\ g.phase = p /\ g.mp = m /\ g.current = c
             /\ \A x, y, z, w : Frame(g, x, y, z, w) = Frame(f, x, y, z, w)
  <2> DEFINE g == Frame(f, a, p, m, c)
  <2>1. /\ g.call = "load" /\ g.file = f.file /\ g.at = a /\ g.phase = p /\ g.reload = f.reload
        /\ g.firstModule = f.firstModule /\ g.mp = m /\ g.current = c
    BY DEF Frame
  <2>2. Like(g)
    BY <2>1 DEF Frame
  <2>3. \A x, y, z, w : Frame(g, x, y, z, w) = Frame(f, x, y, z, w)
    BY <2>1 DEF Frame
  <2> QED BY <2>1, <2>2, <2>3
<1> HIDE DEF Like
<1>4. ASSUME NEW g, Like(g) PROVE Onward(g) = Frame(g, g.at + 1, g.phase, g.mp, g.current)
  <2>1. Onward(g) = [g EXCEPT !.at = g.at + 1]
    BY DEF Onward
  <2> QED BY <1>1, <1>4, <2>1
<1>5. Onward(f) = Frame(f, f.at + 1, f.phase, f.mp, f.current)
  BY <1>2, <1>4
<1>6. [f EXCEPT !.phase = phase] = Frame(f, f.at, phase, f.mp, f.current)
  BY <1>1, <1>2
<1>7. [f EXCEPT !.mp = mp] = Frame(f, f.at, f.phase, mp, f.current)
  BY <1>1, <1>2
<1>8. [f EXCEPT !.current = current] = Frame(f, f.at, f.phase, f.mp, current)
  BY <1>1, <1>2
<1>9. ASSUME NEW a, NEW p, NEW m, NEW c
      PROVE  /\ Onward(Frame(f, a, p, m, c)) = Frame(f, a + 1, p, m, c)
             /\ \A x : [Frame(f, a, p, m, c) EXCEPT !.at = x] = Frame(f, x, p, m, c)
             /\ \A x : [Frame(f, a, p, m, c) EXCEPT !.phase = x] = Frame(f, a, x, m, c)
  <2>1. PICK g : g = Frame(f, a, p, m, c)
    OBVIOUS
  <2>2. /\ Like(g) /\ g.at = a /\ g.phase = p /\ g.mp = m /\ g.current = c
        /\ \A x, y, z, w : Frame(g, x, y, z, w) = Frame(f, x, y, z, w)
    BY <1>3, <2>1
  <2>3. Onward(g) = Frame(f, a + 1, p, m, c)
    BY <1>4, <2>2
  <2>4. ASSUME NEW x PROVE [g EXCEPT !.at = x] = Frame(f, x, p, m, c)
    <3>1. [g EXCEPT !.at = x] = Frame(g, x, g.phase, g.mp, g.current)
      BY <1>1, <2>2
    <3> QED BY <2>2, <3>1
  <2>5. ASSUME NEW x PROVE [g EXCEPT !.phase = x] = Frame(f, a, x, m, c)
    <3>1. [g EXCEPT !.phase = x] = Frame(g, g.at, x, g.mp, g.current)
      BY <1>1, <2>2
    <3> QED BY <2>2, <3>1
  <2> QED BY <2>1, <2>3, <2>4, <2>5
<1>10. Onward([f EXCEPT !.phase = phase]) = Frame(f, f.at + 1, phase, f.mp, f.current)
  BY <1>6, <1>9
<1>11. Onward([f EXCEPT !.mp = mp]) = Frame(f, f.at + 1, f.phase, mp, f.current)
  BY <1>7, <1>9
<1>12. Onward([f EXCEPT !.current = current]) = Frame(f, f.at + 1, f.phase, f.mp, current)
  BY <1>8, <1>9
<1>13. [f EXCEPT !.phase = phase, !.at = at] = Frame(f, at, phase, f.mp, f.current)
  <2>1. [f EXCEPT !.phase = phase, !.at = at] = [[f EXCEPT !.phase = phase] EXCEPT !.at = at]
    OBVIOUS
  <2>2. [Frame(f, f.at, phase, f.mp, f.current) EXCEPT !.at = at] = Frame(f, at, phase, f.mp, f.current)
    BY <1>9
  <2> QED BY <1>6, <2>1, <2>2
<1>14. [Onward(f) EXCEPT !.phase = phase] = Frame(f, f.at + 1, phase, f.mp, f.current)
  BY <1>5, <1>9
<1> QED BY <1>5, <1>6, <1>10, <1>11, <1>12, <1>13, <1>14

Changed(r, script, fixups, loading, inited, ran) ==
    [name |-> r.name, checksum |-> r.checksum, script |-> script, fixups |-> fixups, loading |-> loading,
     initialized |-> inited, ran |-> ran, version |-> r.version, file |-> r.file]

\* A module that changes is a module.
LEMMA ChangedIs ==
    ASSUME NEW r, IsModule(r), NEW script, script.does \in {"loads", "tries"} => script.module \in Modules,
           NEW fixups, IsList(fixups), NEW loading \in BOOLEAN, NEW inited \in BOOLEAN,
           NEW ran, ~inited => ran = "no"
    PROVE  LET c == Changed(r, script, fixups, loading, inited, ran) IN
           /\ IsModule(c) /\ c.name = r.name /\ c.checksum = r.checksum /\ c.file = r.file /\ c.script = script
           /\ c.fixups = fixups /\ c.loading = loading /\ c.initialized = inited /\ c.ran = ran
<1> DEFINE c == Changed(r, script, fixups, loading, inited, ran)
<1>1. /\ c.name = r.name /\ c.checksum = r.checksum /\ c.file = r.file /\ c.script = script /\ c.version = r.version
      /\ c.fixups = fixups /\ c.loading = loading /\ c.initialized = inited /\ c.ran = ran
  BY DEF Changed
<1>2. c = [name |-> c.name, checksum |-> c.checksum, script |-> c.script, fixups |-> c.fixups, loading |-> c.loading,
           initialized |-> c.initialized, ran |-> c.ran, version |-> c.version, file |-> c.file]
  BY <1>1 DEF Changed
<1> HIDE DEF c
<1>3. IsModule(c)
  BY <1>1, <1>2 DEF IsModule
<1> QED BY <1>1, <1>3 DEF c

Scripted(md, m, script) == [md EXCEPT ![m].script = script]

\* A module gets its script.
LEMMA ScriptChanges ==
    ASSUME NEW md, IsList(md), NEW m \in 1..Len(md), NEW r, r = md[m], IsModule(r), NEW script,
           NEW md2, md2 = Scripted(md, m, script)
    PROVE  md2 = Put(md, m, Changed(r, script, r.fixups, r.loading, r.initialized, r.ran))
<1>1. DOMAIN md = 1..Len(md)
  BY ListIs
<1>2. md2 = [md EXCEPT ![m] = [r EXCEPT !.script = script]]
  BY <1>1 DEF Scripted
<1>3. [r EXCEPT !.script = script] = Changed(r, script, r.fixups, r.loading, r.initialized, r.ran)
  BY SMT DEF Changed, IsModule
<1> QED BY <1>2, <1>3 DEF Put

Referring(md, m, fixups) == [md EXCEPT ![m].fixups = fixups]

\* A module gets more references that are not resolved.
LEMMA FixupsChange ==
    ASSUME NEW md, IsList(md), NEW m \in 1..Len(md), NEW r, r = md[m], IsModule(r), NEW fixups,
           NEW md2, md2 = Referring(md, m, fixups)
    PROVE  md2 = Put(md, m, Changed(r, r.script, fixups, r.loading, r.initialized, r.ran))
<1>1. DOMAIN md = 1..Len(md)
  BY ListIs
<1>2. md2 = [md EXCEPT ![m] = [r EXCEPT !.fixups = fixups]]
  BY <1>1 DEF Referring
<1>3. [r EXCEPT !.fixups = fixups] = Changed(r, r.script, fixups, r.loading, r.initialized, r.ran)
  BY SMT DEF Changed, IsModule
<1> QED BY <1>2, <1>3 DEF Put

Resolved(md, m) == [md EXCEPT ![m].loading = FALSE]

\* A module is resolved.
LEMMA LoadingChanges ==
    ASSUME NEW md, IsList(md), NEW m \in 1..Len(md), NEW r, r = md[m], IsModule(r),
           NEW md2, md2 = Resolved(md, m)
    PROVE  md2 = Put(md, m, Changed(r, r.script, r.fixups, FALSE, r.initialized, r.ran))
<1>1. DOMAIN md = 1..Len(md)
  BY ListIs
<1>2. md2 = [md EXCEPT ![m] = [r EXCEPT !.loading = FALSE]]
  BY <1>1 DEF Resolved
<1>3. ASSUME NEW x PROVE [r EXCEPT !.loading = x] = Changed(r, r.script, r.fixups, x, r.initialized, r.ran)
  BY SMT DEF Changed, IsModule
<1> QED BY <1>2, <1>3 DEF Put

Ended(md, m, ran) == [md EXCEPT ![m].ran = ran]

\* The script of a module ends.
LEMMA RanChanges ==
    ASSUME NEW md, IsList(md), NEW m \in 1..Len(md), NEW r, r = md[m], IsModule(r), NEW ran,
           NEW md2, md2 = Ended(md, m, ran)
    PROVE  md2 = Put(md, m, Changed(r, r.script, r.fixups, r.loading, r.initialized, ran))
<1>1. DOMAIN md = 1..Len(md)
  BY ListIs
<1>2. md2 = [md EXCEPT ![m] = [r EXCEPT !.ran = ran]]
  BY <1>1 DEF Ended
<1>3. [r EXCEPT !.ran = ran] = Changed(r, r.script, r.fixups, r.loading, r.initialized, ran)
  BY SMT DEF Changed, IsModule
<1> QED BY <1>2, <1>3 DEF Put

Begun(md, m, ran) == [md EXCEPT ![m].initialized = TRUE, ![m].ran = ran]

\* A module is initialized.
LEMMA InitializedChanges ==
    ASSUME NEW md, IsList(md), NEW m \in 1..Len(md), NEW r, r = md[m], IsModule(r), NEW ran,
           NEW md2, md2 = Begun(md, m, ran)
    PROVE  md2 = Put(md, m, Changed(r, r.script, r.fixups, r.loading, TRUE, ran))
<1>1. DOMAIN md = 1..Len(md)
  BY ListIs
<1>2. PICK c : c = Changed(r, r.script, r.fixups, r.loading, TRUE, r.ran)
  OBVIOUS
<1>3. /\ c.name = r.name /\ c.checksum = r.checksum /\ c.script = r.script /\ c.fixups = r.fixups /\ c.loading = r.loading
      /\ c.initialized = TRUE /\ c.ran = r.ran /\ c.version = r.version /\ c.file = r.file
  BY <1>2 DEF Changed
<1>4. c = [name |-> c.name, checksum |-> c.checksum, script |-> c.script, fixups |-> c.fixups, loading |-> c.loading,
           initialized |-> c.initialized, ran |-> c.ran, version |-> c.version, file |-> c.file]
  BY <1>2, <1>3 DEF Changed
<1>5. [c EXCEPT !.ran = ran] = Changed(c, c.script, c.fixups, c.loading, c.initialized, ran)
  BY <1>4, SMT DEF Changed
<1>6. Changed(c, c.script, c.fixups, c.loading, c.initialized, ran) = Changed(r, r.script, r.fixups, r.loading, TRUE, ran)
  BY <1>3 DEF Changed
<1>7. [r EXCEPT !.initialized = TRUE] = c
  <2>1. ASSUME NEW x PROVE [r EXCEPT !.initialized = x] = Changed(r, r.script, r.fixups, r.loading, x, r.ran)
    BY SMT DEF Changed, IsModule
  <2> QED BY <1>2, <2>1
<1>8. md2 = [[md EXCEPT ![m].initialized = TRUE] EXCEPT ![m].ran = ran]
  BY DEF Begun
<1>9. [md EXCEPT ![m].initialized = TRUE] = [md EXCEPT ![m] = [r EXCEPT !.initialized = TRUE]]
  BY <1>1
<1>10. [[md EXCEPT ![m] = c] EXCEPT ![m].ran = ran] = [md EXCEPT ![m] = [c EXCEPT !.ran = ran]]
  BY <1>1
<1> QED BY <1>5, <1>6, <1>7, <1>8, <1>9, <1>10 DEF Put

\* Modules of which one changes.
LEMMA UpdateOK ==
    ASSUME NEW ms, NEW md, ModulesOK(ms, md), NEW m \in 1..Len(md), NEW r, IsModule(r), NEW md2, md2 = Put(md, m, r)
    PROVE  /\ ModulesOK(ms, md2) /\ Len(md2) = Len(md) /\ md2[m] = r
           /\ \A n \in 1..Len(md) : n # m => md2[n] = md[n] /\ Kept(md, md2, n)
<1>1. IsList(md2) /\ Len(md2) = Len(md) /\ (\A n \in 1..Len(md) : n # m => md2[n] = md[n]) /\ md2[m] = r
  BY PutIs DEF ModulesOK
<1>2. ModulesOK(ms, md2)
  BY <1>1 DEF ModulesOK
<1>3. \A n \in 1..Len(md) : n # m => Kept(md, md2, n)
  BY <1>1 DEF Kept
<1> QED BY <1>1, <1>2, <1>3

-----------------------------------------------------------------------------
(***************************************************************************)
(* Steps of loads.                                                          *)
(***************************************************************************)
Sound(s, ms, md, ret) == StackOK(s, ms, md) /\ TopOK(s, ms, md, ret) /\ Listed(s, ms, md)

\* The call on top.
LEMMA TopHas ==
    ASSUME LInv, stack # <<>>
    PROVE  /\ IsList(stack) /\ Len(stack) \in Nat /\ Len(stack) \in 1..Len(stack) /\ Top = stack[Len(stack)]
           /\ \/ Top.call = "load" /\ IsLoad(Top) /\ LoadOK(Top, modules, mods)
              \/ Top.call = "initializer" /\ IsRun(Top) /\ RunOK(Top, mods)
           /\ TopIs(Top, modules, mods, returned)
<1>1. StackOK(stack, modules, mods) /\ TopOK(stack, modules, mods, returned)
  BY DEF LInv
<1>2. Len(stack) \in 1..Len(stack) /\ Top = stack[Len(stack)] /\ IsList(stack) /\ Len(stack) \in Nat
  BY <1>1, StackHas DEF Top
<1>3. \/ Top.call = "load" /\ IsLoad(Top) /\ LoadOK(Top, modules, mods)
      \/ Top.call = "initializer" /\ IsRun(Top) /\ RunOK(Top, mods)
  BY <1>1, <1>2, StackHas
<1> QED BY <1>1, <1>2, <1>3 DEF TopOK

\* A load goes on with the same modules on the list.
LEMMA Goes ==
    ASSUME LInv, stack # <<>>, Top.call = "load", Top.mp # None, Top.phase # "failed",
           NEW f, IsLoad(f), f.file = Top.file, f.mp = Top.mp, f.firstModule = Top.firstModule,
           NEW md, NEW ret, LoadOK(f, modules, md), ModulesOK(modules, md),
           f.phase \notin {"dependency", "initializer"},
           Len(md) = Len(mods), \A m \in 1..Len(mods) : m # f.mp => Kept(mods, md, m)
    PROVE  Sound(Append(Below, f), modules, md, ret)
<1>1. StackOK(stack, modules, mods) /\ Listed(stack, modules, mods) /\ ModulesOK(modules, mods)
  BY DEF LInv, Types
<1>2. Top = stack[Len(stack)] /\ IsList(stack)
  BY TopHas
<1>3. StackOK(Append(Front(stack), f), modules, md) /\ Listed(Append(Front(stack), f), modules, md)
  BY <1>1, <1>2, TopMoves
<1> DEFINE t == Append(Front(stack), f)
<1>4. Len(t) = Len(stack) /\ t[Len(stack)] = f
  BY <1>2, SetTopIs
<1> HIDE DEF t
<1>5. TopOK(t, modules, md, ret)
  BY <1>4 DEF TopOK, TopIs
<1> QED BY <1>3, <1>5 DEF Sound, Below, t

\* A section of a load is passed.
LEMMA SectionPassed ==
    ASSUME LInv, stack # <<>>, Top.call = "load", Top.phase \in {"sections", "dependency"}, Top.mp # None,
           NEW current, NEW md, NEW ret, ModulesOK(modules, md),
           Len(md) = Len(mods), \A m \in 1..Len(mods) : Kept(mods, md, m)
    PROVE  Sound(Append(Below, Frame(Top, Top.at + 1, "sections", Top.mp, current)), modules, md, ret)
<1>1. Top.call = "load" /\ IsLoad(Top) /\ LoadOK(Top, modules, mods)
  BY TopHas
<1>2. PICK f : f = Frame(Top, Top.at + 1, "sections", Top.mp, current)
  OBVIOUS
<1>3. Top.at \in Nat \ {0} /\ Top.at + 1 \in Nat \ {0} /\ Top.at + 1 # 1 /\ Top.mp \in Nat
  BY <1>1 DEF IsLoad
<1>4. /\ IsLoad(f) /\ f.call = "load" /\ f.file = Top.file /\ f.at = Top.at + 1 /\ f.phase = "sections"
      /\ f.firstModule = Top.firstModule /\ f.mp = Top.mp
  BY <1>1, <1>2, <1>3, FrameIs DEF Phases
<1>5. Top.mp \in 1..Len(mods) /\ Kept(mods, md, Top.mp)
  BY <1>1, <1>3 DEF LoadOK, None
<1>6. LoadOK(f, modules, md)
  BY <1>1, <1>3, <1>4, <1>5 DEF LoadOK, Kept
<1>7. Sound(Append(Below, f), modules, md, ret)
  BY <1>4, <1>6, Goes
<1> QED BY <1>2, <1>7

\* What a section is about.
LEMMA SectionHas ==
    ASSUME LInv, NEW section, At(section)
    PROVE  /\ stack # <<>> /\ Top.call = "load" /\ Top.phase = "sections" /\ returned = "no"
           /\ IsLoad(Top) /\ LoadOK(Top, modules, mods) /\ IsWhole(Top.file) /\ Top.at \in 1..Len(Top.file.sections)
           /\ Kind(Top.file, Top.at) = section
           /\ Section = Top.file.sections[Top.at]
           /\ section # "module" => Top.mp # None /\ Top.mp \in 1..Len(mods)
           /\ section = "module" => Top.mp = None /\ Top.at = 1
<1>1. stack # <<>> /\ Top.call = "load" /\ Top.phase = "sections" /\ returned = "no"
      /\ Top.at <= Len(Top.file.sections) /\ Section.section = section
  BY DEF At, Loading
<1>2. IsLoad(Top) /\ LoadOK(Top, modules, mods)
  BY <1>1, TopHas
<1>3. IsWhole(Top.file) /\ Top.at \in 1..Len(Top.file.sections)
  BY <1>1, <1>2 DEF LoadOK, IsLoad, IsWhole
<1>4. Kind(Top.file, Top.at) = section
  BY <1>1 DEF Kind, Section
<1>5. section = "module" <=> Top.at = 1
  BY <1>3, <1>4 DEF IsWhole
<1>6. section # "module" => Top.mp # None /\ Top.mp \in 1..Len(mods)
  BY <1>1, <1>2, <1>5 DEF LoadOK, IsLoad, None
<1>7. section = "module" => Top.mp = None
  BY <1>1, <1>2, <1>5 DEF LoadOK
<1> QED BY <1>1, <1>2, <1>3, <1>4, <1>5, <1>6, <1>7 DEF Section

\* What every step keeps of stack and modules.
Keeps == ModulesOK(modules', mods') /\ Sound(stack', modules', mods', returned')

\* Of modules that stay as they are nothing changes.
LEMMA Same ==
    ASSUME LInv
    PROVE  ModulesOK(modules, mods) /\ \A m \in 1..Len(mods) : Kept(mods, mods, m)
BY DEF LInv, Types, Kept

\* Sections that change nothing about modules, and the end of what is loaded.
LEMMA PlainSections ==
    ASSUME LInv, loadPropertySection \/ loadMethod \/ loadEndFunctionSection \/ loadEndClassSection
    PROVE  Keeps
<1>1. PICK section \in {"property", "function", "function_end", "class_end"} :
        /\ At(section)
        /\ stack' = Append(Below, Onward(Top)) \/ stack' = Append(Below, Onward([Top EXCEPT !.current = ""]))
        /\ UNCHANGED <<modules, mods, returned>>
  <2>1. CASE loadPropertySection
    BY <2>1 DEF loadPropertySection, SetTop
  <2>2. CASE loadMethod
    BY <2>2 DEF loadMethod, SetTop
  <2>3. CASE loadEndFunctionSection
    BY <2>3 DEF loadEndFunctionSection, SetTop, state
  <2>4. CASE loadEndClassSection
    BY <2>4 DEF loadEndClassSection, SetTop, state
  <2> QED BY <2>1, <2>2, <2>3, <2>4
<1>2. /\ stack # <<>> /\ Top.call = "load" /\ Top.phase = "sections" /\ IsLoad(Top) /\ Top.mp # None
  BY <1>1, SectionHas
<1>3. PICK current : stack' = Append(Below, Frame(Top, Top.at + 1, "sections", Top.mp, current))
  <2>1. Onward(Top) = Frame(Top, Top.at + 1, "sections", Top.mp, Top.current)
    <3>1. Onward(Top) = Frame(Top, Top.at + 1, Top.phase, Top.mp, Top.current)
      BY <1>2, Changes, Zenon
    <3> QED BY <1>2, <3>1
  <2>2. Onward([Top EXCEPT !.current = ""]) = Frame(Top, Top.at + 1, "sections", Top.mp, "")
    <3>1. Onward([Top EXCEPT !.current = ""]) = Frame(Top, Top.at + 1, Top.phase, Top.mp, "")
      BY <1>2, Changes, Zenon
    <3> QED BY <1>2, <3>1
  <2> QED BY <1>1, <2>1, <2>2
<1>4. Sound(Append(Below, Frame(Top, Top.at + 1, "sections", Top.mp, current)), modules, mods, returned)
  BY <1>2, Same, SectionPassed
<1> QED BY <1>1, <1>3, <1>4, Same DEF Keeps

\* A section that says more of the module.
LEMMA ModuleSection ==
    ASSUME LInv, NEW section, section # "module", At(section),
           NEW script, script.does \in {"loads", "tries"} => script.module \in Modules, NEW fixups, IsList(fixups),
           NEW r, r = mods[Top.mp],
           mods' = Put(mods, Top.mp, Changed(r, script, fixups, r.loading, r.initialized, r.ran)),
           NEW current, stack' = Append(Below, Frame(Top, Top.at + 1, "sections", Top.mp, current)),
           modules' = modules, returned' = returned
    PROVE  Keeps
<1>1. /\ stack # <<>> /\ Top.call = "load" /\ Top.phase = "sections" /\ Top.mp # None /\ Top.mp \in 1..Len(mods)
  BY SectionHas
<1>2. ModulesOK(modules, mods)
  BY DEF LInv, Types
<1>3. IsModule(r)
  BY <1>1, <1>2 DEF ModulesOK
<1>4. r.loading \in BOOLEAN /\ r.initialized \in BOOLEAN /\ (~r.initialized => r.ran = "no")
  BY <1>3 DEF IsModule
<1>5. PICK c : c = Changed(r, script, fixups, r.loading, r.initialized, r.ran)
  OBVIOUS
<1>6. IsModule(c) /\ c.name = r.name /\ c.file = r.file /\ c.loading = r.loading /\ c.initialized = r.initialized
      /\ c.ran = r.ran
  BY <1>3, <1>4, <1>5, ChangedIs
<1>7. mods' = Put(mods, Top.mp, c)
  BY <1>5
<1>8. /\ ModulesOK(modules, mods') /\ Len(mods') = Len(mods) /\ mods'[Top.mp] = c
      /\ \A n \in 1..Len(mods) : n # Top.mp => Kept(mods, mods', n)
  BY <1>1, <1>2, <1>6, <1>7, UpdateOK
<1>9. \A m \in 1..Len(mods) : Kept(mods, mods', m)
  <2>1. PICK md, n : md = mods' /\ n = Top.mp
    OBVIOUS
  <2>2. md[n] = c /\ mods[n] = r /\ n \in 1..Len(mods) /\ Len(md) = Len(mods)
    BY <1>1, <1>8, <2>1
  <2>3. Kept(mods, md, n)
    BY <1>6, <2>2 DEF Kept
  <2> QED BY <1>8, <2>1, <2>3
<1>10. Sound(Append(Below, Frame(Top, Top.at + 1, "sections", Top.mp, current)), modules, mods', returned)
  BY <1>1, <1>8, <1>9, SectionPassed
<1> QED BY <1>8, <1>10 DEF Keeps

\* What a module's initializer is.
LEMMA InitializerSection ==
    ASSUME LInv, loadInitializer
    PROVE  Keeps
<1>1. At("initializer") /\ mods' = [mods EXCEPT ![Top.mp].script = Section.script]
      /\ stack' = Append(Below, Onward(Top)) /\ UNCHANGED <<modules, returned>>
  BY DEF loadInitializer, SetTop
<1>2. /\ IsLoad(Top) /\ IsWhole(Top.file) /\ Top.at \in 1..Len(Top.file.sections)
      /\ Kind(Top.file, Top.at) = "initializer"
      /\ Section = Top.file.sections[Top.at] /\ Top.mp \in 1..Len(mods) /\ Top.phase = "sections"
  BY <1>1, SectionHas
<1>3. IsList(mods) /\ IsModule(mods[Top.mp])
  BY <1>2 DEF LInv, Types, ModulesOK
<1>4. PICK r, script : r = mods[Top.mp] /\ script = Section.script
  OBVIOUS
<1>5. script.does \in {"loads", "tries"} => script.module \in Modules
  BY <1>2, <1>4 DEF IsWhole
<1>6. mods' = Put(mods, Top.mp, Changed(r, script, r.fixups, r.loading, r.initialized, r.ran))
  <2>1. PICK md2, m : md2 = mods' /\ m = Top.mp
    OBVIOUS
  <2>2. m \in 1..Len(mods) /\ IsModule(r) /\ r = mods[m] /\ md2 = Scripted(mods, m, script)
    BY <1>1, <1>2, <1>3, <1>4, <2>1 DEF Scripted
  <2>3. md2 = Put(mods, m, Changed(r, script, r.fixups, r.loading, r.initialized, r.ran))
    BY <1>3, <2>2, ScriptChanges
  <2> QED BY <2>1, <2>3
<1>7. IsList(r.fixups)
  BY <1>3, <1>4 DEF IsModule
<1>8. stack' = Append(Below, Frame(Top, Top.at + 1, "sections", Top.mp, Top.current))
  BY <1>1, <1>2, Changes
<1>9. "initializer" # "module" /\ At("initializer") /\ r = mods[Top.mp] /\ modules' = modules /\ returned' = returned
  BY <1>1, <1>4
<1> QED BY <1>5, <1>6, <1>7, <1>8, <1>9, ModuleSection, Zenon

-----------------------------------------------------------------------------
(***************************************************************************)
(* References that are not resolved yet.                                    *)
(***************************************************************************)

\* Some numbers have a least.
LEMMA Least ==
    ASSUME NEW S \in SUBSET Nat, S # {}
    PROVE  \E m \in S : \A k \in S : m <= k
<1> DEFINE R == OpToRel(<, Nat)
<1>1. IsWellFoundedOn(R, Nat)
  BY NatLessThanWellFounded
<1>2. \A x, y \in Nat : x < y => <<x, y>> \in R
  BY DEF OpToRel
<1> HIDE DEF R
<1>3. PICK x \in S : \A y \in S : ~(<<y, x>> \in R)
  BY <1>1, WFMin
<1>4. \A y \in S : y \in Nat /\ x \in Nat /\ ~(y < x)
  BY <1>2, <1>3
<1> QED BY <1>3, <1>4

\* What holds of 0, and of a number after it held of the one before, holds up to n.
LEMMA UpTo ==
    ASSUME NEW n \in Nat, NEW S, 0 \in S, \A i \in 0..n : i > 0 /\ i - 1 \in S => i \in S
    PROVE  0..n \subseteq S
<1> SUFFICES ASSUME 0..n \ S # {} PROVE FALSE
  OBVIOUS
<1> DEFINE T == 0..n \ S
<1>0. T \in SUBSET Nat /\ T # {}
  OBVIOUS
<1> HIDE DEF T
<1>1. PICK m \in T : \A k \in T : m <= k
  BY <1>0, Least
<1> USE DEF T
<1>2. m > 0 /\ m - 1 \in 0..n
  BY <1>1
<1>3. m - 1 \in S
  BY <1>1, <1>2
<1> QED BY <1>1, <1>2, <1>3

\* The names that are not known are a list.
LEMMA UnknownIs ==
    ASSUME NEW names, Len(names) \in Nat
    PROVE  IsList(Unknown(names))
<1> DEFINE len == Len(names)
           Step(s, i) == IF names[i] \in DOMAIN globals THEN s ELSE Append(s, names[i])
           Rec(n, t) == t = [i \in 0..n |-> IF i = 0 THEN <<>> ELSE Step(t[i - 1], i)]
           R == CHOOSE t : Rec(len, t)
<1>1. Unknown(names) = R[len]
  BY DEF Unknown
<1>2. len \in Nat
  OBVIOUS
<1>3. \A s, i : IsList(s) => IsList(Step(s, i))
  BY AppendIs
<1> HIDE DEF Step, len, R
<1>4. 0..len \subseteq {n \in Nat : \E t : Rec(n, t)}
  <2> DEFINE S == {n \in Nat : \E t : Rec(n, t)}
  <2>1. 0 \in S
    <3> DEFINE t == [i \in 0..0 |-> <<>>]
    <3>1. Rec(0, t)
      OBVIOUS
    <3> QED BY <3>1
  <2>2. ASSUME NEW n \in 0..len, n > 0, n - 1 \in S PROVE n \in S
    <3>1. PICK t : Rec(n - 1, t)
      BY <2>2
    <3> DEFINE u == [i \in 0..n |-> IF i = n THEN Step(t[n - 1], n) ELSE t[i]]
    <3>2. n \in Nat /\ \A i \in 0..n : i # n => i \in 0..(n - 1)
      BY <1>2, <2>2
    <3>3. ASSUME NEW i \in 0..n PROVE u[i] = IF i = 0 THEN <<>> ELSE Step(u[i - 1], i)
      <4>1. CASE i = 0
        BY <2>2, <3>1, <3>2, <4>1
      <4>2. CASE i = n
        BY <2>2, <3>2, <4>2
      <4>3. CASE i # 0 /\ i # n
        <5>1. i \in 0..(n - 1) /\ i - 1 \in 0..(n - 1) /\ i - 1 # n
          BY <3>2, <4>3
        <5>2. t[i] = Step(t[i - 1], i)
          BY <3>1, <4>3, <5>1
        <5> QED BY <4>3, <5>1, <5>2
      <4> QED BY <4>1, <4>2, <4>3
    <3>4. Rec(n, u)
      BY <3>3
    <3> QED BY <3>2, <3>4
  <2> HIDE DEF S
  <2>3. 0..len \subseteq S
    BY <1>2, <2>1, <2>2, UpTo
  <2> QED BY <2>3 DEF S
<1>5. \E t : Rec(len, t)
  <2>1. len \in 0..len
    BY <1>2
  <2> QED BY <1>4, <2>1
<1>6. Rec(len, R)
  BY <1>5 DEF R
<1>7. R[0] = <<>> /\ \A i \in 1..len : R[i] = Step(R[i - 1], i)
  BY <1>2, <1>6
<1>8. 0..len \subseteq {i \in Nat : IsList(R[i])}
  <2> DEFINE S == {i \in Nat : IsList(R[i])}
  <2>1. 0 \in S
    <3>1. IsList(<<>>)
      BY DEF IsList
    <3> QED BY <1>7, <3>1
  <2>2. ASSUME NEW i \in 0..len, i > 0, i - 1 \in S PROVE i \in S
    BY <1>2, <1>3, <1>7, <2>2
  <2> HIDE DEF S
  <2>3. 0..len \subseteq S
    BY <1>2, <2>1, <2>2, UpTo
  <2> QED BY <2>3 DEF S
<1>9. IsList(R[len])
  <2>1. len \in 0..len
    BY <1>2
  <2> QED BY <1>8, <2>1
<1> QED BY <1>1, <1>9

\* A class that takes over slots is complete as before.
LEMMA TakingOver ==
    ASSUME NEW type, IsType(type), ~type.needFixup, NEW types, NEW makeRoom, NEW t,
           \/ t = fixupTypeImplements(type, types, makeRoom)
           \/ t = fixupPrototypeProperties(type, types, makeRoom)
    PROVE  IsType(t) /\ ~t.needFixup
<1>1. CASE t = fixupTypeImplements(type, types, makeRoom)
  <2>1. PICK x, y : t = [type EXCEPT !.statics = x, !.hasInstanceVars = y]
    BY <1>1, Zenon DEF fixupTypeImplements
  <2> QED BY <2>1 DEF IsType
<1>2. CASE t = fixupPrototypeProperties(type, types, makeRoom)
  <2>1. PICK x, y : t = [type EXCEPT !.prototype = x, !.numInherited = y]
    BY <1>2, Zenon DEF fixupPrototypeProperties
  <2> QED BY <2>1 DEF IsType
<1> QED BY <1>1, <1>2

\* A class that is given its base class is complete.
LEMMA TypeFixed ==
    ASSUME NEW type, IsType(type), NEW baseType, NEW types, NEW t, t = ejsFixupType(type, baseType, types, FALSE)
    PROVE  IsType(t) /\ ~t.needFixup
<1>1. PICK b : b = [type EXCEPT !.needFixup = FALSE, !.baseType = baseType,
                               !.hasInstanceVars = @ \/ types[baseType].hasInstanceVars]
  OBVIOUS
<1>2. IsType(b) /\ ~b.needFixup
  <2>1. PICK x : b = [type EXCEPT !.needFixup = FALSE, !.baseType = baseType, !.hasInstanceVars = x]
    BY <1>1, Zenon
  <2> QED BY <2>1 DEF IsType
<1>3. PICK m : m = IF type.implements = <<>> THEN b ELSE fixupTypeImplements(b, types, FALSE)
  OBVIOUS
<1>4. IsType(m) /\ ~m.needFixup
  <2>1. m = b \/ m = fixupTypeImplements(b, types, FALSE)
    BY <1>3
  <2> QED BY <1>2, <2>1, TakingOver
<1>5. t = m \/ t = fixupPrototypeProperties(m, types, FALSE)
  BY <1>1, <1>3, Zenon DEF ejsFixupType
<1> QED BY <1>4, <1>5, TakingOver

\* A class is complete from the beginning if it is given its base class, or needs none.
LEMMA TypeCreated ==
    ASSUME NEW bare, IsType(bare), NEW n, NEW m, NEW baseType, NEW types, NEW t,
           t = ejsCreateType(bare, n, m, baseType, types)
    PROVE  IsType(t) /\ (baseType # "" \/ ~bare.needFixup => ~t.needFixup)
<1>1. PICK b : b = [bare EXCEPT !.statics = Blanks(n), !.prototype = Blanks(m)]
  OBVIOUS
<1>2. IsType(b) /\ (~bare.needFixup => ~b.needFixup)
  <2>1. "needFixup" \in DOMAIN b /\ b["needFixup"] = bare["needFixup"]
    BY <1>1 DEF IsType
  <2> QED BY <2>1, Zenon DEF IsType
<1>3. t = IF baseType = "" THEN b ELSE ejsFixupType(b, baseType, types, FALSE)
  BY <1>1, Zenon DEF ejsCreateType
<1>4. CASE baseType = ""
  BY <1>2, <1>3, <1>4, Zenon
<1>5. CASE baseType # ""
  <2>1. t = ejsFixupType(b, baseType, types, FALSE)
    BY <1>3, <1>5
  <2> QED BY <1>2, <2>1, TypeFixed
<1> QED BY <1>4, <1>5

\* What a class adds.  It waits for its base class, or is complete.
LEMMA ClassAdds ==
    ASSUME LInv, loadClassSection
    PROVE  \E fixups, type :
        /\ IsList(fixups) /\ IsType(type)
        /\ type.needFixup =>
            Len(fixups) > 0 /\ fixups[Len(fixups)].kind = "base" /\ fixups[Len(fixups)].target = Section.name
        /\ globals' = [c \in DOMAIN globals \cup {Section.name} |-> IF c = Section.name THEN type ELSE globals[c]]
        /\ mods' = [mods EXCEPT ![Top.mp].fixups = @ \o fixups]
        /\ stack' = Append(Below, Onward([Top EXCEPT !.current = Section.name]))
        /\ UNCHANGED <<modules, returned, clean>>
<1> DEFINE base == Section.baseType
           forward == base # "" /\ base \notin DOMAIN globals
           needFixup == Section.fixup \/ forward \/ (base # "" /\ globals[base].needFixup)
           bare == [Object EXCEPT !.isInterface = Section.isInterface, !.hasInstanceVars = Section.hasInstanceVars,
                                  !.needFixup = needFixup]
           type == ejsCreateType(bare, Section.numTypeProp, Section.numInstanceProp, IF needFixup THEN "" ELSE base, globals)
           known == SelectSeq(Section.implements, LAMBDA n : n \in DOMAIN globals)
           class == [type EXCEPT !.implements = known]
           unknown == Unknown(Section.implements)
           some == [i \in DOMAIN unknown |-> Fixup("interface", Section.name, unknown[i])]
           last == IF needFixup THEN <<Fixup("base", Section.name, IF forward THEN base ELSE "Object")>> ELSE <<>>
<1>1. /\ At("class")
      /\ globals' = [c \in DOMAIN globals \cup {Section.name} |-> IF c = Section.name THEN class ELSE globals[c]]
      /\ mods' = [mods EXCEPT ![Top.mp].fixups = @ \o (some \o last)]
      /\ stack' = Append(Below, Onward([Top EXCEPT !.current = Section.name]))
      /\ UNCHANGED <<modules, returned, clean>>
  BY Zenon DEF loadClassSection, addFixups, SetTop
<1>2. IsList(some)
  <2>1. Len(Section.implements) \in Nat
    BY <1>1, SectionHas DEF IsWhole
  <2>2. IsList(unknown)
    BY <2>1, UnknownIs
  <2>3. DOMAIN unknown = 1..Len(unknown) /\ Len(unknown) \in Nat
    BY <2>2, ListIs
  <2> HIDE DEF unknown
  <2>4. some = [i \in 1..Len(unknown) |-> some[i]]
    BY <2>3
  <2> QED BY <2>3, <2>4, IsAList
<1>3. IsList(last) /\ (needFixup => Len(last) = 1 /\ last[1].kind = "base" /\ last[1].target = Section.name)
  <2>1. CASE needFixup
    <3>1. PICK x : x = Fixup("base", Section.name, IF forward THEN base ELSE "Object")
      OBVIOUS
    <3>2. x.kind = "base" /\ x.target = Section.name
      BY <3>1 DEF Fixup
    <3>3. last = <<x>>
      BY <2>1, <3>1
    <3> HIDE DEF last, needFixup
    <3>4. last = [i \in 1..1 |-> last[i]] /\ last[1] = x /\ 1 \in Nat
      BY <3>3
    <3>5. IsList(last) /\ Len(last) = 1
      BY <3>4, IsAList
    <3> QED BY <3>2, <3>4, <3>5
  <2>2. CASE ~needFixup
    <3>1. last = <<>>
      BY <2>2
    <3>2. IsList(<<>>)
      BY DEF IsList
    <3> QED BY <2>2, <3>1, <3>2, Zenon
  <2> QED BY <2>1, <2>2
<1>4. IsType(type) /\ (~needFixup => ~type.needFixup)
  <2>1. IsType(bare) /\ (~needFixup => ~bare.needFixup)
    BY DEF IsType, Object
  <2>2. PICK t, b, x : t = type /\ b = bare /\ x = (IF needFixup THEN "" ELSE base)
    OBVIOUS
  <2>3. t = ejsCreateType(b, Section.numTypeProp, Section.numInstanceProp, x, globals)
    BY <2>2
  <2>4. IsType(b) /\ (~needFixup => ~b.needFixup)
    BY <2>1, <2>2
  <2> HIDE DEF type, bare, needFixup
  <2>5. IsType(t) /\ (x # "" \/ ~b.needFixup => ~t.needFixup)
    <3>1. PICK p, q, g : p = Section.numTypeProp /\ q = Section.numInstanceProp /\ g = globals
      OBVIOUS
    <3>2. t = ejsCreateType(b, p, q, x, g)
      BY <2>3, <3>1
    <3>3. IsType(b)
      BY <2>4
    <3> QED BY <3>2, <3>3, TypeCreated, ZenonT(60)
  <2> QED BY <2>2, <2>4, <2>5
<1>5. IsType(class) /\ (~needFixup => ~class.needFixup)
  <2> HIDE DEF type, known, needFixup
  <2> QED BY <1>4 DEF IsType
<1> HIDE DEF needFixup, some, last, class
<1>6. PICK a, b : a = some /\ b = last
  OBVIOUS
<1>7. IsList(a \o b) /\ (needFixup => Len(a \o b) > 0 /\ (a \o b)[Len(a \o b)].kind = "base"
                                      /\ (a \o b)[Len(a \o b)].target = Section.name)
  <2>1. IsList(a) /\ IsList(b) /\ (needFixup => Len(b) = 1 /\ b[1].kind = "base" /\ b[1].target = Section.name)
    BY <1>2, <1>3, <1>6
  <2>2. IsList(a \o b) /\ Len(a \o b) = Len(a) + Len(b) /\ \A i \in 1..Len(b) : (a \o b)[Len(a) + i] = b[i]
    BY <2>1, ConcatIs
  <2>3. Len(a) \in Nat
    BY <2>1, ListIs
  <2>4. ASSUME needFixup PROVE Len(a \o b) > 0 /\ (a \o b)[Len(a \o b)] = b[1]
    <3>0. Len(b) = 1
      BY <2>1, <2>4, Zenon
    <3>1. 1 \in 1..Len(b) /\ Len(a \o b) = Len(a) + 1
      BY <2>2, <3>0
    <3>2. (a \o b)[Len(a) + 1] = b[1]
      BY <2>2, <3>1
    <3> QED BY <2>3, <3>1, <3>2
  <2> QED BY <2>1, <2>2, <2>4
<1>8. PICK f, t : f = a \o b /\ t = class
  OBVIOUS
<1>9. IsList(f) /\ IsType(t)
      /\ (t.needFixup => Len(f) > 0 /\ f[Len(f)].kind = "base" /\ f[Len(f)].target = Section.name)
  BY <1>5, <1>7, <1>8
<1>10. /\ globals' = [c \in DOMAIN globals \cup {Section.name} |-> IF c = Section.name THEN t ELSE globals[c]]
       /\ mods' = [mods EXCEPT ![Top.mp].fixups = @ \o f]
       /\ stack' = Append(Below, Onward([Top EXCEPT !.current = Section.name]))
       /\ UNCHANGED <<modules, returned, clean>>
  BY <1>1, <1>6, <1>8, Zenon
<1> QED BY <1>9, <1>10

\* A class.
LEMMA ClassSection ==
    ASSUME LInv, loadClassSection
    PROVE  Keeps
<1>1. At("class")
  BY DEF loadClassSection
<1>2. PICK fixups, type :
        /\ IsList(fixups)
        /\ mods' = [mods EXCEPT ![Top.mp].fixups = @ \o fixups]
        /\ stack' = Append(Below, Onward([Top EXCEPT !.current = Section.name]))
        /\ UNCHANGED <<modules, returned>>
  BY ClassAdds
<1>3. /\ IsLoad(Top) /\ Top.mp \in 1..Len(mods) /\ Top.phase = "sections"
  BY <1>1, SectionHas
<1>4. IsList(mods) /\ IsModule(mods[Top.mp])
  BY <1>3 DEF LInv, Types, ModulesOK
<1>5. PICK r, md2, m, f : r = mods[Top.mp] /\ md2 = mods' /\ m = Top.mp /\ f = r.fixups \o fixups
  OBVIOUS
<1>6. IsModule(r) /\ IsList(r.fixups) /\ (r.script.does \in {"loads", "tries"} => r.script.module \in Modules)
  BY <1>4, <1>5 DEF IsModule
<1>7. IsList(f)
  BY <1>2, <1>5, <1>6, ConcatIs
<1>8. md2 = Put(mods, m, Changed(r, r.script, f, r.loading, r.initialized, r.ran))
  <2>1. m \in 1..Len(mods) /\ r = mods[m] /\ IsList(mods) /\ IsModule(r)
    BY <1>3, <1>4, <1>5, <1>6
  <2>2. md2 = Referring(mods, m, f)
    BY <1>2, <1>5 DEF Referring
  <2> QED BY <2>1, <2>2, FixupsChange
<1>9. stack' = Append(Below, Frame(Top, Top.at + 1, "sections", Top.mp, Section.name))
  <2>1. PICK c : c = Section.name
    OBVIOUS
  <2>2. Onward([Top EXCEPT !.current = c]) = Frame(Top, Top.at + 1, Top.phase, Top.mp, c)
    BY <1>3, Changes, Zenon
  <2>3. Frame(Top, Top.at + 1, Top.phase, Top.mp, c) = Frame(Top, Top.at + 1, "sections", Top.mp, Section.name)
    BY <1>3, <2>1
  <2> QED BY <1>2, <2>1, <2>2, <2>3, Zenon
<1>10. /\ "class" # "module" /\ r = mods[Top.mp] /\ modules' = modules /\ returned' = returned
       /\ mods' = Put(mods, Top.mp, Changed(r, r.script, f, r.loading, r.initialized, r.ran))
  BY <1>2, <1>5, <1>8
<1> QED BY <1>1, <1>6, <1>7, <1>9, <1>10, ModuleSection, Zenon

\* A section that cannot be loaded.
LEMMA FailsKeeps ==
    ASSUME LInv, stack # <<>>, Top.call = "load", Top.phase \in {"sections", "dependency"}, Top.mp # None,
           SectionFails, mods' = mods
    PROVE  Keeps
<1>1. Top.call = "load" /\ IsLoad(Top) /\ LoadOK(Top, modules, mods)
  BY TopHas
<1>2. ModulesOK(modules, mods) /\ StackOK(stack, modules, mods) /\ Listed(stack, modules, mods)
  BY DEF LInv, Types
<1>3. Len(stack) \in Nat /\ Len(stack) \in 1..Len(stack) /\ Top = stack[Len(stack)] /\ IsList(stack)
  BY TopHas
<1>4. Top.firstModule \in Nat /\ Top.firstModule < Len(modules) /\ modules[Top.firstModule + 1] = Top.mp
      /\ Top.mp \in Nat /\ Top.at \in Nat \ {0} /\ IsList(modules)
  BY <1>1, <1>2 DEF LoadOK, IsLoad, ModulesOK
<1>5. modules' = RemoveFirst(modules, modules[Top.firstModule + 1])
  BY <1>4 DEF SectionFails
<1>6. Thins(modules, modules', Top.firstModule)
  BY <1>2, <1>4, <1>5, RemovalThins DEF ModulesOK
<1>7. PICK ms2 : ms2 = modules'
  OBVIOUS
<1>8. /\ ModulesOK(ms2, mods)
      /\ \A i \in 1..Len(stack) - 1 : CallOK(stack[i], ms2, mods)
      /\ \A k \in 1..Len(ms2) : Done(mods, ms2[k]) \/ \E i \in 1..Len(stack) - 1 : LoadedBy(stack[i], k)
  BY <1>1, <1>2, <1>3, <1>6, <1>7, Thinned
<1>9. PICK f : f = Frame(Top, Top.at, "failed", Top.mp, Top.current)
  OBVIOUS
<1>10. /\ IsLoad(f) /\ f.call = "load" /\ f.file = Top.file /\ f.phase = "failed"
       /\ f.firstModule = Top.firstModule /\ f.mp = Top.mp
  BY <1>1, <1>4, <1>9, FrameIs DEF Phases
<1>11. stack' = Append(Front(stack), f)
  <2>1. [Top EXCEPT !.phase = "failed"] = Frame(Top, Top.at, "failed", Top.mp, Top.current)
    BY <1>1, Changes, Zenon
  <2> QED BY <1>9, <2>1, Zenon DEF SectionFails, SetTop, Below
<1>12. LoadOK(f, ms2, mods)
  <2>1. f.firstModule <= Len(ms2)
    BY <1>6, <1>7, <1>10 DEF Thins
  <2> QED BY <1>1, <1>10, <2>1 DEF LoadOK
<1>13. StackOK(Append(Front(stack), f), ms2, mods)
  <2>1. CallOK(f, ms2, mods)
    BY <1>10, <1>12 DEF CallOK
  <2> QED BY <1>1, <1>2, <1>3, <1>8, <1>10, <2>1, StackSet
<1>14. PICK s2 : s2 = Append(Front(stack), f)
  OBVIOUS
<1>15. Len(s2) = Len(stack) /\ (\A i \in 1..Len(stack) - 1 : s2[i] = stack[i]) /\ s2[Len(stack)] = f
  BY <1>3, <1>14, SetTopIs
<1>16. TopOK(s2, ms2, mods, returned')
  BY <1>10, <1>15 DEF TopOK, TopIs
<1>17. Listed(s2, ms2, mods)
  BY <1>3, <1>8, <1>15 DEF Listed
<1>18. stack' = s2 /\ modules' = ms2 /\ mods' = mods
  BY <1>7, <1>11, <1>14
<1> QED BY <1>8, <1>13, <1>14, <1>16, <1>17, <1>18 DEF Keeps, Sound

\* A dependency that is there, and one that was loaded.
LEMMA DependencySections ==
    ASSUME LInv, DependencyThere \/ DependencyLoaded \/ DependencyFails
    PROVE  Keeps
<1>1. /\ stack # <<>> /\ Top.call = "load" /\ Top.phase \in {"sections", "dependency"} /\ IsLoad(Top) /\ Top.mp # None
  <2>1. CASE DependencyThere
    <3>1. At("dependency")
      BY <2>1 DEF DependencyThere
    <3> QED BY <3>1, SectionHas
  <2>2. CASE DependencyLoaded \/ DependencyFails
    <3>1. stack # <<>> /\ Top.call = "load" /\ Top.phase = "dependency"
      BY <2>2 DEF DependencyLoaded, DependencyFails, Loading
    <3>2. IsLoad(Top) /\ LoadOK(Top, modules, mods)
      BY <3>1, TopHas
    <3> QED BY <3>1, <3>2 DEF LoadOK
  <2> QED BY <2>1, <2>2
<1>2. mods' = mods /\ (SectionFails \/ (modules' = modules /\ stack' = Append(Below, Onward([Top EXCEPT !.phase = "sections"]))))
  <2>1. CASE DependencyThere
    BY <2>1 DEF DependencyThere, Depends, SetTop
  <2>2. CASE DependencyLoaded
    BY <2>2 DEF DependencyLoaded, Depends, SetTop
  <2>3. CASE DependencyFails
    BY <2>3 DEF DependencyFails
  <2> QED BY <2>1, <2>2, <2>3
<1>3. CASE SectionFails
  BY <1>1, <1>2, <1>3, FailsKeeps
<1>4. CASE modules' = modules /\ stack' = Append(Below, Onward([Top EXCEPT !.phase = "sections"]))
  <2>1. Onward([Top EXCEPT !.phase = "sections"]) = Frame(Top, Top.at + 1, "sections", Top.mp, Top.current)
    BY <1>1, Changes, Zenon
  <2>2. stack' = Append(Below, Frame(Top, Top.at + 1, "sections", Top.mp, Top.current))
    BY <1>4, <2>1, Zenon
  <2>3. Sound(Append(Below, Frame(Top, Top.at + 1, "sections", Top.mp, Top.current)), modules, mods, returned')
    BY <1>1, Same, SectionPassed
  <2> QED BY <1>2, <1>4, <2>2, <2>3, Same DEF Keeps
<1> QED BY <1>2, <1>3, <1>4

\* The end of the sections.
LEMMA EndSection ==
    ASSUME LInv, loadEndModuleSection
    PROVE  Keeps
<1>1. At("module_end") /\ stack' = Append(Below, [Top EXCEPT !.phase = "after", !.at = Top.firstModule + 1])
      /\ UNCHANGED <<modules, mods, returned>>
  BY DEF loadEndModuleSection, SetTop, state
<1>2. /\ stack # <<>> /\ Top.call = "load" /\ Top.phase = "sections" /\ IsLoad(Top) /\ LoadOK(Top, modules, mods)
      /\ Top.mp # None
  BY <1>1, SectionHas
<1>3. PICK f : f = Frame(Top, Top.firstModule + 1, "after", Top.mp, Top.current)
  OBVIOUS
<1>4. Top.firstModule \in Nat /\ Top.firstModule + 1 \in Nat \ {0} /\ Top.mp \in Nat
  BY <1>2 DEF IsLoad
<1>5. /\ IsLoad(f) /\ f.call = "load" /\ f.file = Top.file /\ f.at = Top.firstModule + 1 /\ f.phase = "after"
      /\ f.firstModule = Top.firstModule /\ f.mp = Top.mp
  BY <1>2, <1>3, <1>4, FrameIs DEF Phases
<1>6. LoadOK(f, modules, mods)
  BY <1>2, <1>5 DEF LoadOK
<1>7. Sound(Append(Below, f), modules, mods, returned)
  BY <1>2, <1>5, <1>6, Same, Goes
<1>8. stack' = Append(Below, f)
  <2>1. [Top EXCEPT !.phase = "after", !.at = Top.firstModule + 1]
          = Frame(Top, Top.firstModule + 1, "after", Top.mp, Top.current)
    BY <1>2, Changes, Zenon
  <2> QED BY <1>1, <1>3, <2>1, Zenon
<1> QED BY <1>1, <1>7, <1>8, Same DEF Keeps

\* The module of a file is made.
LEMMA ModuleMade ==
    ASSUME LInv, loadModuleSection
    PROVE  Keeps
<1> DEFINE n == Len(mods) + 1
           r == [name |-> Section.name, checksum |-> Section.checksum, script |-> [does |-> "nothing"],
                 fixups |-> <<>>, loading |-> TRUE, initialized |-> FALSE, ran |-> "no",
                 version |-> Top.file.version, file |-> Top.file]
<1>1. /\ At("module") /\ mods' = Append(mods, r) /\ modules' = Append(modules, Len(mods'))
      /\ stack' = Append(Below, Onward([Top EXCEPT !.mp = Len(mods')])) /\ returned' = returned
  BY DEF loadModuleSection, SetTop
<1>2. /\ stack # <<>> /\ Top.call = "load" /\ Top.phase = "sections" /\ IsLoad(Top) /\ LoadOK(Top, modules, mods)
      /\ Top.mp = None /\ Top.at = 1 /\ Section = Top.file.sections[1]
  BY <1>1, SectionHas
<1>3. ModulesOK(modules, mods) /\ StackOK(stack, modules, mods) /\ Listed(stack, modules, mods)
  BY DEF LInv, Types
<1>4. Len(stack) \in Nat /\ Len(stack) \in 1..Len(stack) /\ Top = stack[Len(stack)] /\ IsList(stack)
      /\ TopIs(Top, modules, mods, returned)
  BY <1>2, TopHas
<1>5. Top.firstModule = Len(modules)
  BY <1>2, <1>4 DEF TopIs
<1>6. IsModule(r) /\ r.file = Top.file /\ r.name = NameIn(Top.file) /\ r.loading /\ ~r.initialized
  <2>1. IsList(<<>>)
    BY DEF IsList
  <2> QED BY <1>2, <2>1 DEF IsModule, NameIn
<1>7. PICK q : q = r
  OBVIOUS
<1> HIDE DEF r
<1>8. PICK md, ms : md = Append(mods, q) /\ ms = Append(modules, Len(md))
  OBVIOUS
<1>9. /\ IsList(md) /\ Len(md) = n /\ n \in Nat /\ md[n] = q
      /\ \A i \in 1..Len(mods) : md[i] = mods[i]
      /\ Len(mods) \in Nat
  BY <1>3, <1>8, ListIs, AppendIs DEF ModulesOK
<1>10. /\ IsList(ms) /\ Len(ms) = Len(modules) + 1 /\ ms[Len(modules) + 1] = n
       /\ \A i \in 1..Len(modules) : ms[i] = modules[i]
       /\ Len(modules) \in Nat
  BY <1>3, <1>8, <1>9, ListIs, AppendIs DEF ModulesOK
<1>11. \A i \in 1..Len(mods) : Kept(mods, md, i)
  BY <1>9 DEF Kept
<1>12. ModulesOK(ms, md)
  <2>1. \A m \in 1..Len(md) : IsModule(md[m])
    BY <1>3, <1>6, <1>7, <1>9 DEF ModulesOK
  <2>2. \A k \in 1..Len(ms) : ms[k] \in 1..Len(md)
    BY <1>3, <1>9, <1>10 DEF ModulesOK
  <2>3. \A k, l \in 1..Len(ms) : ms[k] = ms[l] => k = l
    BY <1>3, <1>9, <1>10 DEF ModulesOK
  <2> QED BY <1>9, <1>10, <2>1, <2>2, <2>3 DEF ModulesOK
<1>13. \A i \in 1..Len(stack) - 1 : CallOK(stack[i], ms, md)
  <2> SUFFICES ASSUME NEW i \in 1..Len(stack) - 1 PROVE CallOK(stack[i], ms, md)
    OBVIOUS
  <2>1. CallOK(stack[i], modules, mods)
    BY <1>3, <1>4, StackHas
  <2>2. Kept(mods, md, stack[i].mp)
    BY <1>3, <1>11, BelowIs
  <2>3. stack[i].call = "load" => stack[i].firstModule \in Nat /\ stack[i].firstModule < Len(modules)
    BY <1>3, BelowIs
  <2>4. stack[i].call = "load" =>
          stack[i].firstModule < Len(ms) /\ ms[stack[i].firstModule + 1] = modules[stack[i].firstModule + 1]
    <3> SUFFICES ASSUME stack[i].call = "load"
                 PROVE  stack[i].firstModule < Len(ms)
                        /\ ms[stack[i].firstModule + 1] = modules[stack[i].firstModule + 1]
      OBVIOUS
    <3>1. PICK k : k = stack[i].firstModule + 1
      OBVIOUS
    <3>2. k \in 1..Len(modules) /\ stack[i].firstModule < Len(ms)
      BY <1>10, <2>3, <3>1
    <3>3. ms[k] = modules[k]
      BY <1>10, <3>2
    <3> QED BY <3>1, <3>2, <3>3
  <2>5. stack[i].call = "load" => stack[i].firstModule <= Len(ms)
    BY <1>10, <2>3
  <2> QED BY <2>1, <2>2, <2>4, <2>5, CallStays
<1>14. PICK f : f = Frame(Top, Top.at + 1, "sections", n, Top.current)
  OBVIOUS
<1>15. /\ IsLoad(f) /\ f.call = "load" /\ f.file = Top.file /\ f.at = 2 /\ f.phase = "sections"
       /\ f.firstModule = Top.firstModule /\ f.mp = n
  <2>1. Top.at + 1 \in Nat \ {0} /\ Top.at + 1 = 2
    BY <1>2
  <2> QED BY <1>2, <1>9, <1>14, <2>1, FrameIs DEF Phases
<1>16. LoadOK(f, ms, md)
  <2>1. f.firstModule <= Len(ms) /\ f.firstModule < Len(ms) /\ ms[f.firstModule + 1] = f.mp
    BY <1>5, <1>10, <1>15
  <2>2. md[f.mp].file = f.file /\ md[f.mp].name = NameIn(f.file) /\ md[f.mp].loading /\ ~md[f.mp].initialized
    BY <1>6, <1>7, <1>9, <1>15
  <2>3. f.mp <= Len(md) /\ f.mp # None
    BY <1>9, <1>15 DEF None
  <2> QED BY <1>2, <1>15, <2>1, <2>2, <2>3 DEF LoadOK
<1>17. StackOK(Append(Front(stack), f), ms, md)
  <2>1. CallOK(f, ms, md)
    BY <1>15, <1>16 DEF CallOK
  <2> QED BY <1>2, <1>3, <1>4, <1>13, <1>15, <2>1, StackSet
<1>18. PICK s2 : s2 = Append(Front(stack), f)
  OBVIOUS
<1>19. Len(s2) = Len(stack) /\ (\A i \in 1..Len(stack) - 1 : s2[i] = stack[i]) /\ s2[Len(stack)] = f
  BY <1>2, <1>4, <1>18, SetTopIs
<1>20. TopOK(s2, ms, md, returned)
  BY <1>9, <1>15, <1>19 DEF TopOK, TopIs, None
<1>21. Listed(s2, ms, md)
  <2> SUFFICES ASSUME NEW k \in 1..Len(ms) PROVE Done(md, ms[k]) \/ \E i \in 1..Len(s2) : LoadedBy(s2[i], k)
    BY DEF Listed
  <2>1. CASE k = Len(modules) + 1
    <3>1. LoadedBy(f, k)
      BY <1>5, <1>9, <1>15, <2>1 DEF LoadedBy, None
    <3> QED BY <1>4, <1>19, <3>1
  <2>2. CASE k # Len(modules) + 1
    <3>1. k \in 1..Len(modules) /\ ms[k] = modules[k] /\ modules[k] \in 1..Len(mods)
      BY <1>3, <1>10, <2>2 DEF ModulesOK
    <3>2. Done(mods, modules[k]) => Done(md, ms[k])
      BY <1>11, <3>1 DEF Done, Kept
    <3>3. ~LoadedBy(stack[Len(stack)], k)
      BY <1>2, <1>4 DEF LoadedBy
    <3>4. Done(mods, modules[k]) \/ \E i \in 1..Len(stack) : LoadedBy(stack[i], k)
      BY <1>3, <3>1 DEF Listed
    <3>5. \A i \in 1..Len(stack) : i = Len(stack) \/ (i \in 1..Len(stack) - 1 /\ i \in 1..Len(s2))
      BY <1>4, <1>19
    <3> QED BY <1>19, <3>2, <3>3, <3>4, <3>5
  <2> QED BY <2>1, <2>2
<1>22. mods' = md /\ modules' = ms /\ stack' = s2
  <2>1. mods' = md /\ modules' = ms
    BY <1>1, <1>7, <1>8
  <2>2. PICK m : m = Len(mods')
    OBVIOUS
  <2>3. m = n
    BY <1>9, <2>1, <2>2
  <2>4. Onward([Top EXCEPT !.mp = m]) = Frame(Top, Top.at + 1, Top.phase, m, Top.current)
    BY <1>2, Changes, Zenon
  <2>5. stack' = Append(Below, Frame(Top, Top.at + 1, Top.phase, m, Top.current))
    BY <1>1, <2>2, <2>4, Zenon
  <2>6. Frame(Top, Top.at + 1, Top.phase, m, Top.current) = f
    BY <1>2, <1>14, <2>3
  <2> QED BY <1>18, <2>1, <2>5, <2>6, Zenon DEF Below
<1> QED BY <1>1, <1>12, <1>17, <1>18, <1>20, <1>21, <1>22 DEF Keeps, Sound

\* A load that begins.
LEMMA LoadBegins ==
    ASSUME NEW s, NEW md, NEW ms, StackOK(s, ms, md), Listed(s, ms, md), IsList(ms),
           NEW g, g = [call |-> "load", file |-> g.file, at |-> 1, phase |-> "sections", reload |-> g.reload,
                       firstModule |-> Len(ms), mp |-> None, current |-> g.current],
           IsWhole(g.file), s # <<>> => Calls(s[Len(s)], g),
           \A i \in 1..Len(s) : s[i].call = "load" => s[i].firstModule < Len(ms),
           NEW ret
    PROVE  Sound(Append(s, g), ms, md, ret)
<1>1. /\ g.call = "load" /\ g.at = 1 /\ g.phase = "sections" /\ g.firstModule = Len(ms) /\ g.mp = None
  OBVIOUS
<1>2. Len(ms) \in Nat
  BY ListIs
<1>3. IsLoad(g)
  BY <1>1, <1>2 DEF IsLoad, None
<1>4. LoadOK(g, ms, md)
  BY <1>1, <1>2 DEF LoadOK
<1>5. CallOK(g, ms, md)
  BY <1>3, <1>4 DEF CallOK
<1>6. StackOK(Append(s, g), ms, md)
  BY <1>1, <1>5, StackPush
<1>7. PICK t : t = Append(s, g)
  OBVIOUS
<1>8. Len(t) = Len(s) + 1 /\ (\A i \in 1..Len(s) : t[i] = s[i]) /\ t[Len(s) + 1] = g /\ Len(s) \in Nat
  BY <1>7, AppendIs, StackHas DEF StackOK
<1>9. TopOK(t, ms, md, ret)
  BY <1>1, <1>8 DEF TopOK, TopIs
<1>10. Listed(t, ms, md)
  <2>1. \A i \in 1..Len(s) : i \in 1..Len(t)
    BY <1>8
  <2> QED BY <1>8, <2>1 DEF Listed
<1> QED BY <1>6, <1>7, <1>9, <1>10 DEF Sound

\* The frame of a load.
LEMMA LoadFrameIs ==
    ASSUME NEW n, NEW reload, NEW g, g = LoadFrame(n, reload)
    PROVE  /\ g = [call |-> "load", file |-> g.file, at |-> 1, phase |-> "sections", reload |-> g.reload,
                   firstModule |-> Len(modules), mp |-> None, current |-> g.current]
           /\ g.file = disk[n] /\ g.call = "load" /\ g.mp = None
<1>1. g.file = disk[n] /\ g.reload = reload /\ g.current = "" /\ g.call = "load" /\ g.mp = None
  BY DEF LoadFrame
<1> QED BY <1>1 DEF LoadFrame

\* A load by the main script or by one of a module.
LEMMA LoadKeeps ==
    ASSUME LInv, FilesAreWhole, NEW n \in Modules, Load(n), stack # <<>> => Top.call = "initializer"
    PROVE  Keeps
<1>1. ModulesOK(modules, mods) /\ StackOK(stack, modules, mods) /\ Listed(stack, modules, mods) /\ IsList(modules)
  BY DEF LInv, Types, ModulesOK
<1>2. modules' = modules /\ mods' = mods
  BY DEF Load, state
<1>3. PICK reload \in Reloads : ejsLoadModule(n, reload)
  BY DEF Load
<1>4. CASE stack' = stack
  <2>1. TopOK(stack, modules, mods, returned')
    <3>1. stack # <<>> => stack[Len(stack)].call = "initializer"
      BY TopHas
    <3> QED BY <3>1 DEF TopOK, TopIs
  <2> QED BY <1>1, <1>2, <1>4, <2>1 DEF Keeps, Sound
<1>5. CASE stack' = Append(stack, LoadFrame(n, reload))
  <2>1. PICK g : g = LoadFrame(n, reload)
    OBVIOUS
  <2>2. /\ g = [call |-> "load", file |-> g.file, at |-> 1, phase |-> "sections", reload |-> g.reload,
                firstModule |-> Len(modules), mp |-> None, current |-> g.current]
        /\ g.file = disk[n] /\ g.call = "load" /\ g.mp = None
    BY <2>1, LoadFrameIs
  <2>3. IsWhole(g.file)
    BY <2>2 DEF FilesAreWhole
  <2>4. stack # <<>> => Calls(stack[Len(stack)], g)
    BY <2>2, TopHas DEF Calls
  <2>5. \A i \in 1..Len(stack) : stack[i].call = "load" => stack[i].firstModule < Len(modules)
    <3> SUFFICES ASSUME NEW i \in 1..Len(stack), stack[i].call = "load" PROVE stack[i].firstModule < Len(modules)
      OBVIOUS
    <3>1. Len(stack) \in Nat /\ (i = Len(stack) => stack # <<>>)
      BY <1>1, StackHas, ListIs DEF StackOK
    <3>2. i # Len(stack)
      BY <3>1, TopHas
    <3>3. i \in 1..Len(stack) - 1
      BY <3>1, <3>2
    <3> QED BY <1>1, <3>3, BelowIs
  <2>6. PICK ret : ret = returned'
    OBVIOUS
  <2>7. Sound(Append(stack, g), modules, mods, ret)
    BY <1>1, <2>2, <2>3, <2>4, <2>5, LoadBegins
  <2> QED BY <1>1, <1>2, <1>5, <2>1, <2>6, <2>7 DEF Keeps
<1> QED BY <1>3, <1>4, <1>5 DEF ejsLoadModule

\* A dependency that is not there.
LEMMA DependencySection ==
    ASSUME LInv, FilesAreWhole, loadDependencySection
    PROVE  Keeps
<1>1. At("dependency") /\ UNCHANGED <<modules, mods, returned>>
      /\ stack' = Append(Append(Below, [Top EXCEPT !.phase = "dependency"]), LoadFrame(Section.name, Top.reload))
  BY DEF loadDependencySection, state
<1>2. /\ stack # <<>> /\ Top.call = "load" /\ Top.phase = "sections" /\ IsLoad(Top) /\ LoadOK(Top, modules, mods)
      /\ IsWhole(Top.file) /\ Top.at \in 1..Len(Top.file.sections) /\ Kind(Top.file, Top.at) = "dependency"
      /\ Section = Top.file.sections[Top.at] /\ Top.mp # None
  BY <1>1, SectionHas
<1>3. ModulesOK(modules, mods) /\ StackOK(stack, modules, mods) /\ Listed(stack, modules, mods) /\ IsList(modules)
  BY DEF LInv, Types, ModulesOK
<1>4. Len(stack) \in Nat /\ Len(stack) \in 1..Len(stack) /\ Top = stack[Len(stack)] /\ IsList(stack)
  BY <1>2, TopHas
<1>5. PICK f : f = Frame(Top, Top.at, "dependency", Top.mp, Top.current)
  OBVIOUS
<1>6. /\ IsLoad(f) /\ f.call = "load" /\ f.file = Top.file /\ f.at = Top.at /\ f.phase = "dependency"
      /\ f.firstModule = Top.firstModule /\ f.mp = Top.mp /\ Top.mp \in Nat /\ Top.firstModule < Len(modules)
  BY <1>2, <1>5, FrameIs DEF Phases, IsLoad, LoadOK
<1>7. LoadOK(f, modules, mods)
  BY <1>2, <1>6 DEF LoadOK
<1>8. PICK s : s = Append(Front(stack), f)
  OBVIOUS
<1>9. StackOK(s, modules, mods) /\ Listed(s, modules, mods)
  BY <1>2, <1>3, <1>4, <1>6, <1>7, <1>8, Same, TopMoves
<1>10. Len(s) = Len(stack) /\ (\A i \in 1..Len(stack) - 1 : s[i] = stack[i]) /\ s[Len(stack)] = f /\ s # <<>>
  BY <1>2, <1>4, <1>8, SetTopIs
<1>11. Section.name \in Modules
  BY <1>2 DEF IsWhole
<1>12. PICK g : g = LoadFrame(Section.name, Top.reload)
  OBVIOUS
<1>13. /\ g = [call |-> "load", file |-> g.file, at |-> 1, phase |-> "sections", reload |-> g.reload,
               firstModule |-> Len(modules), mp |-> None, current |-> g.current]
       /\ g.file = disk[Section.name] /\ g.call = "load"
  BY <1>12, LoadFrameIs
<1>14. IsWhole(g.file) /\ NameIn(g.file) = Section.name
  BY <1>11, <1>13 DEF FilesAreWhole
<1>15. Calls(s[Len(s)], g)
  BY <1>2, <1>6, <1>10, <1>13, <1>14 DEF Calls
<1>16. \A i \in 1..Len(s) : s[i].call = "load" => s[i].firstModule < Len(modules)
  <2> SUFFICES ASSUME NEW i \in 1..Len(s), s[i].call = "load" PROVE s[i].firstModule < Len(modules)
    OBVIOUS
  <2>1. CASE i = Len(stack)
    BY <1>6, <1>10, <2>1
  <2>2. CASE i # Len(stack)
    <3>1. i \in 1..Len(stack) - 1 /\ s[i] = stack[i]
      BY <1>4, <1>10, <2>2
    <3> QED BY <1>3, <3>1, BelowIs
  <2> QED BY <2>1, <2>2
<1>17. PICK ret : ret = returned'
  OBVIOUS
<1>18. Sound(Append(s, g), modules, mods, ret)
  BY <1>3, <1>9, <1>13, <1>14, <1>15, <1>16, LoadBegins
<1>19. stack' = Append(s, g)
  <2>1. [Top EXCEPT !.phase = "dependency"] = Frame(Top, Top.at, "dependency", Top.mp, Top.current)
    BY <1>2, Changes, Zenon
  <2> QED BY <1>1, <1>5, <1>8, <1>12, <2>1, Zenon DEF Below
<1> QED BY <1>1, <1>3, <1>17, <1>18, <1>19 DEF Keeps

-----------------------------------------------------------------------------
(***************************************************************************)
(* Steps after the sections.                                                *)
(***************************************************************************)
\* A stack with the top that it has.
LEMMA StackIs ==
    ASSUME NEW s, IsList(s), s # <<>>
    PROVE  s = Append(Front(s), s[Len(s)])
<1>1. PICK t : t = Append(Front(s), s[Len(s)])
  OBVIOUS
<1>2. IsList(t) /\ Len(t) = Len(s) /\ (\A i \in 1..Len(s) - 1 : t[i] = s[i]) /\ t[Len(s)] = s[Len(s)]
  BY <1>1, SetTopIs
<1>3. Len(s) \in Nat /\ s \in Seq(Range(s)) /\ t \in Seq(Range(t))
  BY <1>2, ListIs DEF IsList
<1>4. DOMAIN s = 1..Len(s) /\ DOMAIN t = 1..Len(s)
  BY <1>2, ListIs
<1>5. \A i \in 1..Len(s) : t[i] = s[i]
  BY <1>2, <1>3
<1>6. s = [i \in 1..Len(s) |-> s[i]] /\ t = [i \in 1..Len(s) |-> t[i]]
  BY <1>3, <1>4, LenProperties
<1> QED BY <1>1, <1>5, <1>6

\* The module that a load has come to is its own, or has run.
LEMMA FollowingIs ==
    ASSUME LInv, After
    PROVE  /\ stack # <<>> /\ Top.call = "load" /\ Top.phase = "after" /\ returned = "no"
           /\ IsLoad(Top) /\ LoadOK(Top, modules, mods) /\ Top.mp # None /\ Top.mp \in 1..Len(mods)
           /\ Following \in 1..Len(mods) /\ Top.firstModule \in Nat
           /\ Done(mods, Following) \/ Following = Top.mp
           /\ \/ Top.at = Top.firstModule + 1 /\ Following = Top.mp /\ ~mods[Top.mp].initialized
              \/ Top.at > Top.firstModule + 1 /\ Done(mods, Following) /\ Done(mods, Top.mp)
<1>1. stack # <<>> /\ Top.call = "load" /\ Top.phase = "after" /\ Top.at <= Len(modules) /\ returned = "no"
  BY DEF After, Loading
<1>2. IsLoad(Top) /\ LoadOK(Top, modules, mods) /\ Top = stack[Len(stack)] /\ Len(stack) \in 1..Len(stack)
      /\ Len(stack) \in Nat
  BY <1>1, TopHas
<1>3. ModulesOK(modules, mods) /\ StackOK(stack, modules, mods) /\ Listed(stack, modules, mods)
  BY DEF LInv, Types
<1>4. Top.mp # None /\ Top.mp \in 1..Len(mods) /\ Top.firstModule \in Nat /\ Top.at \in Nat
  BY <1>1, <1>2 DEF LoadOK, IsLoad, None
<1>5. \/ Top.at = Top.firstModule + 1 /\ ~mods[Top.mp].initialized
      \/ Top.at > Top.firstModule + 1 /\ Done(mods, Top.mp)
  BY <1>1, <1>2 DEF LoadOK
<1>6. Len(modules) \in Nat /\ Top.at \in 1..Len(modules)
  <2>1. Len(modules) \in Nat
    BY <1>3, ListIs DEF ModulesOK
  <2> QED BY <1>1, <1>4, <1>5, <2>1
<1>7. Following \in 1..Len(mods) /\ Following = modules[Top.at]
  BY <1>3, <1>6 DEF Following, ModulesOK
<1>8. CASE Top.at = Top.firstModule + 1 /\ ~mods[Top.mp].initialized
  <2>1. Following = Top.mp
    BY <1>1, <1>2, <1>4, <1>7, <1>8 DEF LoadOK
  <2> QED BY <1>1, <1>2, <1>4, <1>7, <1>8, <2>1
<1>9. CASE Top.at > Top.firstModule + 1 /\ Done(mods, Top.mp)
  <2>1. ASSUME NEW i \in 1..Len(stack), LoadedBy(stack[i], Top.at) PROVE FALSE
    <3>1. stack[i].call = "load" /\ Top.at = stack[i].firstModule + 1
      BY <2>1 DEF LoadedBy
    <3>2. i # Len(stack)
      BY <1>2, <1>4, <1>9, <3>1
    <3>3. i < Len(stack)
      BY <1>2, <3>2
    <3>4. stack[i].firstModule < Top.firstModule
      BY <1>1, <1>2, <1>3, <3>1, <3>3 DEF StackOK
    <3>5. stack[i].firstModule \in Nat
      BY <1>3, <3>1, StackHas DEF IsLoad
    <3> QED BY <1>4, <1>9, <3>1, <3>4, <3>5
  <2>2. Done(mods, Following)
    BY <1>3, <1>6, <1>7, <2>1 DEF Listed
  <2> QED BY <1>1, <1>2, <1>4, <1>7, <1>9, <2>2
<1> QED BY <1>5, <1>8, <1>9

\* The module of a load is resolved.
LEMMA Resolves ==
    ASSUME LInv, resolveTypes
    PROVE  Keeps
<1>1. After /\ mods[Following].loading /\ mods' = [mods EXCEPT ![Following].loading = FALSE]
      /\ UNCHANGED <<modules, stack, returned>>
  BY DEF resolveTypes, Unresolved
<1>2. /\ stack # <<>> /\ Top.call = "load" /\ Top.phase = "after" /\ IsLoad(Top) /\ LoadOK(Top, modules, mods)
      /\ Top.mp # None /\ Top.mp \in 1..Len(mods) /\ Following = Top.mp
      /\ Top.at = Top.firstModule + 1 /\ ~mods[Top.mp].initialized
  BY <1>1, FollowingIs DEF Done
<1>3. ModulesOK(modules, mods) /\ IsList(mods) /\ IsModule(mods[Top.mp])
  BY <1>2 DEF LInv, Types, ModulesOK
<1>4. PICK r, md, m : r = mods[Top.mp] /\ md = mods' /\ m = Top.mp
  OBVIOUS
<1>5. PICK c : c = Changed(r, r.script, r.fixups, FALSE, r.initialized, r.ran)
  OBVIOUS
<1>6. /\ r.initialized \in BOOLEAN /\ (~r.initialized => r.ran = "no") /\ IsList(r.fixups)
      /\ (r.script.does \in {"loads", "tries"} => r.script.module \in Modules)
  BY <1>3, <1>4 DEF IsModule
<1>7. IsModule(c) /\ c.name = r.name /\ c.file = r.file /\ c.initialized = r.initialized
  <2>1. IsModule(r) /\ FALSE \in BOOLEAN
    BY <1>3, <1>4
  <2>2. PICK script, fixups, b, i, ran : script = r.script /\ fixups = r.fixups /\ b = FALSE /\ i = r.initialized /\ ran = r.ran
    OBVIOUS
  <2>3. c = Changed(r, script, fixups, b, i, ran) /\ b \in BOOLEAN /\ i \in BOOLEAN /\ (~i => ran = "no") /\ IsList(fixups)
        /\ (script.does \in {"loads", "tries"} => script.module \in Modules)
    BY <1>5, <1>6, <2>1, <2>2
  <2>4. IsModule(c) /\ c.name = r.name /\ c.file = r.file /\ c.initialized = i
    BY <2>1, <2>3, ChangedIs
  <2> QED BY <2>2, <2>4
<1>8. md = Put(mods, m, c)
  <2>1. m \in 1..Len(mods) /\ r = mods[m] /\ IsModule(r) /\ md = Resolved(mods, m)
    BY <1>1, <1>2, <1>3, <1>4 DEF Resolved
  <2> QED BY <1>3, <1>5, <2>1, LoadingChanges
<1>9. /\ ModulesOK(modules, md) /\ Len(md) = Len(mods) /\ md[m] = c
      /\ \A n \in 1..Len(mods) : n # m => Kept(mods, md, n)
  BY <1>2, <1>3, <1>4, <1>7, <1>8, UpdateOK
<1>10. LoadOK(Top, modules, md)
  <2>1. md[Top.mp].file = mods[Top.mp].file /\ md[Top.mp].name = mods[Top.mp].name /\ ~md[Top.mp].initialized
    BY <1>2, <1>4, <1>7, <1>9
  <2> QED BY <1>2, <1>9, <2>1 DEF LoadOK
<1>11. PICK f, ret : f = Top /\ ret = returned'
  OBVIOUS
<1>12. Sound(Append(Below, f), modules, md, ret)
  BY <1>2, <1>4, <1>9, <1>10, <1>11, Goes
<1>13. stack' = Append(Below, f)
  BY <1>1, <1>2, <1>11, TopHas, StackIs DEF Below
<1> QED BY <1>1, <1>4, <1>9, <1>11, <1>12, <1>13 DEF Keeps

\* A type that is not there.
LEMMA TypeIsMissing ==
    ASSUME LInv, typeMissing
    PROVE  Keeps
<1>1. After /\ stack' = Append(Below, [Top EXCEPT !.phase = "failed"]) /\ UNCHANGED <<modules, mods, returned>>
  BY DEF typeMissing, Unresolved, SetTop
<1>2. /\ stack # <<>> /\ Top.call = "load" /\ Top.phase = "after" /\ IsLoad(Top) /\ LoadOK(Top, modules, mods)
      /\ Top.mp # None
  BY <1>1, FollowingIs
<1>3. PICK f : f = Frame(Top, Top.at, "failed", Top.mp, Top.current)
  OBVIOUS
<1>4. Top.at \in Nat \ {0} /\ Top.mp \in Nat
  BY <1>2 DEF IsLoad
<1>5. /\ IsLoad(f) /\ f.call = "load" /\ f.file = Top.file /\ f.at = Top.at /\ f.phase = "failed"
      /\ f.firstModule = Top.firstModule /\ f.mp = Top.mp
  BY <1>2, <1>3, <1>4, FrameIs DEF Phases
<1>6. LoadOK(f, modules, mods)
  BY <1>2, <1>5 DEF LoadOK
<1>7. Sound(Append(Below, f), modules, mods, returned)
  BY <1>2, <1>5, <1>6, Same, Goes
<1>8. stack' = Append(Below, f)
  <2>1. [Top EXCEPT !.phase = "failed"] = Frame(Top, Top.at, "failed", Top.mp, Top.current)
    BY <1>2, Changes, Zenon
  <2> QED BY <1>1, <1>3, <2>1, Zenon
<1> QED BY <1>1, <1>7, <1>8, Same DEF Keeps

\* A load goes on to the next module.
LEMMA GoesToNext ==
    ASSUME LInv, initialized
    PROVE  Keeps
<1>1. After /\ mods[Following].initialized /\ stack' = Append(Below, Onward(Top)) /\ UNCHANGED <<modules, mods, returned>>
  BY DEF initialized, SetTop, state
<1>2. /\ stack # <<>> /\ Top.call = "load" /\ Top.phase = "after" /\ IsLoad(Top) /\ LoadOK(Top, modules, mods)
      /\ Top.mp # None /\ Top.at > Top.firstModule + 1 /\ Done(mods, Top.mp)
  BY <1>1, FollowingIs
<1>3. PICK f : f = Frame(Top, Top.at + 1, "after", Top.mp, Top.current)
  OBVIOUS
<1>4. Top.at \in Nat /\ Top.at + 1 \in Nat \ {0} /\ Top.mp \in Nat /\ Top.firstModule \in Nat
  BY <1>2 DEF IsLoad
<1>5. /\ IsLoad(f) /\ f.call = "load" /\ f.file = Top.file /\ f.at = Top.at + 1 /\ f.phase = "after"
      /\ f.firstModule = Top.firstModule /\ f.mp = Top.mp
  BY <1>2, <1>3, <1>4, FrameIs DEF Phases
<1>6. LoadOK(f, modules, mods)
  <2>1. f.at > f.firstModule + 1 /\ Done(mods, f.mp)
    BY <1>2, <1>4, <1>5
  <2> QED BY <1>2, <1>5, <2>1 DEF LoadOK
<1>7. Sound(Append(Below, f), modules, mods, returned)
  BY <1>2, <1>5, <1>6, Same, Goes
<1>8. stack' = Append(Below, f)
  BY <1>1, <1>2, <1>3, Changes
<1> QED BY <1>1, <1>7, <1>8, Same DEF Keeps

\* A module that is initialized.
LEMMA ModuleInitialized ==
    ASSUME LInv, initializeModule
    PROVE  Keeps
<1> DEFINE nothing == mods[Following].script.does = "nothing"
<1>1. /\ After /\ ~mods[Following].loading /\ ~mods[Following].initialized
      /\ mods' = [mods EXCEPT ![Following].initialized = TRUE, ![Following].ran = IF nothing THEN "done" ELSE "begun"]
      /\ stack' = IF nothing THEN Append(Below, Onward(Top))
                  ELSE Append(Append(Below, [Onward(Top) EXCEPT !.phase = "initializer"]),
                              [call |-> "initializer", mp |-> Following, at |-> 1])
      /\ UNCHANGED <<modules, returned>>
  BY DEF initializeModule
<1>2. /\ stack # <<>> /\ Top.call = "load" /\ Top.phase = "after" /\ IsLoad(Top) /\ LoadOK(Top, modules, mods)
      /\ Top.mp # None /\ Top.mp \in 1..Len(mods) /\ Following = Top.mp
      /\ Top.at = Top.firstModule + 1 /\ Top.firstModule \in Nat
  BY <1>1, FollowingIs DEF Done
<1>3. /\ ModulesOK(modules, mods) /\ IsList(mods) /\ IsModule(mods[Top.mp])
      /\ StackOK(stack, modules, mods) /\ Listed(stack, modules, mods)
  BY <1>2 DEF LInv, Types, ModulesOK
<1>4. Len(stack) \in Nat /\ Len(stack) \in 1..Len(stack) /\ Top = stack[Len(stack)] /\ IsList(stack)
  BY <1>2, TopHas
<1>5. PICK r, md, m, ran : r = mods[Top.mp] /\ md = mods' /\ m = Top.mp /\ ran = IF nothing THEN "done" ELSE "begun"
  OBVIOUS
<1>6. /\ r.loading \in BOOLEAN /\ IsList(r.fixups) /\ IsModule(r) /\ ~r.loading
      /\ (r.script.does \in {"loads", "tries"} => r.script.module \in Modules)
  BY <1>1, <1>2, <1>3, <1>5 DEF IsModule
<1>7. PICK c : c = Changed(r, r.script, r.fixups, r.loading, TRUE, ran)
  OBVIOUS
<1>8. IsModule(c) /\ c.name = r.name /\ c.file = r.file /\ ~c.loading /\ c.initialized /\ c.ran = ran
  <2>1. PICK script, fixups, b, i : script = r.script /\ fixups = r.fixups /\ b = r.loading /\ i = TRUE
    OBVIOUS
  <2>2. c = Changed(r, script, fixups, b, i, ran) /\ b \in BOOLEAN /\ i \in BOOLEAN /\ (~i => ran = "no") /\ IsList(fixups)
        /\ (script.does \in {"loads", "tries"} => script.module \in Modules)
    BY <1>6, <1>7, <2>1
  <2>3. IsModule(c) /\ c.name = r.name /\ c.file = r.file /\ c.loading = b /\ c.initialized = i /\ c.ran = ran
    BY <1>6, <2>2, ChangedIs
  <2> QED BY <1>6, <2>1, <2>3
<1>9. md = Put(mods, m, c)
  <2>1. m \in 1..Len(mods) /\ r = mods[m] /\ md = Begun(mods, m, ran)
    BY <1>1, <1>2, <1>5 DEF Begun
  <2>2. IsList(mods) /\ IsModule(r)
    BY <1>3, <1>6
  <2>3. md = Put(mods, m, Changed(r, r.script, r.fixups, r.loading, TRUE, ran))
    BY <2>1, <2>2, InitializedChanges
  <2> QED BY <1>7, <2>3, Zenon
<1>10. /\ ModulesOK(modules, md) /\ Len(md) = Len(mods) /\ md[m] = c
       /\ \A n \in 1..Len(mods) : n # m => Kept(mods, md, n)
  BY <1>2, <1>3, <1>5, <1>8, <1>9, UpdateOK
<1>11. Top.at + 1 \in Nat \ {0} /\ Top.mp \in Nat /\ Top.at + 1 > Top.firstModule + 1
  BY <1>2 DEF IsLoad
<1>12. md[Top.mp].file = Top.file /\ md[Top.mp].name = NameIn(Top.file)
  BY <1>2, <1>5, <1>8, <1>10 DEF LoadOK
<1>13. CASE nothing
  <2>1. PICK f : f = Frame(Top, Top.at + 1, "after", Top.mp, Top.current)
    OBVIOUS
  <2>2. /\ IsLoad(f) /\ f.call = "load" /\ f.file = Top.file /\ f.at = Top.at + 1 /\ f.phase = "after"
        /\ f.firstModule = Top.firstModule /\ f.mp = Top.mp
    BY <1>2, <1>11, <2>1, FrameIs DEF Phases
  <2>3. Done(md, f.mp)
    BY <1>5, <1>8, <1>10, <1>13, <2>2 DEF Done
  <2>4. LoadOK(f, modules, md)
    BY <1>2, <1>10, <1>11, <1>12, <2>2, <2>3 DEF LoadOK
  <2>5. Sound(Append(Below, f), modules, md, returned)
    BY <1>2, <1>5, <1>10, <2>2, <2>4, Goes
  <2>6. stack' = Append(Below, f)
    <3>1. stack' = Append(Below, Onward(Top))
      BY <1>1, <1>13
    <3> QED BY <1>2, <2>1, <3>1, Changes
  <2> QED BY <1>1, <1>5, <1>10, <2>5, <2>6 DEF Keeps
<1>14. CASE ~nothing
  <2>1. PICK f : f = Frame(Top, Top.at + 1, "initializer", Top.mp, Top.current)
    OBVIOUS
  <2>2. /\ IsLoad(f) /\ f.call = "load" /\ f.file = Top.file /\ f.at = Top.at + 1 /\ f.phase = "initializer"
        /\ f.firstModule = Top.firstModule /\ f.mp = Top.mp
    BY <1>2, <1>11, <2>1, FrameIs DEF Phases
  <2>3. LoadOK(f, modules, md)
    BY <1>2, <1>10, <1>11, <1>12, <2>2 DEF LoadOK
  <2>4. PICK s : s = Append(Front(stack), f)
    OBVIOUS
  <2>5. StackOK(s, modules, md) /\ Listed(s, modules, md)
    BY <1>2, <1>3, <1>4, <1>5, <1>10, <2>2, <2>3, <2>4, TopMoves
  <2>6. Len(s) = Len(stack) /\ s[Len(stack)] = f /\ s # <<>> /\ IsList(s)
    BY <1>2, <1>4, <2>4, SetTopIs
  <2>7. PICK g : g = [call |-> "initializer", mp |-> Top.mp, at |-> 1]
    OBVIOUS
  <2>8. IsRun(g) /\ g.call = "initializer" /\ g.mp = Top.mp
    BY <1>2, <2>7 DEF IsRun
  <2>9. RunOK(g, md)
    <3>1. md[g.mp].ran = "begun" /\ md[g.mp].initialized /\ ~md[g.mp].loading
      BY <1>5, <1>8, <1>10, <1>14, <2>8
    <3> QED BY <1>2, <1>10, <2>8, <3>1 DEF RunOK
  <2>10. CallOK(g, modules, md) /\ Calls(f, g)
    BY <2>2, <2>8, <2>9 DEF CallOK, Calls
  <2>11. StackOK(Append(s, g), modules, md)
    BY <2>5, <2>6, <2>8, <2>10, StackPush
  <2>12. PICK t : t = Append(s, g)
    OBVIOUS
  <2>13. Len(t) = Len(s) + 1 /\ (\A i \in 1..Len(s) : t[i] = s[i]) /\ t[Len(s) + 1] = g /\ Len(s) \in Nat
    BY <2>6, <2>12, AppendIs, ListIs
  <2>14. TopOK(t, modules, md, returned)
    BY <2>8, <2>13 DEF TopOK, TopIs
  <2>15. Listed(t, modules, md)
    <3>1. \A i \in 1..Len(s) : i \in 1..Len(t)
      BY <2>13
    <3> QED BY <2>5, <2>13, <3>1 DEF Listed
  <2>16. stack' = t
    <3>1. stack' = Append(Append(Below, [Onward(Top) EXCEPT !.phase = "initializer"]), g)
      BY <1>1, <1>2, <1>14, <2>7
    <3>2. [Onward(Top) EXCEPT !.phase = "initializer"] = Frame(Top, Top.at + 1, "initializer", Top.mp, Top.current)
      BY <1>2, Changes, Zenon
    <3> QED BY <2>1, <2>4, <2>12, <3>1, <3>2, Zenon DEF Below
  <2> QED BY <1>1, <1>5, <1>10, <2>11, <2>12, <2>14, <2>15, <2>16 DEF Keeps, Sound
<1> QED BY <1>13, <1>14

\* A load goes on after an initializer.
LEMMA AfterInitializer ==
    ASSUME LInv, InitializerReturns
    PROVE  Keeps
<1>1. /\ stack # <<>> /\ Top.call = "load" /\ Top.phase = "initializer" /\ UNCHANGED <<modules, mods>>
      /\ returned # "no"
      /\ stack' = Append(Below, [Top EXCEPT !.phase = IF returned = "ok" THEN "after" ELSE "failed"])
  BY DEF InitializerReturns, Loading, SetTop, state
<1>2. /\ IsLoad(Top) /\ LoadOK(Top, modules, mods) /\ TopIs(Top, modules, mods, returned)
  BY <1>1, TopHas
<1>3. Top.mp # None /\ Top.at > Top.firstModule + 1 /\ (returned = "ok" => Done(mods, Top.mp))
      /\ Top.at \in Nat \ {0} /\ Top.mp \in Nat
  BY <1>1, <1>2 DEF LoadOK, TopIs, IsLoad
<1>4. PICK phase : phase = IF returned = "ok" THEN "after" ELSE "failed"
  OBVIOUS
<1>5. PICK f, ret : f = Frame(Top, Top.at, phase, Top.mp, Top.current) /\ ret = returned'
  OBVIOUS
<1>6. /\ IsLoad(f) /\ f.call = "load" /\ f.file = Top.file /\ f.at = Top.at /\ f.phase = phase
      /\ f.firstModule = Top.firstModule /\ f.mp = Top.mp
  BY <1>2, <1>3, <1>4, <1>5, FrameIs DEF Phases
<1>7. LoadOK(f, modules, mods)
  BY <1>1, <1>2, <1>3, <1>4, <1>6 DEF LoadOK
<1>8. Sound(Append(Below, f), modules, mods, ret)
  BY <1>1, <1>3, <1>4, <1>6, <1>7, Same, Goes
<1>9. stack' = Append(Below, f)
  <2>1. [Top EXCEPT !.phase = phase] = Frame(Top, Top.at, phase, Top.mp, Top.current)
    BY <1>2, Changes, Zenon
  <2> QED BY <1>1, <1>4, <1>5, <2>1, Zenon
<1> QED BY <1>1, <1>5, <1>8, <1>9, Same DEF Keeps

\* What waits for a load when it returns.
LEMMA ReturnsTo ==
    ASSUME NEW s, NEW ms, NEW md, StackOK(s, ms, md), s # <<>>, s[Len(s)].call = "load",
           NEW ms2, NEW md2, NEW ret, ret # "no",
           ret = "ok" => \E k \in 1..Len(ms2) : md2[ms2[k]].name = NameIn(s[Len(s)].file)
    PROVE  TopOK(Front(s), ms2, md2, ret)
<1>1. PICK t, n : t = Front(s) /\ n = Len(s)
  OBVIOUS
<1>2. IsList(s) /\ n \in Nat /\ n > 0 /\ IsList(t) /\ Len(t) = n - 1 /\ \A i \in 1..n - 1 : t[i] = s[i]
  BY <1>1, FrontIs, StackHas
<1>3. SUFFICES ASSUME t # <<>>, t[Len(t)].call = "load" PROVE TopIs(t[Len(t)], ms2, md2, ret)
  BY <1>1 DEF TopOK, TopIs
<1>4. n - 1 \in 1..n - 1 /\ t[Len(t)] = s[n - 1] /\ (n - 1) + 1 = n
  BY <1>2, <1>3, ListIs
<1>5. Calls(s[n - 1], s[n])
  BY <1>1, <1>4 DEF StackOK
<1>6. s[n - 1].phase = "dependency" /\ NameIn(s[n].file) = s[n - 1].file.sections[s[n - 1].at].name
  BY <1>1, <1>3, <1>4, <1>5 DEF Calls
<1>7. s[n - 1].mp # None
  BY <1>1, <1>4, BelowIs DEF None
<1> QED BY <1>1, <1>4, <1>6, <1>7 DEF TopIs

\* A load returns.
LEMMA ReturnKeeps ==
    ASSUME LInv, LoadReturns
    PROVE  Keeps
<1>1. /\ stack # <<>> /\ Top.call = "load" /\ Top.phase = "after" /\ Top.at > Len(modules)
      /\ stack' = Front(stack) /\ returned' = "ok" /\ UNCHANGED <<modules, mods>>
  BY DEF LoadReturns, Loading, Below, state
<1>2. /\ IsLoad(Top) /\ LoadOK(Top, modules, mods) /\ Top = stack[Len(stack)] /\ Len(stack) \in 1..Len(stack)
      /\ Len(stack) \in Nat /\ IsList(stack)
  BY <1>1, TopHas
<1>3. ModulesOK(modules, mods) /\ StackOK(stack, modules, mods) /\ Listed(stack, modules, mods)
  BY DEF LInv, Types
<1>4. Top.firstModule \in Nat /\ Len(modules) \in Nat /\ Top.at \in Nat
  BY <1>2, <1>3, ListIs DEF IsLoad, ModulesOK
<1>5. Top.mp # None /\ Top.firstModule < Len(modules) /\ modules[Top.firstModule + 1] = Top.mp
      /\ mods[Top.mp].name = NameIn(Top.file)
  BY <1>1, <1>2 DEF LoadOK
<1>6. Done(mods, Top.mp)
  BY <1>1, <1>2, <1>4, <1>5 DEF LoadOK
<1>7. TopOK(Front(stack), modules, mods, "ok")
  <2>1. Top.firstModule + 1 \in 1..Len(modules)
    BY <1>4, <1>5
  <2>2. \E k \in 1..Len(modules) : mods[modules[k]].name = NameIn(stack[Len(stack)].file)
    BY <1>2, <1>5, <2>1
  <2> QED BY <1>1, <1>2, <1>3, <2>2, ReturnsTo
<1>8. StackOK(Front(stack), modules, mods)
  BY <1>1, <1>2, <1>3, StackPop, StackHas
<1>9. Listed(Front(stack), modules, mods)
  <2>1. PICK t : t = Front(stack)
    OBVIOUS
  <2>2. Len(t) = Len(stack) - 1 /\ \A i \in 1..Len(stack) - 1 : t[i] = stack[i]
    BY <1>1, <1>2, <2>1, FrontIs
  <2>3. ASSUME NEW k \in 1..Len(modules), ~Done(mods, modules[k]) PROVE \E i \in 1..Len(t) : LoadedBy(t[i], k)
    <3>1. PICK i \in 1..Len(stack) : LoadedBy(stack[i], k)
      BY <1>3, <2>3 DEF Listed
    <3>2. i # Len(stack)
      BY <1>2, <1>5, <1>6, <2>3, <3>1 DEF LoadedBy
    <3> QED BY <1>2, <2>2, <3>1, <3>2
  <2> QED BY <2>1, <2>3 DEF Listed
<1> QED BY <1>1, <1>3, <1>7, <1>8, <1>9 DEF Keeps, Sound

\* A load fails.
LEMMA FailureKeeps ==
    ASSUME LInv, LoadFails
    PROVE  Keeps
<1>1. /\ stack # <<>> /\ Top.call = "load" /\ modules' = Unload(modules, Top.firstModule)
      /\ stack' = Front(stack) /\ returned' = "failed" /\ mods' = mods
  BY DEF LoadFails, Loading, Below
<1>2. /\ IsLoad(Top) /\ LoadOK(Top, modules, mods) /\ Top = stack[Len(stack)] /\ Len(stack) \in 1..Len(stack)
      /\ Len(stack) \in Nat /\ IsList(stack)
  BY <1>1, TopHas
<1>3. ModulesOK(modules, mods) /\ StackOK(stack, modules, mods) /\ Listed(stack, modules, mods)
  BY DEF LInv, Types
<1>4. Top.firstModule \in Nat /\ Top.firstModule <= Len(modules)
  BY <1>2 DEF IsLoad, LoadOK
<1>5. PICK ms2 : ms2 = modules'
  OBVIOUS
<1>6. Thins(modules, ms2, stack[Len(stack)].firstModule)
  BY <1>1, <1>2, <1>3, <1>4, <1>5, UnloadThins DEF ModulesOK
<1>7. /\ ModulesOK(ms2, mods)
      /\ \A i \in 1..Len(stack) - 1 : CallOK(stack[i], ms2, mods)
      /\ \A k \in 1..Len(ms2) : Done(mods, ms2[k]) \/ \E i \in 1..Len(stack) - 1 : LoadedBy(stack[i], k)
  BY <1>1, <1>2, <1>3, <1>6, Thinned
<1>8. StackOK(Front(stack), ms2, mods)
  BY <1>1, <1>3, <1>7, StackPop
<1>9. TopOK(Front(stack), ms2, mods, "failed")
  BY <1>1, <1>2, <1>3, ReturnsTo
<1>10. Listed(Front(stack), ms2, mods)
  <2>1. PICK t : t = Front(stack)
    OBVIOUS
  <2>2. Len(t) = Len(stack) - 1 /\ \A i \in 1..Len(stack) - 1 : t[i] = stack[i]
    BY <1>1, <1>2, <2>1, FrontIs
  <2> QED BY <1>7, <2>1, <2>2 DEF Listed
<1> QED BY <1>1, <1>5, <1>7, <1>8, <1>9, <1>10 DEF Keeps, Sound

\* What waits for the script of a module is the load that runs it.
LEMMA RunIs ==
    ASSUME LInv, stack # <<>>, Top.call = "initializer"
    PROVE  /\ Len(stack) \in Nat /\ Len(stack) - 1 \in 1..Len(stack) - 1 /\ Top = stack[Len(stack)]
           /\ stack[Len(stack) - 1].call = "load" /\ stack[Len(stack) - 1].phase = "initializer"
           /\ stack[Len(stack) - 1].mp = Top.mp /\ Top.mp \in 1..Len(mods) /\ RunOK(Top, mods)
           /\ IsLoad(stack[Len(stack) - 1]) /\ LoadOK(stack[Len(stack) - 1], modules, mods)
<1>1. IsRun(Top) /\ RunOK(Top, mods) /\ Top = stack[Len(stack)] /\ Len(stack) \in Nat /\ Len(stack) \in 1..Len(stack)
  BY TopHas DEF IsLoad
<1>2. StackOK(stack, modules, mods)
  BY DEF LInv
<1>3. Len(stack) # 1
  BY <1>1, <1>2 DEF StackOK
<1>4. Len(stack) - 1 \in 1..Len(stack) - 1 /\ Len(stack) - 1 \in 1..Len(stack) /\ (Len(stack) - 1) + 1 = Len(stack)
  BY <1>1, <1>3
<1>5. Calls(stack[Len(stack) - 1], stack[Len(stack)])
  BY <1>2, <1>4 DEF StackOK
<1>6. stack[Len(stack) - 1].call = "load" /\ stack[Len(stack) - 1].phase = "initializer"
      /\ stack[Len(stack) - 1].mp = Top.mp
  BY <1>1, <1>5 DEF Calls
<1>7. IsLoad(stack[Len(stack) - 1]) /\ LoadOK(stack[Len(stack) - 1], modules, mods)
  BY <1>2, <1>4, <1>6, StackHas
<1>8. Top.mp \in 1..Len(mods)
  BY <1>1 DEF IsRun, RunOK
<1> QED BY <1>1, <1>4, <1>6, <1>7, <1>8

\* The script of a module ends, one way or another.
LEMMA EndKeeps ==
    ASSUME LInv, stack # <<>>, Top.call = "initializer", NEW status \in {"done", "thrown"}, Ends(status)
    PROVE  Keeps
<1>1. /\ stack' = Front(stack) /\ returned' = (IF status = "done" THEN "ok" ELSE "failed")
      /\ mods' = [mods EXCEPT ![Top.mp].ran = status] /\ modules' = modules
  BY DEF Ends, Below
<1>2. PICK n, m, r, md, ret : n = Len(stack) /\ m = Top.mp /\ r = mods[Top.mp] /\ md = mods' /\ ret = returned'
  OBVIOUS
<1>3. PICK g : g = stack[n - 1]
  OBVIOUS
<1>4. /\ n \in Nat /\ n - 1 \in 1..n - 1 /\ Top = stack[n] /\ m \in 1..Len(mods) /\ RunOK(Top, mods)
      /\ g.call = "load" /\ g.phase = "initializer" /\ g.mp = m /\ IsLoad(g) /\ LoadOK(g, modules, mods)
  BY <1>2, <1>3, RunIs
<1>5. ModulesOK(modules, mods) /\ StackOK(stack, modules, mods) /\ Listed(stack, modules, mods) /\ IsList(stack)
  BY DEF LInv, Types, StackOK
<1>6. IsList(mods) /\ IsModule(r)
  BY <1>2, <1>4, <1>5 DEF ModulesOK
<1>7. r.initialized /\ ~r.loading /\ r.ran = "begun" /\ r.initialized \in BOOLEAN /\ r.loading \in BOOLEAN
      /\ IsList(r.fixups) /\ (r.script.does \in {"loads", "tries"} => r.script.module \in Modules)
  BY <1>2, <1>4, <1>6 DEF RunOK, IsModule
<1>8. PICK c : c = Changed(r, r.script, r.fixups, r.loading, r.initialized, status)
  OBVIOUS
<1>9. /\ IsModule(c) /\ c.name = r.name /\ c.file = r.file /\ c.loading = r.loading /\ c.initialized = r.initialized
      /\ c.ran = status
  <2>1. PICK script, fixups, b, i : script = r.script /\ fixups = r.fixups /\ b = r.loading /\ i = r.initialized
    OBVIOUS
  <2>2. c = Changed(r, script, fixups, b, i, status) /\ b \in BOOLEAN /\ i \in BOOLEAN /\ (~i => status = "no")
        /\ IsList(fixups) /\ (script.does \in {"loads", "tries"} => script.module \in Modules)
    BY <1>7, <1>8, <2>1
  <2>3. /\ IsModule(c) /\ c.name = r.name /\ c.file = r.file /\ c.loading = b /\ c.initialized = i
        /\ c.ran = status
    BY <1>6, <2>2, ChangedIs
  <2> QED BY <2>1, <2>3
<1>10. md = Put(mods, m, c)
  <2>1. PICK x : x = status
    OBVIOUS
  <2>2. m \in 1..Len(mods) /\ r = mods[m] /\ md = Ended(mods, m, x)
    BY <1>1, <1>2, <1>4, <1>6, <2>1 DEF Ended
  <2>4. IsModule(r) /\ IsList(mods)
    BY <1>6
  <2>3. md = Put(mods, m, Changed(r, r.script, r.fixups, r.loading, r.initialized, x))
    BY <2>2, <2>4, RanChanges
  <2> QED BY <1>8, <2>1, <2>3
<1>11. /\ ModulesOK(modules, md) /\ Len(md) = Len(mods) /\ md[m] = c
       /\ \A k \in 1..Len(mods) : k # m => Kept(mods, md, k)
  BY <1>4, <1>5, <1>9, <1>10, UpdateOK
<1>12. PICK t : t = Front(stack)
  OBVIOUS
<1>13. IsList(t) /\ Len(t) = n - 1 /\ (\A i \in 1..n - 1 : t[i] = stack[i]) /\ t # <<>> /\ t[Len(t)] = g
  <2>1. IsList(t) /\ Len(t) = n - 1 /\ (\A i \in 1..n - 1 : t[i] = stack[i])
    BY <1>2, <1>5, <1>12, FrontIs
  <2> QED BY <1>3, <1>4, <2>1, ListIs
<1>14. ASSUME NEW i \in 1..n - 1, i # n - 1 PROVE CallOK(stack[i], modules, md)
  <2>1. StackOK(t, modules, mods)
    <3>1. \A j \in 1..Len(stack) - 1 : CallOK(stack[j], modules, mods)
      BY <1>2, <1>4, <1>5, StackHas
    <3> QED BY <1>5, <1>12, <3>1, StackPop
  <2>2. i \in 1..Len(t) - 1
    BY <1>4, <1>13, <1>14
  <2>3. t[i].mp # t[Len(t)].mp
    BY <1>4, <1>5, <1>13, <2>1, <2>2, OthersDiffer DEF LoadOK
  <2>4. stack[i].mp # m /\ stack[i].mp \in 1..Len(mods)
    BY <1>2, <1>4, <1>5, <1>13, <2>3, BelowIs
  <2>5. Kept(mods, md, stack[i].mp)
    BY <1>11, <2>4
  <2>6. CallOK(stack[i], modules, mods) /\ (stack[i].call = "load" => stack[i].firstModule <= Len(modules))
    BY <1>2, <1>4, <1>5, StackHas DEF LoadOK
  <2> QED BY <2>5, <2>6, CallStays
<1>15. LoadOK(g, modules, md)
  <2>1. md[g.mp].file = mods[g.mp].file /\ md[g.mp].name = mods[g.mp].name
    BY <1>2, <1>4, <1>9, <1>11
  <2> QED BY <1>4, <1>11, <2>1 DEF LoadOK
<1>16. StackOK(t, modules, md)
  <2>1. \A i \in 1..Len(stack) - 1 : CallOK(stack[i], modules, md)
    BY <1>2, <1>3, <1>4, <1>14, <1>15 DEF CallOK
  <2> QED BY <1>5, <1>12, <2>1, StackPop
<1>17. TopOK(t, modules, md, ret)
  <2>1. ret # "no" /\ (ret = "ok" => status = "done")
    BY <1>1, <1>2
  <2>2. status = "done" => Done(md, g.mp)
    BY <1>4, <1>7, <1>9, <1>11 DEF Done
  <2>3. TopIs(g, modules, md, ret)
    <3>1. g.mp # None
      BY <1>4 DEF None
    <3> QED BY <1>4, <2>1, <2>2, <3>1 DEF TopIs
  <2> QED BY <1>13, <2>3 DEF TopOK
<1>18. Listed(t, modules, md)
  <2> SUFFICES ASSUME NEW k \in 1..Len(modules) PROVE Done(md, modules[k]) \/ \E i \in 1..Len(t) : LoadedBy(t[i], k)
    BY DEF Listed
  <2>1. CASE Done(mods, modules[k])
    <3>1. modules[k] # m /\ modules[k] \in 1..Len(mods)
      BY <1>2, <1>5, <1>7, <2>1 DEF Done, ModulesOK
    <3> QED BY <1>11, <2>1, <3>1 DEF Done, Kept
  <2>2. CASE \E i \in 1..Len(stack) : LoadedBy(stack[i], k)
    <3>1. PICK i \in 1..Len(stack) : LoadedBy(stack[i], k)
      BY <2>2
    <3>2. i # n
      BY <1>4, <3>1 DEF LoadedBy
    <3>3. i \in 1..Len(t) /\ t[i] = stack[i]
      BY <1>2, <1>4, <1>13, <3>1, <3>2
    <3> QED BY <3>1, <3>3
  <2> QED BY <1>5, <2>1, <2>2 DEF Listed
<1> QED BY <1>1, <1>2, <1>11, <1>12, <1>16, <1>17, <1>18 DEF Keeps, Sound

\* The scripts of modules.
LEMMA ScriptKeeps ==
    ASSUME LInv, FilesAreWhole, ScriptEnds \/ ScriptThrows \/ ScriptLoads \/ ScriptLoaded
    PROVE  Keeps
<1>1. stack # <<>> /\ Top.call = "initializer"
  BY DEF ScriptEnds, ScriptThrows, ScriptLoads, ScriptLoaded, Running
<1>2. CASE ScriptEnds \/ ScriptThrows \/ ScriptLoaded
  <2>1. PICK status \in {"done", "thrown"} : Ends(status)
    BY <1>2 DEF ScriptEnds, ScriptThrows, ScriptLoaded
  <2> QED BY <1>1, <2>1, EndKeeps
<1>3. CASE ScriptLoads
  <2>1. mods[Top.mp].script.does \in {"loads", "tries"} /\ Load(mods[Top.mp].script.module)
    BY <1>3 DEF ScriptLoads, Running
  <2>2. Top.mp \in 1..Len(mods)
    BY <1>1, RunIs
  <2>3. mods[Top.mp].script.module \in Modules
    BY <2>1, <2>2 DEF LInv, Types, ModulesOK, IsModule
  <2> QED BY <1>1, <2>1, <2>3, LoadKeeps
<1> QED BY <1>2, <1>3

\* Steps that are no part of a load.
LEMMA QuietKeeps ==
    ASSUME LInv, UNCHANGED <<modules, mods, stack>>, stack = <<>> \/ returned' = returned
    PROVE  Keeps
<1>1. ModulesOK(modules, mods) /\ StackOK(stack, modules, mods) /\ Listed(stack, modules, mods)
      /\ TopOK(stack, modules, mods, returned)
  BY DEF LInv, Types
<1>2. TopOK(stack, modules, mods, returned')
  BY <1>1 DEF TopOK
<1> QED BY <1>1, <1>2 DEF Keeps, Sound

\* Every step keeps stack and modules sound.
LEMMA StepKeeps ==
    ASSUME LInv, FilesAreWhole, [Next]_vars
    PROVE  Keeps
<1>1. CASE \E n \in Modules : CompileAgain(n)
  BY <1>1, QuietKeeps DEF CompileAgain, state
<1>2. CASE MainLoads
  BY <1>2, LoadKeeps DEF MainLoads
<1>3. CASE Seen
  BY <1>3, QuietKeeps DEF Seen, state
<1>4. CASE Sections
  BY <1>4, PlainSections, InitializerSection, ClassSection, DependencySections, EndSection, ModuleMade,
     DependencySection DEF Sections
<1>5. CASE Afterwards
  BY <1>5, Resolves, TypeIsMissing, GoesToNext, ModuleInitialized, AfterInitializer, ReturnKeeps, FailureKeeps,
     ScriptKeeps DEF Afterwards
<1>6. CASE UNCHANGED vars
  BY <1>6, QuietKeeps DEF vars
<1> QED BY <1>1, <1>2, <1>3, <1>4, <1>5, <1>6 DEF Next

-----------------------------------------------------------------------------
(***************************************************************************)
(* Classes.                                                                 *)
(***************************************************************************)
AreTypes(types) == \A c \in DOMAIN types : IsType(types[c])

\* A class in place of another.
LEMMA TypePut ==
    ASSUME NEW types, AreTypes(types), NEW d, NEW t, d \in DOMAIN types => IsType(t),
           NEW types2, types2 = [types EXCEPT ![d] = t]
    PROVE  /\ AreTypes(types2) /\ DOMAIN types2 = DOMAIN types
           /\ \A c \in DOMAIN types : types2[c] = IF c = d THEN t ELSE types[c]
<1>1. DOMAIN types2 = DOMAIN types /\ \A c \in DOMAIN types : types2[c] = IF c = d THEN t ELSE types[c]
  OBVIOUS
<1>2. AreTypes(types2)
  BY <1>1 DEF AreTypes
<1> QED BY <1>1, <1>2

\* A class is incomplete only if it was, and is not given a base class.
LEMMA FixedIs ==
    ASSUME NEW types, AreTypes(types), NEW fixup, NEW types2, types2 = Fixed(types, fixup)
    PROVE  /\ AreTypes(types2) /\ DOMAIN types2 = DOMAIN types
           /\ \A c \in DOMAIN types : types2[c].needFixup =>
                types[c].needFixup /\ ~(fixup.kind = "base" /\ fixup.target = c)
<1> DEFINE d == fixup.target
<1>1. PICK t : /\ types2 = [types EXCEPT ![d] = t]
               /\ t = IF fixup.kind = "base" THEN ejsFixupType(types[d], fixup.typeName, types, FALSE)
                      ELSE AlsoImplementing(types[d], fixup.typeName)
  BY Zenon DEF Fixed
<1> HIDE DEF d
<1>2. /\ types2 = [types EXCEPT ![d] = t]
      /\ fixup.kind = "base" => t = ejsFixupType(types[d], fixup.typeName, types, FALSE)
      /\ fixup.kind # "base" => t = AlsoImplementing(types[d], fixup.typeName)
  BY <1>1
<1>3. ASSUME d \in DOMAIN types
      PROVE  IsType(t) /\ (t.needFixup => types[d].needFixup /\ fixup.kind # "base")
  <2>1. IsType(types[d])
    BY <1>3 DEF AreTypes
  <2>2. CASE fixup.kind = "base"
    <3>1. t = ejsFixupType(types[d], fixup.typeName, types, FALSE)
      BY <1>2, <2>2
    <3> QED BY <2>1, <3>1, TypeFixed
  <2>3. CASE fixup.kind # "base"
    <3>1. PICK x, y : x = types[d] /\ t = [x EXCEPT !.implements = y]
      BY <1>2, <2>3 DEF AlsoImplementing
    <3>2. IsType(t) /\ t.needFixup = x.needFixup
      BY <2>1, <3>1 DEF IsType
    <3> QED BY <2>3, <3>1, <3>2
  <2> QED BY <2>2, <2>3
<1>4. /\ AreTypes(types2) /\ DOMAIN types2 = DOMAIN types
      /\ \A c \in DOMAIN types : types2[c] = IF c = d THEN t ELSE types[c]
  BY <1>2, <1>3, TypePut
<1>5. ASSUME NEW c \in DOMAIN types, types2[c].needFixup
      PROVE  types[c].needFixup /\ ~(fixup.kind = "base" /\ fixup.target = c)
  <2>1. CASE c = d
    BY <1>3, <1>4, <1>5, <2>1
  <2>2. CASE c # d
    BY <1>4, <1>5, <2>2 DEF d
  <2> QED BY <2>1, <2>2
<1> QED BY <1>4, <1>5

\* The references are resolved one after the other.
LEMMA FixesAre ==
    ASSUME NEW fixups, NEW n \in Nat, fixupTypes(fixups, n)
    PROVE  \E t : t[0] = globals /\ globals' = t[n] /\ \A i \in 1..n : t[i] = Fixed(t[i - 1], fixups[i])
<1> DEFINE Step(s, i) == Fixed(s, fixups[i])
           Rec(m, t) == t = [i \in 0..m |-> IF i = 0 THEN globals ELSE Step(t[i - 1], i)]
           R == CHOOSE t : Rec(n, t)
<1>1. globals' = R[n]
  BY DEF fixupTypes
<1> HIDE DEF Step, R
<1>2. 0..n \subseteq {m \in Nat : \E t : Rec(m, t)}
  <2> DEFINE S == {m \in Nat : \E t : Rec(m, t)}
  <2>1. 0 \in S
    <3> DEFINE t == [i \in 0..0 |-> globals]
    <3>1. Rec(0, t)
      OBVIOUS
    <3> QED BY <3>1
  <2>2. ASSUME NEW m \in 0..n, m > 0, m - 1 \in S PROVE m \in S
    <3>1. PICK t : Rec(m - 1, t)
      BY <2>2
    <3> DEFINE u == [i \in 0..m |-> IF i = m THEN Step(t[m - 1], m) ELSE t[i]]
    <3>2. m \in Nat /\ \A i \in 0..m : i # m => i \in 0..(m - 1)
      BY <2>2
    <3>3. ASSUME NEW i \in 0..m PROVE u[i] = IF i = 0 THEN globals ELSE Step(u[i - 1], i)
      <4>1. CASE i = 0
        BY <2>2, <3>1, <3>2, <4>1
      <4>2. CASE i = m
        BY <2>2, <3>2, <4>2
      <4>3. CASE i # 0 /\ i # m
        <5>1. i \in 0..(m - 1) /\ i - 1 \in 0..(m - 1) /\ i - 1 # m
          BY <3>2, <4>3
        <5>2. t[i] = Step(t[i - 1], i)
          BY <3>1, <4>3, <5>1
        <5> QED BY <4>3, <5>1, <5>2
      <4> QED BY <4>1, <4>2, <4>3
    <3>4. Rec(m, u)
      BY <3>3
    <3> QED BY <3>2, <3>4
  <2> HIDE DEF S
  <2>3. 0..n \subseteq S
    BY <2>1, <2>2, UpTo
  <2> QED BY <2>3 DEF S
<1>3. Rec(n, R)
  <2>1. n \in 0..n
    OBVIOUS
  <2> QED BY <1>2, <2>1 DEF R
<1>4. R[0] = globals /\ \A i \in 1..n : R[i] = Step(R[i - 1], i)
  BY <1>3
<1> QED BY <1>1, <1>4 DEF Step

\* After that those that have been given a base class are complete.
LEMMA FixesComplete ==
    ASSUME AreTypes(globals), NEW fixups, NEW n \in Nat, fixupTypes(fixups, n)
    PROVE  /\ AreTypes(globals') /\ DOMAIN globals' = DOMAIN globals
           /\ \A c \in DOMAIN globals : globals'[c].needFixup =>
                globals[c].needFixup /\ \A x \in 1..n : ~(fixups[x].kind = "base" /\ fixups[x].target = c)
<1>1. PICK t : t[0] = globals /\ globals' = t[n] /\ \A i \in 1..n : t[i] = Fixed(t[i - 1], fixups[i])
  BY FixesAre
<1> DEFINE P(i) == /\ AreTypes(t[i]) /\ DOMAIN t[i] = DOMAIN globals
                   /\ \A c \in DOMAIN globals : t[i][c].needFixup =>
                        globals[c].needFixup /\ \A x \in 1..i : ~(fixups[x].kind = "base" /\ fixups[x].target = c)
           S == {i \in Nat : P(i)}
<1>2. 0 \in S
  BY <1>1
<1>3. ASSUME NEW i \in 0..n, i > 0, i - 1 \in S PROVE i \in S
  <2>1. PICK a, b, f : a = t[i - 1] /\ b = t[i] /\ f = fixups[i]
    OBVIOUS
  <2>2. b = Fixed(a, f) /\ AreTypes(a) /\ DOMAIN a = DOMAIN globals
    BY <1>1, <1>3, <2>1
  <2>3. /\ AreTypes(b) /\ DOMAIN b = DOMAIN a
        /\ \A c \in DOMAIN a : b[c].needFixup => a[c].needFixup /\ ~(f.kind = "base" /\ f.target = c)
    BY <2>2, FixedIs
  <2>4. ASSUME NEW c \in DOMAIN globals, t[i][c].needFixup
        PROVE  globals[c].needFixup /\ \A x \in 1..i : ~(fixups[x].kind = "base" /\ fixups[x].target = c)
    <3>1. a[c].needFixup /\ ~(f.kind = "base" /\ f.target = c)
      BY <2>1, <2>2, <2>3, <2>4
    <3>2. globals[c].needFixup /\ \A x \in 1..(i - 1) : ~(fixups[x].kind = "base" /\ fixups[x].target = c)
      BY <1>3, <2>1, <3>1
    <3>3. ASSUME NEW x \in 1..i PROVE x = i \/ x \in 1..(i - 1)
      BY <1>3
    <3> QED BY <2>1, <3>1, <3>2, <3>3
  <2>5. AreTypes(t[i]) /\ DOMAIN t[i] = DOMAIN globals
    BY <2>1, <2>2, <2>3
  <2>6. P(i) /\ i \in Nat
    BY <2>4, <2>5
  <2> QED BY <2>6
<1>4. n \in S
  <2> HIDE DEF S
  <2>1. 0..n \subseteq S
    BY <1>2, <1>3, UpTo
  <2> QED BY <2>1
<1> QED BY <1>1, <1>4

\* The first reference that is missing comes after some that are not.
LEMMA MissingIs ==
    ASSUME NEW fixups, IsList(fixups), Missing(fixups) # {}
    PROVE  Min(Missing(fixups)) \in 1..Len(fixups) /\ Min(Missing(fixups)) - 1 \in Nat
<1>1. PICK S : S = Missing(fixups)
  OBVIOUS
<1>2. S \in SUBSET Nat /\ S \subseteq 1..Len(fixups) /\ Len(fixups) \in Nat
  BY <1>1, ListIs DEF Missing
<1>3. PICK m \in S : \A k \in S : m <= k
  BY <1>1, <1>2, Least
<1>4. Min(S) \in S
  BY <1>3 DEF Min
<1> QED BY <1>1, <1>2, <1>4

\* Most steps leave the classes alone.
LEMMA ClassesStay ==
    ASSUME [Next]_vars
    PROVE  \/ UNCHANGED globals
           \/ loadClassSection \/ loadPropertySection \/ loadMethod \/ resolveTypes \/ typeMissing
<1>1. CASE \E n \in Modules : CompileAgain(n)
  BY <1>1 DEF CompileAgain, state
<1>2. CASE MainLoads \/ ScriptLoads
  BY <1>2 DEF MainLoads, ScriptLoads, Load, state
<1>3. CASE Seen
  BY <1>3 DEF Seen, state
<1>4. CASE Sections
  BY <1>4 DEF Sections, loadModuleSection, loadDependencySection, DependencyThere, DependencyLoaded, DependencyFails,
     Depends, loadInitializer, loadEndFunctionSection, loadEndClassSection, loadEndModuleSection, state
<1>5. CASE Afterwards
  BY <1>2, <1>5 DEF Afterwards, initializeModule, initialized, InitializerReturns, LoadReturns, LoadFails,
     ScriptEnds, ScriptThrows, ScriptLoaded, Ends, state
<1>6. CASE UNCHANGED vars
  BY <1>6 DEF vars, state
<1> QED BY <1>1, <1>2, <1>3, <1>4, <1>5, <1>6 DEF Next

\* A property or a method is defined in a class, which is complete as before.
LEMMA SlotsAre ==
    ASSUME AreTypes(globals), loadPropertySection \/ loadMethod
    PROVE  /\ AreTypes(globals') /\ DOMAIN globals' = DOMAIN globals
           /\ \A c \in DOMAIN globals : globals'[c].needFixup = globals[c].needFixup
<1>1. PICK d, x, y : globals' = [globals EXCEPT ![d].statics = x] \/ globals' = [globals EXCEPT ![d].prototype = y]
  <2>1. CASE loadPropertySection
    <3>1. CASE Section.static
      <4>1. PICK x : globals' = [globals EXCEPT ![Top.current].statics = x]
        BY <2>1, <3>1 DEF loadPropertySection
      <4> QED BY <4>1
    <3>2. CASE ~Section.static
      <4>1. PICK x : globals' = [globals EXCEPT ![Top.current].prototype = x]
        BY <2>1, <3>2 DEF loadPropertySection
      <4> QED BY <4>1
    <3> QED BY <3>1, <3>2
  <2>2. CASE loadMethod
    BY <2>2, Zenon DEF loadMethod
  <2> QED BY <2>1, <2>2
<1>2. PICK t : /\ globals' = [globals EXCEPT ![d] = t]
               /\ t = [globals[d] EXCEPT !.statics = x] \/ t = [globals[d] EXCEPT !.prototype = y]
  BY <1>1
<1>3. d \in DOMAIN globals => IsType(t) /\ t.needFixup = globals[d].needFixup
  BY <1>2 DEF AreTypes, IsType
<1>4. PICK gl : gl = globals'
  OBVIOUS
<1>5. /\ AreTypes(gl) /\ DOMAIN gl = DOMAIN globals
      /\ \A c \in DOMAIN globals : gl[c] = IF c = d THEN t ELSE globals[c]
  BY <1>2, <1>3, <1>4, TypePut
<1> QED BY <1>3, <1>4, <1>5

\* A class that is added is there, next to the others.
LEMMA ClassThere ==
    ASSUME AreTypes(globals), NEW d, NEW t, IsType(t), NEW gl,
           gl = [c \in DOMAIN globals \cup {d} |-> IF c = d THEN t ELSE globals[c]]
    PROVE  /\ AreTypes(gl) /\ DOMAIN gl = DOMAIN globals \cup {d} /\ gl[d] = t
           /\ \A c \in DOMAIN globals : c # d => gl[c] = globals[c]
BY DEF AreTypes

\* Classes are classes.
LEMMA TypesKeep ==
    ASSUME LInv, [Next]_vars
    PROVE  AreTypes(globals')
<1>1. AreTypes(globals)
  BY DEF LInv, Types, AreTypes
<1>2. CASE loadClassSection
  <2>1. PICK type : IsType(type) /\
            globals' = [c \in DOMAIN globals \cup {Section.name} |-> IF c = Section.name THEN type ELSE globals[c]]
    BY <1>2, ClassAdds
  <2>2. PICK d, gl : d = Section.name /\ gl = globals'
    OBVIOUS
  <2>3. AreTypes(gl)
    BY <1>1, <2>1, <2>2, ClassThere
  <2> QED BY <2>2, <2>3
<1>3. CASE loadPropertySection \/ loadMethod
  BY <1>1, <1>3, SlotsAre
<1>4. CASE resolveTypes \/ typeMissing
  <2>1. After
    BY <1>4 DEF resolveTypes, typeMissing, Unresolved
  <2>2. IsList(mods[Following].fixups)
    BY <2>1, FollowingIs DEF LInv, Types, ModulesOK, IsModule
  <2>3. PICK fixups : fixups = mods[Following].fixups
    OBVIOUS
  <2>4. PICK n \in Nat : fixupTypes(fixups, n)
    <3>1. CASE resolveTypes
      BY <2>2, <2>3, <3>1, ListIs DEF resolveTypes
    <3>2. CASE typeMissing
      BY <2>2, <2>3, <3>2, MissingIs DEF typeMissing
    <3> QED BY <1>4, <3>1, <3>2
  <2> QED BY <1>1, <2>4, FixesComplete
<1>5. CASE UNCHANGED globals
  BY <1>1, <1>5
<1> QED BY <1>2, <1>3, <1>4, <1>5, ClassesStay

\* What a call returns is one of these.
LEMMA ReturnedKeeps ==
    ASSUME LInv, [Next]_vars
    PROVE  returned' \in {"no", "ok", "failed"}
<1>0. returned \in {"no", "ok", "failed"}
  BY DEF LInv, Types
<1>1. CASE \E n \in Modules : CompileAgain(n)
  BY <1>0, <1>1 DEF CompileAgain
<1>2. CASE MainLoads \/ ScriptLoads
  BY <1>2 DEF MainLoads, ScriptLoads, Load, ejsLoadModule
<1>3. CASE Seen
  BY <1>3 DEF Seen
<1>4. CASE Sections
  <2>1. CASE loadClassSection
    BY <1>0, <2>1, ClassAdds
  <2> QED BY <1>0, <1>4, <2>1 DEF Sections, loadModuleSection, loadDependencySection, DependencyThere, DependencyLoaded,
     DependencyFails, loadPropertySection, loadMethod, loadInitializer, loadEndFunctionSection, loadEndClassSection,
     loadEndModuleSection
<1>5. CASE Afterwards
  BY <1>0, <1>2, <1>5 DEF Afterwards, resolveTypes, typeMissing, initializeModule, initialized, InitializerReturns,
     LoadReturns, LoadFails, ScriptEnds, ScriptThrows, ScriptLoaded, Ends
<1>6. CASE UNCHANGED vars
  BY <1>0, <1>6 DEF vars
<1> QED BY <1>1, <1>2, <1>3, <1>4, <1>5, <1>6 DEF Next

-----------------------------------------------------------------------------
(***************************************************************************)
(* The list of modules.                                                     *)
(***************************************************************************)

\* Nothing is loaded at first.
LEMMA LInvInit ==
    ASSUME Init
    PROVE  LInv
<1>1. modules = <<>> /\ mods = <<>> /\ stack = <<>> /\ returned = "no" /\ globals = [Object |-> Object]
  BY Zenon DEF Init
<1>2. IsList(<<>>) /\ Len(<<>>) = 0
  BY DEF IsList
<1>3. \A c \in DOMAIN globals : IsType(globals[c])
  <2>1. IsType(Object)
    BY DEF IsType, Object
  <2>2. PICK o : o = Object
    OBVIOUS
  <2>3. globals = [Object |-> o]
    BY <1>1, <2>2, Zenon
  <2>4. \A c \in DOMAIN globals : globals[c] = o
    BY <2>3
  <2> QED BY <2>1, <2>2, <2>4, Zenon
<1>4. Types
  BY <1>1, <1>2, <1>3 DEF Types, ModulesOK
<1>5. StackOK(stack, modules, mods) /\ TopOK(stack, modules, mods, returned) /\ Listed(stack, modules, mods)
  BY <1>1, <1>2 DEF StackOK, TopOK, Listed
<1> QED BY <1>4, <1>5 DEF LInv

\* Every step keeps what is known of them.
LEMMA LInvNext ==
    ASSUME LInv, FilesAreWhole, [Next]_vars
    PROVE  LInv'
<1>1. Keeps
  BY StepKeeps
<1>2. Types'
  BY <1>1, TypesKeep, ReturnedKeeps DEF Types, Keeps, AreTypes
<1> QED BY <1>1, <1>2 DEF LInv, Keeps, Sound

\* Whatever scripts and dependencies load, what is known of the list of modules and
\* of the calls of loadScriptModule holds all the time, if the files of the compiler
\* are whole.
THEOREM LoaderInvariant == Spec /\ []FilesAreWhole => []LInv
<1>1. Init => LInv
  BY LInvInit
<1>2. LInv /\ FilesAreWhole /\ [Next]_vars => LInv'
  BY LInvNext
<1> QED BY <1>1, <1>2, PTL DEF Spec

\* Once no load is under way, every module on the list has run to its end, so that
\* ejsLookupModule never finds one that has not: a load that fails takes off the list
\* whatever it added that did not.
THEOREM ListedModulesHaveRun == Spec /\ []FilesAreWhole => []ListedHaveRun
<1>1. LInv => ListedHaveRun
  <2> SUFFICES ASSUME LInv, stack = <<>>, NEW i \in DOMAIN modules PROVE mods[modules[i]].ran = "done"
    BY DEF ListedHaveRun
  <2>1. i \in 1..Len(modules)
    BY ListIs DEF LInv, Types, ModulesOK
  <2>2. Len(stack) = 0
    BY ListIs DEF LInv, StackOK
  <2> QED BY <2>1, <2>2 DEF LInv, Listed, Done
<1> QED BY <1>1, LoaderInvariant, PTL

-----------------------------------------------------------------------------
(***************************************************************************)
(* What steps do.                                                           *)
(***************************************************************************)
\* Modules are what they were, and what has run has
Grows(md, md2) ==
    /\ Len(md) \in Nat /\ Len(md2) \in Nat /\ Len(md) <= Len(md2)
    /\ \A m \in 1..Len(md) :
        /\ md2[m].name = md[m].name /\ md2[m].checksum = md[m].checksum /\ md2[m].file = md[m].file
        /\ md[m].ran = "done" => md2[m].ran = "done"

\* One module that changes.
LEMMA OneChanges ==
    ASSUME NEW md, IsList(md), NEW m \in 1..Len(md), NEW r, r.name = md[m].name, r.checksum = md[m].checksum,
           r.file = md[m].file, md[m].ran = "done" => r.ran = "done"
    PROVE  Grows(md, Put(md, m, r)) /\ Len(Put(md, m, r)) = Len(md)
<1>1. PICK md2 : md2 = Put(md, m, r)
  OBVIOUS
<1>2. IsList(md2) /\ Len(md2) = Len(md) /\ (\A i \in 1..Len(md) : i # m => md2[i] = md[i]) /\ md2[m] = r
        /\ Len(md) \in Nat
  BY <1>1, PutIs, ListIs
<1> QED BY <1>1, <1>2 DEF Grows

\* Only a module section makes a module.
LEMMA ModulesGrow ==
    ASSUME LInv, [Next]_vars
    PROVE  Grows(mods, mods') /\ (loadModuleSection \/ Len(mods') = Len(mods))
<1>0. ModulesOK(modules, mods) /\ IsList(mods) /\ Len(mods) \in Nat
  BY ListIs DEF LInv, Types, ModulesOK
<1>1. CASE UNCHANGED mods
  BY <1>0, <1>1 DEF Grows
<1>2. CASE loadModuleSection
  <2>1. PICK r : mods' = Append(mods, r)
    BY <1>2 DEF loadModuleSection
  <2>2. PICK md : md = mods'
    OBVIOUS
  <2>3. Len(md) = Len(mods) + 1 /\ \A i \in 1..Len(mods) : md[i] = mods[i]
    BY <1>0, <2>1, <2>2, AppendIs
  <2>4. Grows(mods, md)
    BY <1>0, <2>3 DEF Grows
  <2> QED BY <1>2, <2>2, <2>4
<1>3. ASSUME NEW m \in 1..Len(mods), NEW r, r = mods[m], NEW md, md = mods', NEW x,
             \/ md = Referring(mods, m, x)
             \/ md = Scripted(mods, m, x)
             \/ md = Resolved(mods, m)
             \/ r.ran # "done" /\ md = Ended(mods, m, x)
             \/ r.ran # "done" /\ md = Begun(mods, m, x)
      PROVE  Grows(mods, mods') /\ Len(mods') = Len(mods)
  <2>1. IsModule(r)
    BY <1>0, <1>3 DEF ModulesOK
  <2>2. PICK c : /\ md = Put(mods, m, c) /\ c.name = r.name /\ c.checksum = r.checksum /\ c.file = r.file
                 /\ r.ran = "done" => c.ran = "done"
    <3>1. CASE md = Referring(mods, m, x)
      <4>1. md = Put(mods, m, Changed(r, r.script, x, r.loading, r.initialized, r.ran))
        BY <1>0, <1>3, <2>1, <3>1, FixupsChange
      <4> QED BY <4>1 DEF Changed
    <3>2. CASE md = Scripted(mods, m, x)
      <4>1. md = Put(mods, m, Changed(r, x, r.fixups, r.loading, r.initialized, r.ran))
        BY <1>0, <1>3, <2>1, <3>2, ScriptChanges
      <4> QED BY <4>1 DEF Changed
    <3>3. CASE md = Resolved(mods, m)
      <4>1. md = Put(mods, m, Changed(r, r.script, r.fixups, FALSE, r.initialized, r.ran))
        BY <1>0, <1>3, <2>1, <3>3, LoadingChanges
      <4> QED BY <4>1 DEF Changed
    <3>4. CASE r.ran # "done" /\ md = Ended(mods, m, x)
      <4>1. md = Put(mods, m, Changed(r, r.script, r.fixups, r.loading, r.initialized, x))
        BY <1>0, <1>3, <2>1, <3>4, RanChanges
      <4> QED BY <3>4, <4>1 DEF Changed
    <3>5. CASE r.ran # "done" /\ md = Begun(mods, m, x)
      <4>1. md = Put(mods, m, Changed(r, r.script, r.fixups, r.loading, TRUE, x))
        BY <1>0, <1>3, <2>1, <3>5, InitializedChanges
      <4> QED BY <3>5, <4>1 DEF Changed
    <3> QED BY <1>3, <3>1, <3>2, <3>3, <3>4, <3>5
  <2> QED BY <1>0, <1>3, <2>2, OneChanges
<1>4. CASE loadClassSection
  <2>1. PICK fixups : mods' = [mods EXCEPT ![Top.mp].fixups = @ \o fixups]
    BY <1>4, ClassAdds
  <2>2. Top.mp \in 1..Len(mods)
    <3>1. At("class")
      BY <1>4 DEF loadClassSection
    <3> QED BY <3>1, SectionHas
  <2>3. PICK m, r, md, x : m = Top.mp /\ r = mods[m] /\ md = mods' /\ x = r.fixups \o fixups
    OBVIOUS
  <2>4. md = Referring(mods, m, x)
    BY <2>1, <2>3 DEF Referring
  <2> QED BY <1>3, <2>2, <2>3, <2>4
<1>5. CASE loadInitializer
  <2>1. mods' = [mods EXCEPT ![Top.mp].script = Section.script]
    BY <1>5 DEF loadInitializer
  <2>2. Top.mp \in 1..Len(mods)
    BY <1>5, SectionHas DEF loadInitializer
  <2>3. PICK m, r, md, x : m = Top.mp /\ r = mods[m] /\ md = mods' /\ x = Section.script
    OBVIOUS
  <2>4. md = Scripted(mods, m, x)
    BY <2>1, <2>3 DEF Scripted
  <2> QED BY <1>3, <2>2, <2>3, <2>4
<1>6. CASE resolveTypes
  <2>1. mods' = [mods EXCEPT ![Following].loading = FALSE]
    BY <1>6 DEF resolveTypes
  <2>2. Following \in 1..Len(mods)
    BY <1>6, FollowingIs DEF resolveTypes, Unresolved
  <2>3. PICK m, r, md : m = Following /\ r = mods[m] /\ md = mods'
    OBVIOUS
  <2>4. md = Resolved(mods, m)
    BY <2>1, <2>3 DEF Resolved
  <2> QED BY <1>3, <2>2, <2>3, <2>4
<1>7. CASE initializeModule
  <2>1. PICK x : mods' = Begun(mods, Following, x)
    BY <1>7, Zenon DEF initializeModule, Begun
  <2>2. Following \in 1..Len(mods) /\ ~mods[Following].initialized
    BY <1>7, FollowingIs DEF initializeModule
  <2>3. PICK m, r, md : m = Following /\ r = mods[m] /\ md = mods'
    OBVIOUS
  <2>4. r.ran # "done"
    BY <1>0, <2>2, <2>3 DEF ModulesOK, IsModule
  <2> QED BY <1>3, <2>1, <2>2, <2>3, <2>4
<1>8. CASE ScriptEnds \/ ScriptThrows \/ ScriptLoaded
  <2>1. PICK x : Ends(x)
    BY <1>8 DEF ScriptEnds, ScriptThrows, ScriptLoaded
  <2>2. stack # <<>> /\ Top.call = "initializer"
    BY <1>8 DEF ScriptEnds, ScriptThrows, ScriptLoaded, Running
  <2>3. Top.mp \in 1..Len(mods) /\ RunOK(Top, mods)
    BY <2>2, RunIs
  <2>4. PICK m, r, md : m = Top.mp /\ r = mods[m] /\ md = mods'
    OBVIOUS
  <2>5. md = Ended(mods, m, x) /\ r.ran # "done"
    BY <2>1, <2>3, <2>4 DEF Ends, Ended, RunOK
  <2> QED BY <1>3, <2>3, <2>4, <2>5
<1>9. \/ UNCHANGED mods \/ loadModuleSection \/ loadClassSection \/ loadInitializer \/ resolveTypes \/ initializeModule
      \/ ScriptEnds \/ ScriptThrows \/ ScriptLoaded
  <2>1. CASE \E n \in Modules : CompileAgain(n)
    BY <2>1 DEF CompileAgain, state
  <2>2. CASE MainLoads \/ ScriptLoads
    BY <2>2 DEF MainLoads, ScriptLoads, Load, state
  <2>3. CASE Seen
    BY <2>3 DEF Seen, state
  <2>4. CASE Sections
    BY <2>4 DEF Sections, loadDependencySection, DependencyThere, DependencyLoaded, DependencyFails, loadPropertySection,
       loadMethod, loadEndFunctionSection, loadEndClassSection, loadEndModuleSection, state
  <2>5. CASE Afterwards
    BY <2>2, <2>5 DEF Afterwards, typeMissing, initialized, InitializerReturns, LoadReturns, LoadFails, state
  <2>6. CASE UNCHANGED vars
    BY <2>6 DEF vars, state
  <2> QED BY <2>1, <2>2, <2>3, <2>4, <2>5, <2>6 DEF Next
<1> QED BY <1>1, <1>2, <1>4, <1>5, <1>6, <1>7, <1>8, <1>9

\* A load that goes on, and how
Passes(f) == f.phase = "sections" /\ f.at = Top.at + 1
Moved(f) ==
    /\ stack # <<>> /\ Top.call = "load" /\ Top.mp # None /\ stack' = Append(Below, f)
    /\ f.call = "load" /\ f.file = Top.file /\ f.mp = Top.mp /\ f.firstModule = Top.firstModule
    /\ \/ f.phase = "failed"
       \/ /\ modules' = modules /\ Top.phase # "failed"
          /\ \/ Passes(f) /\ Top.phase = "sections" /\ Kind(Top.file, Top.at) # "dependency"
             \/ Passes(f) /\ (DependencyThere \/ DependencyLoaded) /\ DependencyMatches
             \/ f.phase = "after" /\ loadEndModuleSection
             \/ f.phase = "after" /\ Top.phase \in {"after", "initializer"} /\ f.at > f.firstModule + 1

\* A load whose frame is that.
LEMMA FrameMoves ==
    ASSUME LInv, stack # <<>>, Top.call = "load", Top.mp # None,
           NEW at \in Nat \ {0}, NEW phase \in Phases, NEW current, NEW f,
           f = Frame(Top, at, phase, Top.mp, current), stack' = Append(Below, f)
    PROVE  /\ stack # <<>> /\ Top.call = "load" /\ Top.mp # None /\ stack' = Append(Below, f)
           /\ f.call = "load" /\ f.file = Top.file /\ f.mp = Top.mp /\ f.firstModule = Top.firstModule
           /\ f.at = at /\ f.phase = phase /\ Top.at \in Nat \ {0} /\ Top.firstModule \in Nat
<1>1. IsLoad(Top)
  BY TopHas
<1>2. Top.mp \in Nat
  BY <1>1 DEF IsLoad
<1> QED BY <1>1, <1>2, FrameIs DEF IsLoad

\* Sections that are no dependencies.
LEMMA SectionMoves ==
    ASSUME LInv, \/ loadClassSection \/ loadPropertySection \/ loadMethod \/ loadInitializer
                 \/ loadEndFunctionSection \/ loadEndClassSection
    PROVE  \E f : Moved(f) /\ Passes(f)
<1>1. PICK section \in {"class", "property", "function", "initializer", "function_end", "class_end"} :
        /\ At(section)
        /\ \/ stack' = Append(Below, Onward(Top))
           \/ \E current : stack' = Append(Below, Onward([Top EXCEPT !.current = current]))
        /\ modules' = modules
  <2>1. CASE loadClassSection
    <3>1. At("class")
      BY <2>1 DEF loadClassSection
    <3> QED BY <2>1, <3>1, ClassAdds
  <2>2. CASE loadPropertySection
    BY <2>2 DEF loadPropertySection, SetTop
  <2>3. CASE loadMethod
    BY <2>3 DEF loadMethod, SetTop
  <2>4. CASE loadInitializer
    BY <2>4 DEF loadInitializer, SetTop
  <2>5. CASE loadEndFunctionSection
    BY <2>5 DEF loadEndFunctionSection, SetTop, state
  <2>6. CASE loadEndClassSection
    BY <2>6 DEF loadEndClassSection, SetTop, state
  <2> QED BY <2>1, <2>2, <2>3, <2>4, <2>5, <2>6
<1>2. /\ stack # <<>> /\ Top.call = "load" /\ Top.phase = "sections" /\ IsLoad(Top) /\ Top.mp # None
      /\ Kind(Top.file, Top.at) = section /\ Top.at + 1 \in Nat \ {0}
  BY <1>1, SectionHas DEF IsLoad
<1>3. PICK current : stack' = Append(Below, Frame(Top, Top.at + 1, "sections", Top.mp, current))
  <2>1. Onward(Top) = Frame(Top, Top.at + 1, "sections", Top.mp, Top.current)
    BY <1>2, Changes
  <2>2. ASSUME NEW current
        PROVE  Onward([Top EXCEPT !.current = current]) = Frame(Top, Top.at + 1, "sections", Top.mp, current)
    <3>1. Onward([Top EXCEPT !.current = current]) = Frame(Top, Top.at + 1, Top.phase, Top.mp, current)
      BY <1>2, Changes, Zenon
    <3> QED BY <1>2, <3>1
  <2> QED BY <1>1, <2>1, <2>2
<1>4. PICK f : f = Frame(Top, Top.at + 1, "sections", Top.mp, current)
  OBVIOUS
<1>5. /\ stack' = Append(Below, f)
      /\ f.call = "load" /\ f.file = Top.file /\ f.mp = Top.mp /\ f.firstModule = Top.firstModule
      /\ f.at = Top.at + 1 /\ f.phase = "sections"
  BY <1>2, <1>3, <1>4, FrameMoves DEF Phases
<1> QED BY <1>1, <1>2, <1>5 DEF Moved, Passes

\* A dependency that is there now, or cannot be loaded.
LEMMA DependencyMoves ==
    ASSUME LInv, DependencyThere \/ DependencyLoaded \/ DependencyFails
    PROVE  \E f : Moved(f) /\ f.phase \in {"sections", "failed"}
<1>1. /\ stack # <<>> /\ Top.call = "load" /\ Top.phase \in {"sections", "dependency"} /\ IsLoad(Top) /\ Top.mp # None
  <2>1. CASE DependencyThere
    <3>1. At("dependency")
      BY <2>1 DEF DependencyThere
    <3> QED BY <3>1, SectionHas
  <2>2. CASE DependencyLoaded \/ DependencyFails
    <3>1. stack # <<>> /\ Top.call = "load" /\ Top.phase = "dependency"
      BY <2>2 DEF DependencyLoaded, DependencyFails, Loading
    <3>2. IsLoad(Top) /\ LoadOK(Top, modules, mods)
      BY <3>1, TopHas
    <3> QED BY <3>1, <3>2 DEF LoadOK
  <2> QED BY <2>1, <2>2
<1>2. Top.at \in Nat \ {0} /\ Top.at + 1 \in Nat \ {0}
  BY <1>1 DEF IsLoad
<1>3. \/ SectionFails
      \/ (DependencyThere \/ DependencyLoaded) /\ DependencyMatches /\ modules' = modules
         /\ stack' = Append(Below, Onward([Top EXCEPT !.phase = "sections"]))
  <2>1. CASE DependencyThere
    BY <2>1 DEF DependencyThere, Depends, SetTop
  <2>2. CASE DependencyLoaded
    BY <2>2 DEF DependencyLoaded, Depends, SetTop
  <2>3. CASE DependencyFails
    BY <2>3 DEF DependencyFails
  <2> QED BY <2>1, <2>2, <2>3
<1>4. CASE SectionFails
  <2>1. PICK f : f = Frame(Top, Top.at, "failed", Top.mp, Top.current)
    OBVIOUS
  <2>2. stack' = Append(Below, f)
    <3>1. [Top EXCEPT !.phase = "failed"] = Frame(Top, Top.at, "failed", Top.mp, Top.current)
      BY <1>1, Changes, Zenon
    <3> QED BY <1>4, <2>1, <3>1, Zenon DEF SectionFails, SetTop
  <2>3. /\ f.call = "load" /\ f.file = Top.file /\ f.mp = Top.mp /\ f.firstModule = Top.firstModule /\ f.phase = "failed"
    BY <1>1, <1>2, <2>1, <2>2, FrameMoves DEF Phases
  <2> QED BY <1>1, <2>2, <2>3 DEF Moved
<1>5. CASE /\ (DependencyThere \/ DependencyLoaded) /\ DependencyMatches /\ modules' = modules
           /\ stack' = Append(Below, Onward([Top EXCEPT !.phase = "sections"]))
  <2>1. PICK f : f = Frame(Top, Top.at + 1, "sections", Top.mp, Top.current)
    OBVIOUS
  <2>2. stack' = Append(Below, f)
    <3>1. Onward([Top EXCEPT !.phase = "sections"]) = Frame(Top, Top.at + 1, "sections", Top.mp, Top.current)
      BY <1>1, Changes, Zenon
    <3> QED BY <1>5, <2>1, <3>1, Zenon
  <2>3. /\ f.call = "load" /\ f.file = Top.file /\ f.mp = Top.mp /\ f.firstModule = Top.firstModule
        /\ f.phase = "sections" /\ f.at = Top.at + 1
    BY <1>1, <1>2, <2>1, <2>2, FrameMoves DEF Phases
  <2> QED BY <1>1, <1>5, <2>2, <2>3 DEF Moved, Passes
<1> QED BY <1>3, <1>4, <1>5

\* The end of the sections.
LEMMA EndMoves ==
    ASSUME LInv, loadEndModuleSection
    PROVE  \E f : Moved(f) /\ f.phase = "after" /\ f.at = f.firstModule + 1
<1>1. At("module_end") /\ stack' = Append(Below, [Top EXCEPT !.phase = "after", !.at = Top.firstModule + 1])
      /\ modules' = modules
  BY DEF loadEndModuleSection, SetTop, state
<1>2. /\ stack # <<>> /\ Top.call = "load" /\ Top.phase = "sections" /\ IsLoad(Top) /\ Top.mp # None
  BY <1>1, SectionHas
<1>3. PICK f : f = Frame(Top, Top.firstModule + 1, "after", Top.mp, Top.current)
  OBVIOUS
<1>4. Top.firstModule + 1 \in Nat \ {0}
  BY <1>2 DEF IsLoad
<1>5. stack' = Append(Below, f)
  <2>1. [Top EXCEPT !.phase = "after", !.at = Top.firstModule + 1]
          = Frame(Top, Top.firstModule + 1, "after", Top.mp, Top.current)
    BY <1>2, Changes, Zenon
  <2> QED BY <1>1, <1>3, <2>1, Zenon
<1>6. /\ f.call = "load" /\ f.file = Top.file /\ f.mp = Top.mp /\ f.firstModule = Top.firstModule
      /\ f.phase = "after" /\ f.at = Top.firstModule + 1
  BY <1>2, <1>3, <1>4, <1>5, FrameMoves DEF Phases
<1> QED BY <1>1, <1>2, <1>5, <1>6 DEF Moved

\* The steps of a load after its sections that call nothing.
LEMMA AfterMoves ==
    ASSUME LInv, \/ typeMissing \/ initialized \/ InitializerReturns
                 \/ initializeModule /\ mods[Following].script.does = "nothing"
    PROVE  \E f : Moved(f) /\ (f.phase = "failed" \/ (f.phase = "after" /\ f.at > f.firstModule + 1))
<1>1. CASE typeMissing
  <2>1. After /\ stack' = Append(Below, [Top EXCEPT !.phase = "failed"])
    BY <1>1 DEF typeMissing, Unresolved, SetTop
  <2>2. stack # <<>> /\ Top.call = "load" /\ IsLoad(Top) /\ Top.mp # None
    BY <2>1, FollowingIs
  <2>3. PICK f : f = Frame(Top, Top.at, "failed", Top.mp, Top.current)
    OBVIOUS
  <2>4. stack' = Append(Below, f)
    <3>1. [Top EXCEPT !.phase = "failed"] = Frame(Top, Top.at, "failed", Top.mp, Top.current)
      BY <2>2, Changes, Zenon
    <3> QED BY <2>1, <2>3, <3>1, Zenon
  <2>5. Top.at \in Nat \ {0}
    BY <2>2 DEF IsLoad
  <2>6. /\ f.call = "load" /\ f.file = Top.file /\ f.mp = Top.mp /\ f.firstModule = Top.firstModule /\ f.phase = "failed"
    BY <2>2, <2>3, <2>4, <2>5, FrameMoves DEF Phases
  <2> QED BY <2>2, <2>4, <2>6 DEF Moved
<1>2. CASE initialized \/ (initializeModule /\ mods[Following].script.does = "nothing")
  <2>1. After /\ stack' = Append(Below, Onward(Top)) /\ modules' = modules
    BY <1>2 DEF initialized, initializeModule, SetTop, state
  <2>2. /\ stack # <<>> /\ Top.call = "load" /\ Top.phase = "after" /\ IsLoad(Top) /\ Top.mp # None
        /\ Top.at >= Top.firstModule + 1 /\ Top.firstModule \in Nat
    BY <2>1, FollowingIs DEF IsLoad
  <2>3. PICK f : f = Frame(Top, Top.at + 1, "after", Top.mp, Top.current)
    OBVIOUS
  <2>4. stack' = Append(Below, f)
    BY <2>1, <2>2, <2>3, Changes
  <2>5. Top.at \in Nat \ {0} /\ Top.at + 1 \in Nat \ {0}
    BY <2>2 DEF IsLoad
  <2>6. /\ f.call = "load" /\ f.file = Top.file /\ f.mp = Top.mp /\ f.firstModule = Top.firstModule
        /\ f.phase = "after" /\ f.at = Top.at + 1
    BY <2>2, <2>3, <2>4, <2>5, FrameMoves DEF Phases
  <2>7. f.at > f.firstModule + 1
    BY <2>2, <2>5, <2>6
  <2> QED BY <2>1, <2>2, <2>4, <2>6, <2>7 DEF Moved
<1>3. CASE InitializerReturns
  <2>1. /\ stack # <<>> /\ Top.call = "load" /\ Top.phase = "initializer" /\ modules' = modules
        /\ stack' = Append(Below, [Top EXCEPT !.phase = IF returned = "ok" THEN "after" ELSE "failed"])
    BY <1>3 DEF InitializerReturns, Loading, SetTop, state
  <2>2. IsLoad(Top) /\ LoadOK(Top, modules, mods)
    BY <2>1, TopHas
  <2>3. Top.mp # None /\ Top.at > Top.firstModule + 1 /\ Top.at \in Nat \ {0}
    BY <2>1, <2>2 DEF LoadOK, IsLoad
  <2>4. PICK phase : phase = IF returned = "ok" THEN "after" ELSE "failed"
    OBVIOUS
  <2>5. PICK f : f = Frame(Top, Top.at, phase, Top.mp, Top.current)
    OBVIOUS
  <2>6. stack' = Append(Below, f)
    <3>1. [Top EXCEPT !.phase = phase] = Frame(Top, Top.at, phase, Top.mp, Top.current)
      BY <2>2, Changes, Zenon
    <3> QED BY <2>1, <2>4, <2>5, <3>1, Zenon
  <2>7. /\ f.call = "load" /\ f.file = Top.file /\ f.mp = Top.mp /\ f.firstModule = Top.firstModule
        /\ f.phase = phase /\ f.at = Top.at
    BY <2>1, <2>3, <2>4, <2>5, <2>6, FrameMoves DEF Phases
  <2> QED BY <2>1, <2>3, <2>4, <2>6, <2>7 DEF Moved
<1> QED BY <1>1, <1>2, <1>3

\* A load by a script that begins
LoadStarts(n, reload) ==
    /\ stack # <<>> => Top.call = "initializer"
    /\ stack' = Append(stack, LoadFrame(n, reload)) /\ (clean' => clean /\ ejsLookupModule(n) = None)
    /\ modules' = modules

\* A call that returns
Pops ==
    /\ stack # <<>> /\ stack' = Below
    /\ \/ LoadReturns
       \/ LoadFails
       \/ Top.call = "initializer" /\ returned' # "no" /\ modules' = modules

\* What a step does to the calls.
LEMMA StepIs ==
    ASSUME LInv, [Next]_vars
    PROVE  /\ \/ UNCHANGED <<stack, modules>>
              \/ \E f : Moved(f)
              \/ loadModuleSection
              \/ Pops
              \/ loadDependencySection
              \/ initializeModule /\ mods[Following].script.does # "nothing"
              \/ \E n \in Modules, reload \in Reloads : LoadStarts(n, reload)
           /\ clean' => clean /\ ~LoadFails
<1>1. CASE \E n \in Modules : CompileAgain(n)
  BY <1>1 DEF CompileAgain, state, LoadFails, Loading
<1>2. ASSUME NEW n, Load(n), stack # <<>> => Top.call = "initializer", n \in Modules
      PROVE  /\ UNCHANGED <<stack, modules>> \/ \E m \in Modules, reload \in Reloads : LoadStarts(m, reload)
             /\ clean' => clean /\ ~LoadFails
  <2>1. PICK reload \in Reloads : ejsLoadModule(n, reload) /\ clean' = (clean /\ ~(reload /\ ejsLookupModule(n) # None))
    BY <1>2 DEF Load
  <2>2. modules' = modules
    BY <1>2 DEF Load, state
  <2>3. ~LoadFails
    BY <1>2 DEF LoadFails, Loading
  <2>4. CASE ~reload /\ ejsLookupModule(n) # None
    BY <2>1, <2>2, <2>3, <2>4 DEF ejsLoadModule
  <2>5. CASE ~(~reload /\ ejsLookupModule(n) # None)
    <3>1. stack' = Append(stack, LoadFrame(n, reload))
      BY <2>1, <2>5 DEF ejsLoadModule
    <3>2. clean' => clean /\ ejsLookupModule(n) = None
      BY <2>1, <2>5, Zenon
    <3>3. LoadStarts(n, reload)
      BY <1>2, <2>2, <3>1, <3>2 DEF LoadStarts
    <3> QED BY <1>2, <2>3, <3>2, <3>3
  <2> QED BY <2>4, <2>5
<1>3. CASE MainLoads
  BY <1>2, <1>3 DEF MainLoads
<1>4. CASE Seen
  BY <1>4 DEF Seen, state, LoadFails, Loading
<1>5. CASE Sections
  <2>1. Top.phase \in {"sections", "dependency"} /\ (clean' => clean)
    <3>1. Top.phase \in {"sections", "dependency"} /\ clean' = clean
      <4>1. CASE loadClassSection
        <5>1. At("class")
          BY <4>1 DEF loadClassSection
        <5>2. clean' = clean
          BY <4>1, ClassAdds, Zenon
        <5> QED BY <5>1, <5>2 DEF At, Loading
      <4>2. CASE loadPropertySection
        BY <4>2 DEF loadPropertySection, At, Loading
      <4>3. CASE loadMethod
        BY <4>3 DEF loadMethod, At, Loading
      <4>4. CASE DependencyThere \/ DependencyLoaded \/ DependencyFails
        BY <4>4 DEF DependencyThere, DependencyLoaded, DependencyFails, Depends, At, Loading
      <4> QED BY <1>5, <4>1, <4>2, <4>3, <4>4 DEF Sections, loadModuleSection, loadDependencySection, loadInitializer,
          loadEndFunctionSection, loadEndClassSection, loadEndModuleSection, At, Loading
    <3> QED BY <3>1, Zenon
  <2>2. ~LoadFails
    BY <2>1 DEF LoadFails, Loading
  <2>3. CASE \/ loadClassSection \/ loadPropertySection \/ loadMethod \/ loadInitializer
             \/ loadEndFunctionSection \/ loadEndClassSection
    BY <2>1, <2>2, <2>3, SectionMoves
  <2>4. CASE DependencyThere \/ DependencyLoaded \/ DependencyFails
    BY <2>1, <2>2, <2>4, DependencyMoves
  <2>5. CASE loadEndModuleSection
    BY <2>1, <2>2, <2>5, EndMoves
  <2> QED BY <1>5, <2>1, <2>2, <2>3, <2>4, <2>5 DEF Sections
<1>6. CASE resolveTypes \/ typeMissing \/ initializeModule \/ initialized \/ InitializerReturns
  <2>1. (clean' => clean) /\ ~LoadFails
    BY <1>6 DEF resolveTypes, typeMissing, initializeModule, initialized, InitializerReturns, Unresolved, After, Loading,
       LoadFails
  <2>2. CASE resolveTypes
    BY <2>1, <2>2 DEF resolveTypes
  <2>3. CASE initializeModule /\ mods[Following].script.does # "nothing"
    BY <2>1, <2>3
  <2>4. CASE \/ typeMissing \/ initialized \/ InitializerReturns
             \/ initializeModule /\ mods[Following].script.does = "nothing"
    BY <2>1, <2>4, AfterMoves
  <2> QED BY <1>6, <2>2, <2>3, <2>4
<1>7. CASE LoadReturns
  BY <1>7 DEF LoadReturns, Loading, LoadFails, Pops
<1>8. CASE LoadFails
  BY <1>8 DEF Loading, LoadFails, Pops
<1>9. CASE ScriptEnds \/ ScriptThrows \/ ScriptLoaded
  <2>1. PICK x : Ends(x)
    BY <1>9 DEF ScriptEnds, ScriptThrows, ScriptLoaded
  <2>2. stack # <<>> /\ Top.call = "initializer"
    BY <1>9 DEF ScriptEnds, ScriptThrows, ScriptLoaded, Running
  <2> QED BY <2>1, <2>2 DEF Ends, Pops, LoadFails, Loading
<1>10. CASE ScriptLoads
  <2>1. /\ stack # <<>> /\ Top.call = "initializer" /\ mods[Top.mp].script.does \in {"loads", "tries"}
        /\ Load(mods[Top.mp].script.module)
    BY <1>10 DEF ScriptLoads, Running
  <2>2. mods[Top.mp].script.module \in Modules
    BY <2>1, RunIs DEF LInv, Types, ModulesOK, IsModule
  <2> QED BY <1>2, <2>1, <2>2
<1>11. CASE UNCHANGED vars
  <2>1. UNCHANGED <<stack, modules, clean>>
    BY <1>11 DEF vars, state
  <2>2. ~LoadFails
    <3> SUFFICES ASSUME LoadFails PROVE FALSE
      OBVIOUS
    <3>1. stack # <<>> /\ stack' = Front(stack)
      BY DEF LoadFails, Loading, Below
    <3>2. Len(Front(stack)) = Len(stack) - 1 /\ Len(stack) \in Nat
      BY <3>1, FrontIs DEF LInv, StackOK
    <3>3. Front(stack) = stack
      BY <2>1, <3>1
    <3> QED BY <3>2, <3>3
  <2> QED BY <2>1, <2>2
<1> QED BY <1>1, <1>3, <1>4, <1>5, <1>6, <1>7, <1>8, <1>9, <1>10, <1>11 DEF Next, Afterwards

\* What a search of the list finds.
LEMMA LookupIs ==
    ASSUME ModulesOK(modules, mods), NEW n
    PROVE  /\ ejsLookupModule(n) = None => \A k \in 1..Len(modules) : mods[modules[k]].name # n
           /\ ejsLookupModule(n) # None => \E k \in 1..Len(modules) : mods[modules[k]].name = n
           /\ (\E k \in 1..Len(modules) : mods[modules[k]].name = n) =>
                \E k \in 1..Len(modules) : ejsLookupModule(n) = modules[k] /\ mods[modules[k]].name = n
                                           /\ ejsLookupModule(n) # None
<1> DEFINE listed == {i \in DOMAIN modules : mods[modules[i]].name = n}
<1>1. ejsLookupModule(n) = IF listed = {} THEN None ELSE modules[CHOOSE i \in listed : \A j \in listed : i <= j]
  BY DEF ejsLookupModule
<1>2. DOMAIN modules = 1..Len(modules) /\ Len(modules) \in Nat
  BY ListIs DEF ModulesOK
<1>3. listed = {i \in 1..Len(modules) : mods[modules[i]].name = n} /\ listed \in SUBSET Nat
  BY <1>2
<1>4. ASSUME listed # {}
      PROVE  \E k \in 1..Len(modules) : ejsLookupModule(n) = modules[k] /\ mods[modules[k]].name = n
                                        /\ ejsLookupModule(n) # None
  <2>1. PICK k : k = CHOOSE i \in listed : \A j \in listed : i <= j
    OBVIOUS
  <2>2. k \in listed
    <3> HIDE DEF listed
    <3>1. \E i \in listed : \A j \in listed : i <= j
      BY <1>3, <1>4, Least
    <3> QED BY <2>1, <3>1
  <2>3. k \in 1..Len(modules) /\ mods[modules[k]].name = n
    BY <1>3, <2>2
  <2>4. ejsLookupModule(n) = modules[k]
    BY <1>1, <1>4, <2>1
  <2>5. modules[k] # None
    BY <2>3 DEF ModulesOK, None
  <2> QED BY <2>3, <2>4, <2>5
<1>5. (\E k \in 1..Len(modules) : mods[modules[k]].name = n) => listed # {}
  BY <1>3
<1>6. ejsLookupModule(n) # None => listed # {}
  BY <1>1
<1> HIDE DEF listed
<1> QED BY <1>4, <1>5, <1>6

-----------------------------------------------------------------------------
(***************************************************************************)
(* Modules run once.                                                        *)
(***************************************************************************)
IsFailing(s) == s # <<>> /\ s[Len(s)].call = "load" /\ s[Len(s)].phase = "failed"
Makes(s, name) == s # <<>> /\ s[Len(s)].call = "load" /\ s[Len(s)].mp = None /\ name = NameIn(s[Len(s)].file)

\* Modules that stay on the list, while no load is about to make one of the same name.
LEMMA OnceStays ==
    ASSUME NEW s, NEW ms, NEW md, Once(s, ms, md), NEW md2, Grows(md, md2), Len(md2) = Len(md),
           NEW s2, NEW ms2, IsFailing(s2) \/ (ms2 = ms /\ ~IsFailing(s)),
           \A m \in 1..Len(md) : ~Makes(s2, md[m].name)
    PROVE  Once(s2, ms2, md2)
<1>1. \A m \in 1..Len(md) : md2[m].name = md[m].name
  BY DEF Grows
<1>2. \A m, n \in 1..Len(md2) : md2[m].name = md2[n].name => m = n
  BY <1>1 DEF Once
<1>3. IsFailing(s2) \/ \A m \in 1..Len(md2) : \E k \in 1..Len(ms2) : ms2[k] = m
  BY DEF Once, IsFailing
<1>4. s2 # <<>> /\ s2[Len(s2)].call = "load" /\ s2[Len(s2)].mp = None
        => \A m \in 1..Len(md2) : md2[m].name # NameIn(s2[Len(s2)].file)
  BY <1>1 DEF Makes
<1> QED BY <1>2, <1>3, <1>4 DEF Once, IsFailing

\* A module that is not on the list was not made.
LEMMA NotMade ==
    ASSUME Once(stack, modules, mods), ModulesOK(modules, mods), ~IsFailing(stack), NEW n, ejsLookupModule(n) = None
    PROVE  \A m \in 1..Len(mods) : mods[m].name # n
<1>1. \A m \in 1..Len(mods) : \E k \in 1..Len(modules) : modules[k] = m
  BY DEF Once, IsFailing
<1>2. \A k \in 1..Len(modules) : mods[modules[k]].name # n
  BY LookupIs
<1> QED BY <1>1, <1>2

\* The module of a file is made, and no other has its name.
LEMMA OnceMade ==
    ASSUME LInv, Once(stack, modules, mods), loadModuleSection
    PROVE  Once(stack', modules', mods')
<1>1. PICK r : mods' = Append(mods, r) /\ r.name = Section.name
  BY DEF loadModuleSection
<1>2. /\ At("module") /\ modules' = Append(modules, Len(mods'))
      /\ stack' = Append(Below, Onward([Top EXCEPT !.mp = Len(mods')]))
  BY DEF loadModuleSection, SetTop
<1>3. /\ stack # <<>> /\ Top.call = "load" /\ Top.phase = "sections" /\ IsLoad(Top) /\ Top.mp = None /\ Top.at = 1
      /\ Section = Top.file.sections[1]
  BY <1>2, SectionHas
<1>4. IsList(stack) /\ Top = stack[Len(stack)] /\ IsList(mods) /\ IsList(modules)
  BY <1>3, TopHas DEF LInv, Types, ModulesOK
<1>5. PICK md, ms, n : md = mods' /\ ms = modules' /\ n = Len(mods) + 1
  OBVIOUS
<1>6. Len(md) = n /\ (\A i \in 1..Len(mods) : md[i] = mods[i]) /\ md[n] = r /\ Len(mods) \in Nat /\ n = Len(mods) + 1
  BY <1>1, <1>4, <1>5, AppendIs, ListIs
<1>7. Len(ms) = Len(modules) + 1 /\ (\A i \in 1..Len(modules) : ms[i] = modules[i]) /\ ms[Len(modules) + 1] = n
      /\ Len(modules) \in Nat
  BY <1>2, <1>4, <1>5, <1>6, AppendIs, ListIs
<1>8. PICK f : f = Frame(Top, Top.at + 1, "sections", n, Top.current)
  OBVIOUS
<1>9. stack' = Append(Front(stack), f) /\ f.mp = n /\ f.phase = "sections"
  <2>1. PICK m : m = Len(mods')
    OBVIOUS
  <2>2. Onward([Top EXCEPT !.mp = m]) = Frame(Top, Top.at + 1, Top.phase, m, Top.current)
    BY <1>3, Changes, Zenon
  <2>3. stack' = Append(Below, Frame(Top, Top.at + 1, Top.phase, m, Top.current))
    BY <1>2, <2>1, <2>2, Zenon
  <2>4. Frame(Top, Top.at + 1, Top.phase, m, Top.current) = f
    BY <1>3, <1>5, <1>6, <1>8, <2>1
  <2>5. stack' = Append(Front(stack), f)
    BY <2>3, <2>4, Zenon DEF Below
  <2> QED BY <1>8, <2>5 DEF Frame
<1>10. PICK s2 : s2 = stack'
  OBVIOUS
<1>11. Len(s2) = Len(stack) /\ s2[Len(stack)] = f
  BY <1>3, <1>4, <1>9, <1>10, SetTopIs
<1>12. \A m \in 1..Len(mods) : mods[m].name # r.name
  BY <1>1, <1>3, <1>4 DEF Once, NameIn
<1>13. \A i, j \in 1..Len(md) : md[i].name = md[j].name => i = j
  <2>1. \A i \in 1..Len(md) : i = n \/ i \in 1..Len(mods)
    BY <1>6
  <2>2. \A i, j \in 1..Len(mods) : mods[i].name = mods[j].name => i = j
    BY DEF Once
  <2> QED BY <1>6, <1>12, <2>1, <2>2
<1>14. \A m \in 1..Len(md) : \E k \in 1..Len(ms) : ms[k] = m
  <2>1. \A m \in 1..Len(mods) : \E k \in 1..Len(modules) : modules[k] = m
    BY <1>3, <1>4 DEF Once
  <2>2. \A k \in 1..Len(modules) : k \in 1..Len(ms)
    BY <1>7
  <2>3. Len(modules) + 1 \in 1..Len(ms)
    BY <1>7
  <2>4. \A m \in 1..Len(md) : m = n \/ m \in 1..Len(mods)
    BY <1>6
  <2> QED BY <1>7, <2>1, <2>2, <2>3, <2>4
<1>15. s2[Len(s2)].mp # None
  BY <1>6, <1>9, <1>11 DEF None
<1>16. Once(s2, ms, md)
  BY <1>13, <1>14, <1>15 DEF Once
<1> QED BY <1>5, <1>10, <1>16

\* A load that begins, of a module that was not made.
LEMMA OnceBegins ==
    ASSUME LInv, Once(stack, modules, mods), NEW n, NEW reload, NEW s2, NEW s, IsList(s), s2 = Append(s, LoadFrame(n, reload)),
           NameIn(disk[n]) = n, ejsLookupModule(n) = None, ~IsFailing(stack), NEW md2, Grows(mods, md2), Len(md2) = Len(mods)
    PROVE  Once(s2, modules, md2)
<1>1. PICK g : g = LoadFrame(n, reload)
  OBVIOUS
<1>2. g.file = disk[n] /\ g.call = "load"
  BY <1>1, LoadFrameIs
<1>3. Len(s2) = Len(s) + 1 /\ s2[Len(s) + 1] = g
  BY <1>1, AppendIs
<1>4. ModulesOK(modules, mods)
  BY DEF LInv, Types
<1>5. \A m \in 1..Len(mods) : mods[m].name # n
  BY <1>4, NotMade
<1>6. \A m \in 1..Len(mods) : ~Makes(s2, mods[m].name)
  BY <1>2, <1>3, <1>5 DEF Makes
<1>7. PICK st, ms, md : st = stack /\ ms = modules /\ md = mods
  OBVIOUS
<1>8. Once(s2, ms, md2)
  BY <1>6, <1>7, OnceStays
<1> QED BY <1>7, <1>8

\* Every step keeps modules apart, until a load fails or reloads.
LEMMA OnceNext ==
    ASSUME LInv, FilesAreWhole, clean => Once(stack, modules, mods), [Next]_vars, clean'
    PROVE  Once(stack', modules', mods')
<1>1. clean /\ ~LoadFails
  BY StepIs
<1>2. Once(stack, modules, mods)
  BY <1>1
<1>3. ModulesOK(modules, mods) /\ StackOK(stack, modules, mods) /\ IsList(stack) /\ Len(stack) \in Nat
  BY ListIs DEF LInv, Types, StackOK
<1>4. Grows(mods, mods') /\ (loadModuleSection \/ Len(mods') = Len(mods))
  BY ModulesGrow
<1>5. CASE loadModuleSection
  BY <1>2, <1>5, OnceMade
<1> SUFFICES ASSUME Len(mods') = Len(mods), ~loadModuleSection PROVE Once(stack', modules', mods')
  BY <1>4, <1>5
<1>6. PICK md, ms, s2 : md = mods' /\ ms = modules' /\ s2 = stack'
  OBVIOUS
<1>7. Grows(mods, md) /\ Len(md) = Len(mods)
  BY <1>4, <1>6
<1>8. ASSUME IsFailing(s2) \/ (ms = modules /\ ~IsFailing(stack)), \A m \in 1..Len(mods) : ~Makes(s2, mods[m].name)
      PROVE  Once(stack', modules', mods')
  <2>1. Once(s2, ms, md)
    BY <1>2, <1>7, <1>8, OnceStays
  <2> QED BY <1>6, <2>1
<1>9. CASE UNCHANGED <<stack, modules>>
  <2>1. Once(stack, modules, md)
    <3>1. \A m \in 1..Len(mods) : ~Makes(stack, mods[m].name)
      BY <1>2 DEF Once, Makes
    <3>2. CASE IsFailing(stack)
      BY <1>2, <1>7, <3>1, <3>2, OnceStays
    <3>3. CASE ~IsFailing(stack)
      BY <1>2, <1>7, <3>1, <3>3, OnceStays
    <3> QED BY <3>2, <3>3
  <2> QED BY <1>6, <1>9, <2>1
<1>10. CASE \E f : Moved(f)
  <2>1. PICK f : Moved(f)
    BY <1>10
  <2>2. stack # <<>> /\ s2 = Append(Front(stack), f) /\ Top.mp # None /\ f.call = "load" /\ f.mp = Top.mp
        /\ (f.phase = "failed" \/ (ms = modules /\ Top.phase # "failed"))
    BY <1>6, <2>1 DEF Moved, Below
  <2>3. Len(s2) = Len(stack) /\ s2[Len(s2)] = f /\ s2 # <<>> /\ Top = stack[Len(stack)]
    BY <1>3, <2>2, SetTopIs, TopHas
  <2> QED BY <1>8, <2>2, <2>3 DEF IsFailing, Makes
<1>11. CASE Pops
  <2>1. /\ stack # <<>> /\ s2 = Front(stack) /\ ms = modules /\ ~IsFailing(stack)
    <3>1. Top = stack[Len(stack)]
      BY <1>11, TopHas DEF Pops
    <3> QED BY <1>1, <1>6, <1>11, <3>1 DEF Pops, LoadReturns, Loading, state, Below, IsFailing
  <2>2. s2 # <<>> => Len(s2) \in 1..Len(stack) - 1 /\ s2[Len(s2)] = stack[Len(s2)]
    BY <1>3, <2>1, FrontIs, ListIs
  <2>3. s2 # <<>> => s2[Len(s2)].mp # None
    BY <1>3, <2>2, BelowIs DEF None
  <2> QED BY <1>8, <2>1, <2>3 DEF Makes
<1>12. CASE loadDependencySection
  <2>1. At("dependency") /\ ejsLookupModule(Section.name) = None /\ UNCHANGED modules
        /\ stack' = Append(Append(Below, [Top EXCEPT !.phase = "dependency"]), LoadFrame(Section.name, Top.reload))
    BY <1>12 DEF loadDependencySection, state
  <2>2. /\ stack # <<>> /\ Top.call = "load" /\ Top.phase = "sections"
        /\ IsWhole(Top.file) /\ Top.at \in 1..Len(Top.file.sections) /\ Kind(Top.file, Top.at) = "dependency"
        /\ Section = Top.file.sections[Top.at]
    BY <2>1, SectionHas
  <2>3. Section.name \in Modules
    BY <2>2 DEF IsWhole
  <2>4. PICK n, reload, s : n = Section.name /\ reload = Top.reload /\ s = Append(Below, [Top EXCEPT !.phase = "dependency"])
    OBVIOUS
  <2>5. s2 = Append(s, LoadFrame(n, reload)) /\ ejsLookupModule(n) = None /\ NameIn(disk[n]) = n /\ ms = modules
    BY <1>6, <2>1, <2>3, <2>4 DEF FilesAreWhole
  <2>6. IsList(s)
    BY <1>3, <2>2, <2>4, SetTopIs DEF Below
  <2>7. ~IsFailing(stack)
    BY <2>2, TopHas DEF IsFailing
  <2>8. Once(s2, modules, md)
    BY <1>2, <1>7, <2>5, <2>6, <2>7, OnceBegins
  <2> QED BY <1>6, <2>5, <2>8
<1>13. CASE initializeModule /\ mods[Following].script.does # "nothing"
  <2>1. After /\ ms = modules
    BY <1>6, <1>13 DEF initializeModule
  <2>2. stack # <<>> /\ Top.call = "load" /\ Top.phase = "after" /\ Top = stack[Len(stack)]
    BY <2>1, FollowingIs, TopHas
  <2>3. PICK s, g : s = Append(Below, [Onward(Top) EXCEPT !.phase = "initializer"])
                    /\ g = [call |-> "initializer", mp |-> Following, at |-> 1] /\ s2 = Append(s, g)
    BY <1>6, <1>13 DEF initializeModule
  <2>4. IsList(s)
    BY <1>3, <2>2, <2>3, SetTopIs DEF Below
  <2>5. s2[Len(s2)] = g /\ g.call = "initializer"
    BY <2>3, <2>4, AppendIs
  <2> QED BY <1>8, <2>1, <2>2, <2>5 DEF IsFailing, Makes
<1>14. CASE \E n \in Modules, reload \in Reloads : LoadStarts(n, reload)
  <2>1. PICK n \in Modules, reload \in Reloads : LoadStarts(n, reload)
    BY <1>14
  <2>2. /\ stack # <<>> => Top.call = "initializer"
        /\ s2 = Append(stack, LoadFrame(n, reload)) /\ ejsLookupModule(n) = None /\ ms = modules
    BY <1>6, <2>1 DEF LoadStarts
  <2>3. ~IsFailing(stack)
    BY <2>2, TopHas DEF IsFailing
  <2>4. NameIn(disk[n]) = n
    BY DEF FilesAreWhole
  <2>5. Once(s2, modules, md)
    BY <1>2, <1>3, <1>7, <2>2, <2>3, <2>4, OnceBegins
  <2> QED BY <1>6, <2>2, <2>5
<1> QED BY <1>9, <1>10, <1>11, <1>12, <1>13, <1>14, StepIs

\* Until a load fails or is told to reload, modules have names of their own.
THEOREM ModulesRunOnce == Spec /\ []FilesAreWhole => []OnceUnlessFailed
<1> DEFINE I == LInv /\ (clean => Once(stack, modules, mods))
<1>1. Init => I
  <2> SUFFICES ASSUME Init PROVE I
    OBVIOUS
  <2>1. LInv
    BY LInvInit
  <2>2. mods = <<>> /\ stack = <<>>
    BY Zenon DEF Init
  <2>3. Len(mods) = 0
    BY <2>2
  <2>4. Once(stack, modules, mods)
    BY <2>2, <2>3 DEF Once
  <2> QED BY <2>1, <2>4
<1>2. I /\ FilesAreWhole /\ [Next]_vars => I'
  <2> SUFFICES ASSUME LInv, clean => Once(stack, modules, mods), FilesAreWhole, [Next]_vars PROVE I'
    OBVIOUS
  <2>1. LInv'
    BY LInvNext
  <2>2. clean' => Once(stack', modules', mods')
    BY OnceNext
  <2> QED BY <2>1, <2>2
<1>3. I => OnceUnlessFailed
  <2> SUFFICES ASSUME LInv, Once(stack, modules, mods), NEW i \in DOMAIN mods, NEW j \in DOMAIN mods,
                      i # j, mods[i].name = mods[j].name
               PROVE  FALSE
    BY DEF OnceUnlessFailed
  <2>1. DOMAIN mods = 1..Len(mods)
    BY ListIs DEF LInv, Types, ModulesOK
  <2> QED BY <2>1 DEF Once
<1> HIDE DEF I
<1> QED BY <1>1, <1>2, <1>3, PTL DEF Spec

-----------------------------------------------------------------------------
(***************************************************************************)
(* What modules require has run.                                            *)
(***************************************************************************)

\* What loads have found stays so.
LEMMA MetStays ==
    ASSUME NEW s, NEW md, Met(s, md), Len(s) \in Nat, NEW md2, Grows(md, md2), NEW s2, Len(s2) \in Nat,
           \A i \in 1..Len(s2) : s2[i].call = "load" =>
             \A k \in 1..Len(s2[i].file.sections) :
               Kind(s2[i].file, k) = "dependency" /\ Passed(s2[i], k) =>
                 /\ i \in 1..Len(s) /\ s[i].call = "load" /\ s2[i].file = s[i].file
                 /\ Passed(s[i], k) \/ IsMet(s, i, s[i].file.sections[k], md),
           \A i \in 1..Len(s) : i \in 1..Len(s2) /\ s[i].call = "load" /\ s[i].mp # None
                => s2[i].call = "load" /\ s2[i].mp = s[i].mp
    PROVE  Met(s2, md2)
<1> SUFFICES ASSUME NEW i \in 1..Len(s2), s2[i].call = "load", NEW k \in 1..Len(s2[i].file.sections),
                    Kind(s2[i].file, k) = "dependency", Passed(s2[i], k)
             PROVE  IsMet(s2, i, s2[i].file.sections[k], md2)
  BY DEF Met
<1>1. i \in 1..Len(s) /\ s[i].call = "load" /\ s2[i].file = s[i].file
      /\ (Passed(s[i], k) \/ IsMet(s, i, s[i].file.sections[k], md))
  OBVIOUS
<1>2. IsMet(s, i, s[i].file.sections[k], md)
  BY <1>1 DEF Met
<1>3. PICK r : r = s[i].file.sections[k] /\ r = s2[i].file.sections[k]
  BY <1>1
<1>4. PICK m \in 1..Len(md) :
        /\ md[m].name = r.name /\ md[m].checksum = r.checksum
        /\ md[m].ran = "done" \/ \E j \in 1..i : s[j].call = "load" /\ s[j].mp = m
  BY <1>2, <1>3 DEF IsMet
<1>5. m \in 1..Len(md2) /\ md2[m].name = r.name /\ md2[m].checksum = r.checksum /\ (md[m].ran = "done" => md2[m].ran = "done")
  BY <1>4 DEF Grows
<1>6. ASSUME NEW j \in 1..i, s[j].call = "load", s[j].mp = m PROVE s2[j].call = "load" /\ s2[j].mp = m
  <2>1. j \in 1..Len(s) /\ j \in 1..Len(s2)
    BY <1>1
  <2>2. s[j].mp # None
    BY <1>4, <1>6 DEF None, Grows
  <2> QED BY <1>6, <2>1, <2>2
<1>7. md2[m].ran = "done" \/ \E j \in 1..i : s2[j].call = "load" /\ s2[j].mp = m
  BY <1>4, <1>5, <1>6
<1>8. IsMet(s2, i, r, md2)
  BY <1>5, <1>7 DEF IsMet
<1> QED BY <1>3, <1>8

\* A dependency that is let in is a module that has run, or is being loaded.
LEMMA DependencyMet ==
    ASSUME LInv, DependencyThere \/ DependencyLoaded, DependencyMatches
    PROVE  /\ stack # <<>> /\ IsMet(stack, Len(stack), Top.file.sections[Top.at], mods)
           /\ Top.call = "load" /\ Top.phase \in {"sections", "dependency"} /\ Kind(Top.file, Top.at) = "dependency"
           /\ IsWhole(Top.file) /\ Top.at \in 1..Len(Top.file.sections)
<1>1. ModulesOK(modules, mods) /\ StackOK(stack, modules, mods) /\ Listed(stack, modules, mods)
  BY DEF LInv, Types
<1>2. /\ stack # <<>> /\ Top.call = "load" /\ Top.phase \in {"sections", "dependency"} /\ Top.mp # None
      /\ LoadOK(Top, modules, mods) /\ Kind(Top.file, Top.at) = "dependency"
      /\ IsWhole(Top.file) /\ Top.at \in 1..Len(Top.file.sections)
      /\ \E k \in 1..Len(modules) : mods[modules[k]].name = Section.name
  <2>1. CASE DependencyThere
    <3>1. At("dependency") /\ ejsLookupModule(Section.name) # None
      BY <2>1 DEF DependencyThere
    <3>2. \E k \in 1..Len(modules) : mods[modules[k]].name = Section.name
      BY <1>1, <3>1, LookupIs
    <3> QED BY <3>1, <3>2, SectionHas
  <2>2. CASE DependencyLoaded
    <3>1. stack # <<>> /\ Top.call = "load" /\ Top.phase = "dependency" /\ returned = "ok"
      BY <2>2 DEF DependencyLoaded, Loading
    <3>2. IsLoad(Top) /\ LoadOK(Top, modules, mods) /\ TopIs(Top, modules, mods, returned)
      BY <3>1, TopHas
    <3>3. Top.mp # None /\ Kind(Top.file, Top.at) = "dependency" /\ IsWhole(Top.file)
          /\ Top.at \in 1..Len(Top.file.sections)
      BY <3>1, <3>2 DEF LoadOK, IsLoad, IsWhole
    <3>4. \E k \in 1..Len(modules) : mods[modules[k]].name = Section.name
      BY <3>1, <3>2 DEF TopIs, Section
    <3> QED BY <3>1, <3>2, <3>3, <3>4
  <2> QED BY <2>1, <2>2
<1>3. Len(stack) \in Nat /\ Len(stack) \in 1..Len(stack) /\ Top = stack[Len(stack)]
  BY <1>2, TopHas
<1>4. PICK r : r = Section
  OBVIOUS
<1>5. PICK k \in 1..Len(modules) : ejsLookupModule(r.name) = modules[k] /\ mods[modules[k]].name = r.name
                                   /\ ejsLookupModule(r.name) # None
  BY <1>1, <1>2, <1>4, LookupIs
<1>6. PICK m : m = modules[k]
  OBVIOUS
<1>7. m \in 1..Len(mods) /\ mods[m].name = r.name /\ mods[m].checksum = r.checksum
  BY <1>1, <1>4, <1>5, <1>6 DEF DependencyMatches, ModulesOK
<1>8. mods[m].ran = "done" \/ \E j \in 1..Len(stack) : stack[j].call = "load" /\ stack[j].mp = m
  <2>1. CASE Done(mods, m)
    BY <2>1 DEF Done
  <2>2. CASE \E j \in 1..Len(stack) : LoadedBy(stack[j], k)
    <3>1. PICK j \in 1..Len(stack) : LoadedBy(stack[j], k)
      BY <2>2
    <3>2. stack[j].call = "load" /\ k = stack[j].firstModule + 1
      BY <3>1 DEF LoadedBy
    <3>3. CASE j = Len(stack)
      BY <1>2, <1>3, <1>6, <3>2, <3>3 DEF LoadOK
    <3>4. CASE j # Len(stack)
      <4>1. j \in 1..Len(stack) - 1
        BY <1>3, <3>4
      <4> QED BY <1>1, <1>6, <3>2, <4>1, BelowIs
    <3> QED BY <3>3, <3>4
  <2> QED BY <1>1, <1>6, <2>1, <2>2 DEF Listed
<1>9. IsMet(stack, Len(stack), r, mods)
  BY <1>7, <1>8 DEF IsMet
<1> QED BY <1>2, <1>4, <1>9 DEF Section

\* A load goes on and has passed no more than it has found.
LEMMA MetTop ==
    ASSUME LInv, Met(stack, mods), stack # <<>>, Top.call = "load", NEW f, f.call = "load", f.file = Top.file,
           Top.mp # None => f.mp = Top.mp,
           \A k \in 1..Len(f.file.sections) : Kind(f.file, k) = "dependency" /\ Passed(f, k) =>
                Passed(Top, k) \/ IsMet(stack, Len(stack), Top.file.sections[k], mods),
           NEW md2, Grows(mods, md2), NEW s2, s2 = Append(Below, f)
    PROVE  Met(s2, md2)
<1>1. IsList(stack) /\ Len(stack) \in Nat /\ Top = stack[Len(stack)] /\ Len(stack) \in 1..Len(stack)
  BY TopHas
<1>2. IsList(s2) /\ Len(s2) = Len(stack) /\ (\A i \in 1..Len(stack) - 1 : s2[i] = stack[i]) /\ s2[Len(stack)] = f
  BY <1>1, SetTopIs DEF Below
<1>3. PICK s, md, n : s = stack /\ md = mods /\ n = Len(stack)
  OBVIOUS
<1>4. ASSUME NEW i \in 1..Len(s2), s2[i].call = "load", NEW k \in 1..Len(s2[i].file.sections),
             Kind(s2[i].file, k) = "dependency", Passed(s2[i], k)
      PROVE  /\ i \in 1..Len(s) /\ s[i].call = "load" /\ s2[i].file = s[i].file
             /\ Passed(s[i], k) \/ IsMet(s, i, s[i].file.sections[k], md)
  <2>1. CASE i = n
    BY <1>1, <1>2, <1>3, <1>4, <2>1
  <2>2. CASE i # n
    <3>1. i \in 1..Len(s) /\ s2[i] = s[i]
      BY <1>1, <1>2, <1>3, <2>2
    <3> QED BY <1>4, <3>1
  <2> QED BY <2>1, <2>2
<1>5. ASSUME NEW i \in 1..Len(s), i \in 1..Len(s2), s[i].call = "load", s[i].mp # None
      PROVE  s2[i].call = "load" /\ s2[i].mp = s[i].mp
  <2>1. CASE i = n
    BY <1>1, <1>2, <1>3, <1>5, <2>1
  <2>2. CASE i # n
    <3>1. s2[i] = s[i]
      BY <1>1, <1>2, <1>3, <2>2
    <3> QED BY <1>5, <3>1
  <2> QED BY <2>1, <2>2
<1>6. Met(s, md) /\ Len(s) \in Nat /\ Len(s2) \in Nat /\ Grows(md, md2)
  BY <1>1, <1>2, <1>3
<1> QED BY <1>4, <1>5, <1>6, MetStays

\* A call that begins has passed nothing.
LEMMA MetPush ==
    ASSUME NEW s, IsList(s), NEW md, Met(s, md), NEW g, g.call = "load" => g.at = 1 /\ g.phase = "sections"
    PROVE  Met(Append(s, g), md)
<1>1. PICK t : t = Append(s, g)
  OBVIOUS
<1>2. Len(s) \in Nat /\ Len(t) = Len(s) + 1 /\ (\A i \in 1..Len(s) : t[i] = s[i]) /\ t[Len(s) + 1] = g
  BY <1>1, AppendIs, ListIs
<1>3. ASSUME NEW i \in 1..Len(t), t[i].call = "load", NEW k \in 1..Len(t[i].file.sections),
             Kind(t[i].file, k) = "dependency", Passed(t[i], k)
      PROVE  IsMet(t, i, t[i].file.sections[k], md)
  <2>1. i \in 1..Len(s)
    <3>1. CASE i = Len(s) + 1
      <4>1. ~Passed(t[i], k)
        <5>1. t[i].at = 1 /\ t[i].phase = "sections"
          BY <1>2, <1>3, <3>1
        <5>2. ~(k < 1)
          OBVIOUS
        <5> QED BY <5>1, <5>2 DEF Passed
      <4> QED BY <1>3, <4>1
    <3>2. CASE i # Len(s) + 1
      BY <1>2, <3>2
    <3> QED BY <3>1, <3>2
  <2>2. t[i] = s[i] /\ \A j \in 1..i : t[j] = s[j]
    BY <1>2, <2>1
  <2>3. IsMet(s, i, s[i].file.sections[k], md)
    BY <1>3, <2>1, <2>2 DEF Met
  <2> QED BY <2>2, <2>3 DEF IsMet
<1> QED BY <1>1, <1>3 DEF Met

\* The frames of loads that make a module, or call a load or an initializer.
LEMMA ModuleTop ==
    ASSUME LInv, loadModuleSection
    PROVE  \E f : /\ stack # <<>> /\ stack' = Append(Below, f) /\ f.call = "load" /\ f.file = Top.file /\ f.at = 2
                  /\ f.phase = "sections" /\ f.mp = Len(mods) + 1
                  /\ Top.call = "load" /\ Top.mp = None /\ IsWhole(Top.file)
<1>1. At("module") /\ stack' = Append(Below, Onward([Top EXCEPT !.mp = Len(mods')]))
      /\ \E r : mods' = Append(mods, r)
  BY DEF loadModuleSection, SetTop
<1>2. /\ stack # <<>> /\ Top.call = "load" /\ Top.phase = "sections" /\ IsLoad(Top) /\ IsWhole(Top.file)
      /\ Top.mp = None /\ Top.at = 1
  BY <1>1, SectionHas
<1>3. IsList(mods) /\ Len(mods') = Len(mods) + 1 /\ Len(mods) \in Nat
  <2>1. IsList(mods)
    BY DEF LInv, Types, ModulesOK
  <2>2. PICK r, md : md = mods' /\ md = Append(mods, r)
    BY <1>1
  <2>3. Len(md) = Len(mods) + 1 /\ Len(mods) \in Nat
    BY <2>1, <2>2, AppendIs, ListIs
  <2> QED BY <2>1, <2>2, <2>3
<1>4. PICK n, f : n = Len(mods') /\ f = Frame(Top, Top.at + 1, Top.phase, n, Top.current)
  OBVIOUS
<1>5. stack' = Append(Below, f)
  <2>1. Onward([Top EXCEPT !.mp = n]) = Frame(Top, Top.at + 1, Top.phase, n, Top.current)
    BY <1>2, Changes, Zenon
  <2> QED BY <1>1, <1>4, <2>1, Zenon
<1>6. f.call = "load" /\ f.file = Top.file /\ f.at = 2 /\ f.phase = "sections" /\ f.mp = n
  BY <1>2, <1>4 DEF Frame
<1> QED BY <1>2, <1>3, <1>4, <1>5, <1>6

\* A load that calls one for a dependency.
LEMMA DependencyCalls ==
    ASSUME LInv, loadDependencySection
    PROVE  \E f : /\ stack # <<>> /\ stack' = Append(Append(Below, f), LoadFrame(Section.name, Top.reload))
                  /\ f.call = "load" /\ f.file = Top.file /\ f.at = Top.at /\ f.phase = "dependency" /\ f.mp = Top.mp
                  /\ Top.call = "load" /\ Top.phase = "sections" /\ Top.mp # None
<1>1. At("dependency")
      /\ stack' = Append(Append(Below, [Top EXCEPT !.phase = "dependency"]), LoadFrame(Section.name, Top.reload))
  BY DEF loadDependencySection
<1>2. stack # <<>> /\ Top.call = "load" /\ Top.phase = "sections" /\ IsLoad(Top) /\ Top.mp # None
  BY <1>1, SectionHas
<1>3. PICK f : f = Frame(Top, Top.at, "dependency", Top.mp, Top.current)
  OBVIOUS
<1>4. [Top EXCEPT !.phase = "dependency"] = f
  BY <1>2, <1>3, Changes, Zenon
<1>5. f.call = "load" /\ f.file = Top.file /\ f.at = Top.at /\ f.phase = "dependency" /\ f.mp = Top.mp
  BY <1>3 DEF Frame
<1> QED BY <1>1, <1>2, <1>4, <1>5

\* A load that calls an initializer.
LEMMA InitializerCalls ==
    ASSUME LInv, initializeModule, mods[Following].script.does # "nothing"
    PROVE  \E f, g : /\ stack # <<>> /\ stack' = Append(Append(Below, f), g)
                     /\ f.call = "load" /\ f.file = Top.file /\ f.phase = "initializer" /\ f.mp = Top.mp
                     /\ g.call = "initializer" /\ g.mp = Top.mp
                     /\ Top.call = "load" /\ Top.phase = "after" /\ Top.mp # None /\ Top.at = Top.firstModule + 1
                     /\ ~mods[Top.mp].loading
<1>1. After /\ ~mods[Following].loading /\ ~mods[Following].initialized
      /\ stack' = Append(Append(Below, [Onward(Top) EXCEPT !.phase = "initializer"]),
                         [call |-> "initializer", mp |-> Following, at |-> 1])
  BY DEF initializeModule
<1>2. /\ stack # <<>> /\ Top.call = "load" /\ Top.phase = "after" /\ IsLoad(Top) /\ Top.mp # None
      /\ Following = Top.mp /\ Top.at = Top.firstModule + 1
  BY <1>1, FollowingIs DEF Done
<1>3. PICK f, g : f = Frame(Top, Top.at + 1, "initializer", Top.mp, Top.current)
                  /\ g = [call |-> "initializer", mp |-> Following, at |-> 1]
  OBVIOUS
<1>4. [Onward(Top) EXCEPT !.phase = "initializer"] = f
  BY <1>2, <1>3, Changes, Zenon
<1>5. f.call = "load" /\ f.file = Top.file /\ f.phase = "initializer" /\ f.mp = Top.mp
  BY <1>3 DEF Frame
<1>6. g.call = "initializer" /\ g.mp = Top.mp
  BY <1>2, <1>3
<1>7. stack' = Append(Append(Below, f), g)
  BY <1>1, <1>3, <1>4
<1> QED BY <1>1, <1>2, <1>5, <1>6, <1>7

\* Every step keeps what loads have found.
LEMMA MetNext ==
    ASSUME LInv, Met(stack, mods), [Next]_vars
    PROVE  Met(stack', mods')
<1>1. StackOK(stack, modules, mods) /\ IsList(stack) /\ Len(stack) \in Nat
  BY ListIs DEF LInv, StackOK
<1>2. PICK md, s2 : md = mods' /\ s2 = stack'
  OBVIOUS
<1>3. Grows(mods, md)
  BY <1>2, ModulesGrow
<1>4. ASSUME stack # <<>>, Top.call = "load", NEW f, f.call = "load", f.file = Top.file, Top.mp # None => f.mp = Top.mp,
             \A k \in 1..Len(f.file.sections) : Kind(f.file, k) = "dependency" /\ Passed(f, k) =>
                  Passed(Top, k) \/ IsMet(stack, Len(stack), Top.file.sections[k], mods)
      PROVE  Met(Append(Below, f), md) /\ IsList(Append(Below, f))
  <2>1. IsList(Append(Below, f))
    BY <1>1, <1>4, SetTopIs DEF Below
  <2>2. PICK s : s = Append(Below, f)
    OBVIOUS
  <2>3. Met(s, md)
    BY <1>3, <1>4, <2>2, MetTop
  <2> QED BY <2>1, <2>2, <2>3
<1>5. CASE UNCHANGED <<stack, modules>>
  <2>1. PICK s, md0 : s = stack /\ md0 = mods
    OBVIOUS
  <2>2. Met(s, md0) /\ Len(s) \in Nat /\ Grows(md0, md)
    BY <1>1, <1>3, <2>1
  <2>3. Met(s, md)
    BY <2>2, MetStays
  <2> QED BY <1>2, <1>5, <2>1, <2>3
<1>6. CASE \E f : Moved(f)
  <2>1. PICK f : Moved(f)
    BY <1>6
  <2>2. /\ stack # <<>> /\ Top.call = "load" /\ Top.mp # None /\ stack' = Append(Below, f)
        /\ f.call = "load" /\ f.file = Top.file /\ f.mp = Top.mp
    BY <2>1 DEF Moved
  <2>3. Top.at \in Nat /\ Top.firstModule \in Nat
    BY <2>2, TopHas DEF IsLoad
  <2>4. ASSUME NEW k \in 1..Len(f.file.sections), Kind(f.file, k) = "dependency", Passed(f, k)
        PROVE  Passed(Top, k) \/ IsMet(stack, Len(stack), Top.file.sections[k], mods)
    <3>1. CASE f.phase = "failed"
      BY <2>4, <3>1 DEF Passed
    <3>2. CASE Passes(f) /\ Top.phase = "sections" /\ Kind(Top.file, Top.at) # "dependency"
      <4>1. k < Top.at + 1 /\ k # Top.at
        BY <2>2, <2>4, <3>2 DEF Passes, Passed
      <4>2. k < Top.at
        BY <2>3, <4>1
      <4> QED BY <3>2, <4>2 DEF Passed
    <3>3. CASE Passes(f) /\ (DependencyThere \/ DependencyLoaded) /\ DependencyMatches
      <4>1. IsMet(stack, Len(stack), Top.file.sections[Top.at], mods) /\ Top.phase \in {"sections", "dependency"}
        BY <3>3, DependencyMet
      <4>2. k < Top.at + 1
        BY <2>4, <3>3 DEF Passes, Passed
      <4>3. k < Top.at \/ k = Top.at
        BY <2>3, <4>2
      <4> QED BY <4>1, <4>3 DEF Passed
    <3>4. CASE f.phase = "after" /\ loadEndModuleSection
      <4>1. At("module_end")
        BY <3>4 DEF loadEndModuleSection
      <4>2. Top.phase = "sections" /\ IsWhole(Top.file) /\ Top.at \in 1..Len(Top.file.sections)
            /\ Kind(Top.file, Top.at) = "module_end"
        BY <4>1, SectionHas
      <4>3. Top.at = Len(Top.file.sections) /\ Len(Top.file.sections) \in Nat
        BY <4>2 DEF IsWhole
      <4>4. k # Top.at
        BY <2>2, <2>4, <4>2
      <4>5. k < Top.at
        BY <2>2, <2>3, <4>3, <4>4
      <4> QED BY <4>2, <4>5 DEF Passed
    <3>5. CASE f.phase = "after" /\ Top.phase \in {"after", "initializer"}
      BY <3>5 DEF Passed
    <3> QED BY <2>1, <3>1, <3>2, <3>3, <3>4, <3>5 DEF Moved
  <2>5. Met(Append(Below, f), md)
    BY <1>4, <2>2, <2>4
  <2> QED BY <1>2, <2>2, <2>5
<1>7. CASE loadModuleSection
  <2>1. PICK f : /\ stack # <<>> /\ stack' = Append(Below, f) /\ f.call = "load" /\ f.file = Top.file /\ f.at = 2
                 /\ f.phase = "sections" /\ Top.call = "load" /\ Top.mp = None /\ IsWhole(Top.file)
    BY <1>7, ModuleTop
  <2>2. ASSUME NEW k \in 1..Len(f.file.sections), Kind(f.file, k) = "dependency", Passed(f, k) PROVE FALSE
    <3>1. k = 1
      BY <2>1, <2>2 DEF Passed
    <3>2. Kind(f.file, 1) = "module"
      BY <2>1, <2>2, <3>1 DEF IsWhole
    <3> QED BY <2>2, <3>1, <3>2
  <2>3. Met(Append(Below, f), md)
    BY <1>4, <2>1, <2>2
  <2> QED BY <1>2, <2>1, <2>3
<1>8. CASE Pops
  <2>1. PICK s, md0 : s = stack /\ md0 = mods
    OBVIOUS
  <2>2. s # <<>> /\ s2 = Front(s)
    BY <1>2, <1>8, <2>1 DEF Pops, Below
  <2>3. IsList(s2) /\ Len(s2) = Len(s) - 1 /\ (\A i \in 1..Len(s) - 1 : s2[i] = s[i]) /\ Len(s) \in Nat /\ Len(s) > 0
    BY <1>1, <2>1, <2>2, FrontIs
  <2>4. Met(s, md0) /\ Len(s2) \in Nat /\ Grows(md0, md)
    BY <1>3, <2>1, <2>3
  <2>5. \A i \in 1..Len(s2) : i \in 1..Len(s) /\ s2[i] = s[i]
    BY <2>3
  <2>6. ASSUME NEW i \in 1..Len(s2), s2[i].call = "load", NEW k \in 1..Len(s2[i].file.sections),
               Kind(s2[i].file, k) = "dependency", Passed(s2[i], k)
        PROVE  /\ i \in 1..Len(s) /\ s[i].call = "load" /\ s2[i].file = s[i].file
               /\ Passed(s[i], k) \/ IsMet(s, i, s[i].file.sections[k], md0)
    BY <2>5, <2>6
  <2>7. ASSUME NEW i \in 1..Len(s), i \in 1..Len(s2), s[i].call = "load", s[i].mp # None
        PROVE  s2[i].call = "load" /\ s2[i].mp = s[i].mp
    BY <2>5, <2>7
  <2>8. Len(s) \in Nat
    BY <2>3
  <2>9. Met(s2, md)
    BY <2>4, <2>6, <2>7, <2>8, MetStays
  <2> QED BY <1>2, <2>9
<1>9. CASE loadDependencySection
  <2>1. PICK f, g : /\ stack # <<>> /\ stack' = Append(Append(Below, f), g) /\ g = LoadFrame(Section.name, Top.reload)
                    /\ f.call = "load" /\ f.file = Top.file /\ f.at = Top.at /\ f.phase = "dependency" /\ f.mp = Top.mp
                    /\ Top.call = "load" /\ Top.phase = "sections"
    BY <1>9, DependencyCalls
  <2>2. \A k \in 1..Len(f.file.sections) : Passed(f, k) => Passed(Top, k)
    BY <2>1 DEF Passed
  <2>3. PICK s : s = Append(Below, f)
    OBVIOUS
  <2>4. Met(s, md) /\ IsList(s)
    BY <1>4, <2>1, <2>2, <2>3
  <2>5. g.at = 1 /\ g.phase = "sections"
    BY <2>1 DEF LoadFrame
  <2>6. Met(Append(s, g), md)
    BY <2>4, <2>5, MetPush
  <2> QED BY <1>2, <2>1, <2>3, <2>6
<1>10. CASE initializeModule /\ mods[Following].script.does # "nothing"
  <2>1. PICK f, g : /\ stack # <<>> /\ stack' = Append(Append(Below, f), g)
                    /\ f.call = "load" /\ f.file = Top.file /\ f.phase = "initializer" /\ f.mp = Top.mp
                    /\ g.call = "initializer" /\ Top.call = "load" /\ Top.phase = "after"
    BY <1>10, InitializerCalls
  <2>2. \A k \in 1..Len(f.file.sections) : Passed(f, k) => Passed(Top, k)
    BY <2>1 DEF Passed
  <2>3. PICK s : s = Append(Below, f)
    OBVIOUS
  <2>4. Met(s, md) /\ IsList(s)
    BY <1>4, <2>1, <2>2, <2>3
  <2>5. g.call # "load"
    BY <2>1
  <2>6. Met(Append(s, g), md)
    BY <2>4, <2>5, MetPush
  <2> QED BY <1>2, <2>1, <2>3, <2>6
<1>11. CASE \E n \in Modules, reload \in Reloads : LoadStarts(n, reload)
  <2>0. PICK n, reload : LoadStarts(n, reload)
    BY <1>11
  <2>1. PICK g : stack' = Append(stack, g) /\ g.at = 1 /\ g.phase = "sections"
    <3>1. PICK g : g = LoadFrame(n, reload)
      OBVIOUS
    <3>2. stack' = Append(stack, g)
      BY <2>0, <3>1 DEF LoadStarts
    <3>3. g.at = 1 /\ g.phase = "sections"
      BY <3>1 DEF LoadFrame
    <3> QED BY <3>2, <3>3
  <2>2. PICK s, md0 : s = stack /\ md0 = mods
    OBVIOUS
  <2>3. Met(s, md0) /\ Len(s) \in Nat /\ Grows(md0, md)
    BY <1>1, <1>3, <2>2
  <2>4. Met(s, md) /\ IsList(s)
    BY <1>1, <2>2, <2>3, MetStays
  <2>5. Met(Append(s, g), md)
    BY <2>1, <2>4, MetPush
  <2> QED BY <1>2, <2>1, <2>2, <2>5
<1> QED BY <1>5, <1>6, <1>7, <1>8, <1>9, <1>10, <1>11, StepIs

-----------------------------------------------------------------------------
(***************************************************************************)
(* Classes are complete.                                                    *)
(***************************************************************************)

\* What is said of the call on top.
LEMMA ClassesOfTop ==
    ASSUME NEW t, IsList(t), NEW f, NEW md, NEW gl, NEW ret, Classes(f, md, gl, ret), NEW s, s = Append(t, f)
    PROVE  ClassesAt(s, md, gl, ret)
<1>1. s[Len(s)] = f
  BY AppendIs
<1> QED BY <1>1 DEF ClassesAt

\* References that are added leave those that are there.
LEMMA BasedMore ==
    ASSUME NEW s, IsList(s), NEW t, IsList(t), NEW c, Based(s, c) \/ Based(t, c)
    PROVE  Based(s \o t, c)
<1>1. PICK u : u = s \o t
  OBVIOUS
<1>2. /\ Len(u) = Len(s) + Len(t) /\ Len(s) \in Nat /\ Len(t) \in Nat
      /\ (\A i \in 1..Len(s) : u[i] = s[i]) /\ (\A i \in 1..Len(t) : u[Len(s) + i] = t[i])
  BY <1>1, ConcatIs, ListIs
<1>3. CASE Based(s, c)
  <2>1. PICK x \in 1..Len(s) : s[x].kind = "base" /\ s[x].target = c
    BY <1>3 DEF Based
  <2>2. x \in 1..Len(u) /\ u[x] = s[x]
    BY <1>2, <2>1
  <2> QED BY <1>1, <2>1, <2>2 DEF Based
<1>4. CASE Based(t, c)
  <2>1. PICK x \in 1..Len(t) : t[x].kind = "base" /\ t[x].target = c
    BY <1>4 DEF Based
  <2>2. Len(s) + x \in 1..Len(u) /\ u[Len(s) + x] = t[x]
    BY <1>2, <2>1
  <2> QED BY <1>1, <2>1, <2>2 DEF Based
<1> QED BY <1>3, <1>4

\* A section is passed that leaves what is said of the classes before it, and is
\* no class, or one of which the same can be said.
LEMMA ClassesPass ==
    ASSUME LInv, ClassesOK, NEW f, Moved(f), Passes(f), Top.phase = "sections", NEW md, NEW gl, NEW ret,
           \A c : ClassOK(mods, globals, Top.mp, c) => ClassOK(md, gl, Top.mp, c),
           Kind(Top.file, Top.at) = "class" => ClassOK(md, gl, Top.mp, Top.file.sections[Top.at].name),
           NEW s, s = stack'
    PROVE  ClassesAt(s, md, gl, ret)
<1>1. /\ stack # <<>> /\ Top.call = "load" /\ s = Append(Below, f) /\ f.call = "load" /\ f.file = Top.file
      /\ f.mp = Top.mp /\ f.phase = "sections" /\ f.at = Top.at + 1
  BY DEF Moved, Passes
<1>2. IsList(stack) /\ Top = stack[Len(stack)] /\ Top.at \in Nat
  BY <1>1, TopHas DEF IsLoad
<1>3. Classes(Top, mods, globals, returned)
  BY <1>1, <1>2 DEF ClassesOK, ClassesAt
<1>4. IsList(Below)
  BY <1>1, <1>2, FrontIs DEF Below
<1>5. ASSUME NEW k \in 1..Len(f.file.sections), k < f.at, Kind(f.file, k) = "class"
      PROVE  ClassOK(md, gl, f.mp, f.file.sections[k].name)
  <2>1. CASE k = Top.at
    BY <1>1, <1>5, <2>1
  <2>2. CASE k # Top.at
    <3>1. k < Top.at
      BY <1>1, <1>2, <1>5, <2>2
    <3>2. ClassOK(mods, globals, Top.mp, Top.file.sections[k].name)
      BY <1>1, <1>3, <1>5, <3>1 DEF Classes
    <3> QED BY <1>1, <3>2
  <2> QED BY <2>1, <2>2
<1>6. Classes(f, md, gl, ret)
  BY <1>1, <1>5 DEF Classes
<1> QED BY <1>1, <1>4, <1>6, ClassesOfTop

\* A class waits for its base class, or is complete.
LEMMA ClassAdded ==
    ASSUME LInv, loadClassSection
    PROVE  /\ \A c : ClassOK(mods, globals, Top.mp, c) => ClassOK(mods', globals', Top.mp, c)
           /\ ClassOK(mods', globals', Top.mp, Section.name)
<1>1. At("class")
  BY DEF loadClassSection
<1>2. PICK fixups, type :
        /\ IsList(fixups) /\ IsType(type)
        /\ type.needFixup =>
            Len(fixups) > 0 /\ fixups[Len(fixups)].kind = "base" /\ fixups[Len(fixups)].target = Section.name
        /\ globals' = [c \in DOMAIN globals \cup {Section.name} |-> IF c = Section.name THEN type ELSE globals[c]]
        /\ mods' = [mods EXCEPT ![Top.mp].fixups = @ \o fixups]
  BY ClassAdds
<1>3. Top.mp \in 1..Len(mods)
  BY <1>1, SectionHas
<1>4. IsList(mods) /\ IsModule(mods[Top.mp]) /\ AreTypes(globals)
  BY <1>3 DEF LInv, Types, ModulesOK, AreTypes
<1>5. PICK r, md, m, d, gl : r = mods[Top.mp] /\ md = mods' /\ m = Top.mp /\ d = Section.name /\ gl = globals'
  OBVIOUS
<1>6. PICK f : f = r.fixups \o fixups
  OBVIOUS
<1>7. IsList(r.fixups) /\ IsModule(r)
  BY <1>4, <1>5 DEF IsModule
<1>8. md[m].fixups = f
  <2>1. m \in 1..Len(mods) /\ r = mods[m] /\ md = Referring(mods, m, f)
    BY <1>2, <1>3, <1>5, <1>6 DEF Referring
  <2>2. md = Put(mods, m, Changed(r, r.script, f, r.loading, r.initialized, r.ran))
    BY <1>4, <1>7, <2>1, FixupsChange
  <2>3. PICK q : q = Changed(r, r.script, f, r.loading, r.initialized, r.ran)
    OBVIOUS
  <2>4. md[m] = q
    BY <1>4, <2>1, <2>2, <2>3, PutIs
  <2>5. q.fixups = f
    BY <2>3 DEF Changed
  <2> QED BY <2>4, <2>5
<1>9. /\ DOMAIN gl = DOMAIN globals \cup {d} /\ gl[d] = type
      /\ \A c \in DOMAIN globals : c # d => gl[c] = globals[c]
  <2>1. gl = [c \in DOMAIN globals \cup {d} |-> IF c = d THEN type ELSE globals[c]]
    BY <1>2, <1>5
  <2> QED BY <1>2, <1>4, <2>1, ClassThere
<1>10. ClassOK(md, gl, m, d)
  <2>1. ASSUME type.needFixup PROVE Based(f, d)
    <3>1. Len(fixups) > 0 /\ fixups[Len(fixups)].kind = "base" /\ fixups[Len(fixups)].target = d /\ Len(fixups) \in Nat
      BY <1>2, <1>5, <2>1, ListIs
    <3>2. Based(fixups, d)
      BY <3>1 DEF Based
    <3> QED BY <1>2, <1>6, <1>7, <3>2, BasedMore
  <2> QED BY <1>8, <1>9, <2>1 DEF ClassOK
<1>11. ASSUME NEW c, ClassOK(mods, globals, m, c) PROVE ClassOK(md, gl, m, c)
  <2>1. CASE c = d
    BY <1>10, <2>1
  <2>2. CASE c # d
    <3>1. c \in DOMAIN globals /\ (globals[c].needFixup => Based(r.fixups, c))
      BY <1>5, <1>11 DEF ClassOK
    <3>2. Based(r.fixups, c) => Based(f, c)
      BY <1>2, <1>6, <1>7, BasedMore
    <3> QED BY <1>8, <1>9, <2>2, <3>1, <3>2 DEF ClassOK
  <2> QED BY <2>1, <2>2
<1> QED BY <1>5, <1>10, <1>11

\* Sections keep what is said of classes.
LEMMA ClassesOfSections ==
    ASSUME LInv, ClassesOK, \/ loadClassSection \/ loadPropertySection \/ loadMethod \/ loadInitializer
                            \/ loadEndFunctionSection \/ loadEndClassSection
    PROVE  ClassesOK'
<1>1. PICK f : Moved(f) /\ Passes(f)
  BY SectionMoves
<1>2. PICK s, md, gl, ret : s = stack' /\ md = mods' /\ gl = globals' /\ ret = returned'
  OBVIOUS
<1>3. AreTypes(globals) /\ IsList(mods) /\ ModulesOK(modules, mods)
  BY DEF LInv, Types, ModulesOK, AreTypes
<1>4. ASSUME Top.phase = "sections", \A c : ClassOK(mods, globals, Top.mp, c) => ClassOK(md, gl, Top.mp, c),
             Kind(Top.file, Top.at) = "class" => ClassOK(md, gl, Top.mp, Top.file.sections[Top.at].name)
      PROVE  ClassesOK'
  <2>1. ClassesAt(s, md, gl, ret)
    BY <1>1, <1>2, <1>4, ClassesPass
  <2> QED BY <1>2, <2>1 DEF ClassesOK
<1>5. CASE loadClassSection
  <2>1. At("class")
    BY <1>5 DEF loadClassSection
  <2>2. Top.phase = "sections" /\ Section = Top.file.sections[Top.at]
    BY <2>1, SectionHas
  <2>3. /\ \A c : ClassOK(mods, globals, Top.mp, c) => ClassOK(md, gl, Top.mp, c)
        /\ ClassOK(md, gl, Top.mp, Section.name)
    BY <1>2, <1>5, ClassAdded
  <2> QED BY <1>4, <2>2, <2>3
<1>6. CASE loadPropertySection \/ loadMethod
  <2>1. CASE loadPropertySection
    <3>1. At("property") /\ md = mods
      BY <1>2, <2>1 DEF loadPropertySection
    <3>2. Top.phase = "sections" /\ Kind(Top.file, Top.at) # "class"
      BY <3>1, SectionHas
    <3>3. DOMAIN gl = DOMAIN globals /\ \A c \in DOMAIN globals : gl[c].needFixup = globals[c].needFixup
      BY <1>2, <1>3, <2>1, SlotsAre
    <3>4. \A c : ClassOK(mods, globals, Top.mp, c) => ClassOK(md, gl, Top.mp, c)
      BY <3>1, <3>3 DEF ClassOK
    <3> QED BY <1>4, <3>2, <3>4
  <2>2. CASE loadMethod
    <3>1. At("function") /\ md = mods
      BY <1>2, <2>2 DEF loadMethod
    <3>2. Top.phase = "sections" /\ Kind(Top.file, Top.at) # "class"
      BY <3>1, SectionHas
    <3>3. DOMAIN gl = DOMAIN globals /\ \A c \in DOMAIN globals : gl[c].needFixup = globals[c].needFixup
      BY <1>2, <1>3, <2>2, SlotsAre
    <3>4. \A c : ClassOK(mods, globals, Top.mp, c) => ClassOK(md, gl, Top.mp, c)
      BY <3>1, <3>3 DEF ClassOK
    <3> QED BY <1>4, <3>2, <3>4
  <2> QED BY <1>6, <2>1, <2>2
<1>7. CASE loadInitializer
  <2>1. At("initializer") /\ gl = globals /\ md = [mods EXCEPT ![Top.mp].script = Section.script]
    BY <1>2, <1>7 DEF loadInitializer
  <2>2. Top.phase = "sections" /\ Kind(Top.file, Top.at) # "class" /\ Top.mp \in 1..Len(mods)
    BY <2>1, SectionHas
  <2>3. PICK m, r, x : m = Top.mp /\ r = mods[m] /\ x = Section.script
    OBVIOUS
  <2>4. m \in 1..Len(mods) /\ IsModule(r)
    BY <1>3, <2>2, <2>3 DEF ModulesOK
  <2>5. md = Scripted(mods, m, x)
    BY <2>1, <2>3 DEF Scripted
  <2>6. md = Put(mods, m, Changed(r, x, r.fixups, r.loading, r.initialized, r.ran))
    BY <1>3, <2>3, <2>4, <2>5, ScriptChanges
  <2>7. PICK q : q = Changed(r, x, r.fixups, r.loading, r.initialized, r.ran)
    OBVIOUS
  <2>8. md[m] = q
    BY <1>3, <2>4, <2>6, <2>7, PutIs
  <2>9. md[m].fixups = mods[m].fixups
    BY <2>3, <2>7, <2>8 DEF Changed
  <2>10. \A c : ClassOK(mods, globals, Top.mp, c) => ClassOK(md, gl, Top.mp, c)
    BY <2>1, <2>3, <2>9 DEF ClassOK
  <2> QED BY <1>4, <2>2, <2>10
<1>8. CASE loadEndFunctionSection
  <2>1. At("function_end") /\ gl = globals /\ md = mods
    BY <1>2, <1>8 DEF loadEndFunctionSection, state
  <2>2. Top.phase = "sections" /\ Kind(Top.file, Top.at) # "class"
    BY <2>1, SectionHas
  <2> QED BY <1>4, <2>1, <2>2
<1>9. CASE loadEndClassSection
  <2>1. At("class_end") /\ gl = globals /\ md = mods
    BY <1>2, <1>9 DEF loadEndClassSection, state
  <2>2. Top.phase = "sections" /\ Kind(Top.file, Top.at) # "class"
    BY <2>1, SectionHas
  <2> QED BY <1>4, <2>1, <2>2
<1> QED BY <1>5, <1>6, <1>7, <1>8, <1>9

\* The last section leaves a load with all its classes.
LEMMA ClassesAtEnd ==
    ASSUME LInv, ClassesOK, loadEndModuleSection
    PROVE  ClassesOK'
<1>1. At("module_end") /\ mods' = mods /\ globals' = globals
  BY DEF loadEndModuleSection, state
<1>2. /\ stack # <<>> /\ Top.call = "load" /\ Top.phase = "sections" /\ LoadOK(Top, modules, mods) /\ IsWhole(Top.file)
      /\ Top.at \in 1..Len(Top.file.sections) /\ Kind(Top.file, Top.at) = "module_end" /\ Top.mp # None
  BY <1>1, SectionHas
<1>3. PICK f : Moved(f) /\ f.phase = "after" /\ f.at = f.firstModule + 1
  BY EndMoves
<1>4. stack' = Append(Below, f) /\ f.call = "load" /\ f.file = Top.file /\ f.mp = Top.mp
  BY <1>3 DEF Moved
<1>5. IsList(stack) /\ Top = stack[Len(stack)] /\ Classes(Top, mods, globals, returned) /\ IsList(Below)
  BY <1>2, TopHas, FrontIs DEF ClassesOK, ClassesAt, Below
<1>6. mods[Top.mp].loading
  BY <1>2 DEF LoadOK
<1>7. Top.at = Len(Top.file.sections) /\ Len(Top.file.sections) \in Nat
  BY <1>2 DEF IsWhole
<1>8. ASSUME NEW c \in DOMAIN Top.file.layouts PROVE ClassOK(mods, globals, Top.mp, c)
  <2>1. PICK k \in 1..Len(Top.file.sections) : Kind(Top.file, k) = "class" /\ Top.file.sections[k].name = c
    BY <1>2 DEF IsWhole
  <2>2. k # Top.at
    BY <1>2, <2>1
  <2>3. k < Top.at
    BY <1>7, <2>2
  <2> QED BY <1>2, <1>5, <2>1, <2>3 DEF Classes
<1>9. PICK s, ret : s = stack' /\ ret = returned'
  OBVIOUS
<1>10. Classes(f, mods, globals, ret)
  BY <1>3, <1>4, <1>6, <1>8 DEF Classes
<1>11. ClassesAt(s, mods, globals, ret)
  BY <1>4, <1>5, <1>9, <1>10, ClassesOfTop
<1> QED BY <1>1, <1>9, <1>11 DEF ClassesOK

\* Once references are resolved, the classes of the module are complete.
LEMMA ClassesResolved ==
    ASSUME LInv, ClassesOK, resolveTypes
    PROVE  ClassesOK'
<1>1. /\ After /\ mods[Following].loading /\ fixupTypes(mods[Following].fixups, Len(mods[Following].fixups))
      /\ mods' = [mods EXCEPT ![Following].loading = FALSE] /\ stack' = stack /\ returned' = returned
  BY DEF resolveTypes, Unresolved
<1>2. /\ stack # <<>> /\ Top.call = "load" /\ Top.phase = "after" /\ LoadOK(Top, modules, mods)
      /\ Top.mp # None /\ Top.mp \in 1..Len(mods) /\ Following = Top.mp /\ Top.at = Top.firstModule + 1
  BY <1>1, FollowingIs DEF Done
<1>3. AreTypes(globals) /\ IsList(mods) /\ IsModule(mods[Top.mp])
  BY <1>2 DEF LInv, Types, ModulesOK, AreTypes
<1>4. PICK m, r, md, gl : m = Top.mp /\ r = mods[Top.mp] /\ md = mods' /\ gl = globals'
  OBVIOUS
<1>5. IsModule(r) /\ Len(r.fixups) \in Nat
  BY <1>3, <1>4, ListIs DEF IsModule
<1>6. ~md[m].loading
  <2>1. m \in 1..Len(mods) /\ r = mods[m] /\ md = Resolved(mods, m)
    BY <1>1, <1>2, <1>4 DEF Resolved
  <2>2. md = Put(mods, m, Changed(r, r.script, r.fixups, FALSE, r.initialized, r.ran))
    BY <1>3, <1>5, <2>1, LoadingChanges
  <2>3. PICK q : q = Changed(r, r.script, r.fixups, FALSE, r.initialized, r.ran)
    OBVIOUS
  <2>4. md = Put(mods, m, q)
    BY <2>2, <2>3, Zenon
  <2>5. md[m] = q
    BY <1>3, <2>1, <2>4, PutIs
  <2>6. ~q.loading
    BY <2>3, Zenon DEF Changed
  <2> QED BY <2>5, <2>6
<1>7. \A c \in DOMAIN globals : gl[c].needFixup => globals[c].needFixup /\ ~Based(r.fixups, c)
  <2>1. PICK fixups, n : fixups = r.fixups /\ n = Len(fixups) /\ n \in Nat /\ fixupTypes(fixups, n)
    <3>1. fixupTypes(r.fixups, Len(r.fixups))
      BY <1>1, <1>2, <1>4
    <3> QED BY <1>5, <3>1
  <2>2. \A c \in DOMAIN globals : gl[c].needFixup =>
          globals[c].needFixup /\ \A x \in 1..n : ~(fixups[x].kind = "base" /\ fixups[x].target = c)
    BY <1>3, <1>4, <2>1, FixesComplete
  <2> QED BY <2>1, <2>2 DEF Based
<1>8. Top = stack[Len(stack)] /\ Classes(Top, mods, globals, returned)
  BY <1>2, TopHas DEF ClassesOK, ClassesAt
<1>9. mods[Top.mp].loading
  BY <1>1, <1>2
<1>10. \A c \in DOMAIN Top.file.layouts : ClassOK(mods, globals, Top.mp, c)
  BY <1>2, <1>8, <1>9 DEF Classes
<1>11. \A c \in DOMAIN Top.file.layouts : ~gl[c].needFixup
  BY <1>4, <1>7, <1>10 DEF ClassOK
<1>12. Classes(Top, md, gl, returned)
  BY <1>2, <1>4, <1>6, <1>11 DEF Classes
<1>13. ClassesAt(stack, md, gl, returned)
  BY <1>8, <1>12 DEF ClassesAt
<1> QED BY <1>1, <1>4, <1>13 DEF ClassesOK

\* A script begins with what was resolved.
LEMMA ClassesOfScript ==
    ASSUME LInv, ClassesOK, initializeModule, mods[Following].script.does # "nothing", [Next]_vars
    PROVE  ClassesOK'
<1>1. PICK f, g : /\ stack # <<>> /\ stack' = Append(Append(Below, f), g)
                  /\ g.call = "initializer" /\ g.mp = Top.mp
                  /\ Top.call = "load" /\ Top.phase = "after" /\ Top.mp # None /\ Top.at = Top.firstModule + 1
                  /\ ~mods[Top.mp].loading
  BY InitializerCalls
<1>2. globals' = globals
  BY DEF initializeModule
<1>3. IsList(stack) /\ Top = stack[Len(stack)] /\ LoadOK(Top, modules, mods) /\ IsLoad(Top)
      /\ Classes(Top, mods, globals, returned)
  BY <1>1, TopHas DEF ClassesOK, ClassesAt
<1>4. Top.mp \in 1..Len(mods) /\ mods[Top.mp].file = Top.file
  BY <1>1, <1>3 DEF LoadOK, IsLoad, None
<1>5. \A c \in DOMAIN Top.file.layouts : ~globals[c].needFixup
  BY <1>1, <1>3 DEF Classes
<1>6. PICK md, ret, m, s : md = mods' /\ ret = returned' /\ m = Top.mp /\ s = stack'
  OBVIOUS
<1>7. md[m].file = Top.file
  BY <1>4, <1>6, ModulesGrow DEF Grows
<1>8. Classes(g, md, globals, ret)
  BY <1>1, <1>5, <1>6, <1>7 DEF Classes
<1>9. PICK t : t = Append(Below, f)
  OBVIOUS
<1>10. IsList(t)
  BY <1>1, <1>3, <1>9, SetTopIs DEF Below
<1>11. s = Append(t, g)
  BY <1>1, <1>6, <1>9
<1>12. ClassesAt(s, md, globals, ret)
  BY <1>8, <1>10, <1>11, ClassesOfTop
<1> QED BY <1>2, <1>6, <1>12 DEF ClassesOK

\* Nothing is said of the classes of the call that waited for the one on top.
LEMMA ClassesBelow ==
    ASSUME LInv, stack # <<>>, stack' = Below, returned' # "no"
    PROVE  ClassesOK'
<1>1. PICK s, md, gl, ret : s = stack' /\ md = mods' /\ gl = globals' /\ ret = returned'
  OBVIOUS
<1>2. StackOK(stack, modules, mods) /\ IsList(stack) /\ s = Front(stack) /\ ret # "no"
  BY <1>1 DEF LInv, StackOK, Below
<1>3. IsList(s) /\ Len(s) = Len(stack) - 1 /\ (\A i \in 1..Len(stack) - 1 : s[i] = stack[i]) /\ Len(stack) \in Nat
  BY <1>2, FrontIs
<1>4. ASSUME s # <<>> PROVE Classes(s[Len(s)], md, gl, ret)
  <2>1. Len(s) \in 1..Len(stack) - 1
    BY <1>3, <1>4, ListIs
  <2>2. PICK f, i : i = Len(s) /\ f = stack[i] /\ f = s[i]
    BY <1>3, <2>1
  <2>3. /\ f.call = "load" => f.phase \in {"dependency", "initializer"}
        /\ f.call # "load" => f.call = "initializer"
    <3>1. StackOK(stack, modules, mods) /\ i \in 1..Len(stack) - 1
      BY <1>2, <2>1, <2>2
    <3>2. /\ stack[i].call = "load" => stack[i].phase \in {"dependency", "initializer"}
          /\ stack[i].call # "load" => stack[i].call = "initializer"
      BY <3>1, BelowIs
    <3> QED BY <2>2, <3>2
  <2>4. Classes(f, md, gl, ret)
    BY <1>2, <2>3 DEF Classes
  <2> QED BY <2>2, <2>4
<1>5. ClassesAt(s, md, gl, ret)
  BY <1>4 DEF ClassesAt
<1> QED BY <1>1, <1>5 DEF ClassesOK

\* A load that begins has passed no class.
LEMMA ClassesAtStart ==
    ASSUME NEW t, IsList(t), NEW n, NEW reload, NEW md, NEW gl, NEW ret, NEW s, s = Append(t, LoadFrame(n, reload))
    PROVE  ClassesAt(s, md, gl, ret)
<1>1. PICK g : g = LoadFrame(n, reload)
  OBVIOUS
<1>2. g.call = "load" /\ g.phase = "sections" /\ g.at = 1
  BY <1>1 DEF LoadFrame
<1>3. Classes(g, md, gl, ret)
  BY <1>2 DEF Classes
<1>4. s = Append(t, g)
  BY <1>1
<1> QED BY <1>3, <1>4, ClassesOfTop

\* Every step keeps what is said of classes.
LEMMA ClassesNext ==
    ASSUME LInv, ClassesOK, [Next]_vars
    PROVE  ClassesOK'
<1>1. PICK s, md, gl, ret : s = stack' /\ md = mods' /\ gl = globals' /\ ret = returned'
  OBVIOUS
<1>2. ASSUME ClassesAt(s, md, gl, ret) PROVE ClassesOK'
  BY <1>1, <1>2 DEF ClassesOK
<1>3. IsList(stack)
  BY DEF LInv, StackOK
<1>4. ASSUME NEW f, Moved(f), f.phase # "sections", ~(f.phase = "after" /\ f.at = f.firstModule + 1)
      PROVE  ClassesOK'
  <2>1. stack # <<>> /\ s = Append(Below, f) /\ f.call = "load"
    BY <1>1, <1>4 DEF Moved
  <2>2. IsList(Below)
    BY <1>3, <2>1, FrontIs DEF Below
  <2>3. Classes(f, md, gl, ret)
    BY <1>4, <2>1 DEF Classes
  <2>4. ClassesAt(s, md, gl, ret)
    BY <2>1, <2>2, <2>3, ClassesOfTop
  <2> QED BY <1>2, <2>4
<1>5. CASE stack' = <<>>
  BY <1>1, <1>2, <1>5 DEF ClassesAt
<1>6. CASE (\E n \in Modules : CompileAgain(n)) \/ Seen
  BY <1>5, <1>6 DEF CompileAgain, Seen
<1>7. ASSUME NEW n, Load(n), stack # <<>> => Top.call = "initializer" PROVE ClassesOK'
  <2>1. PICK reload : ejsLoadModule(n, reload)
    BY <1>7 DEF Load
  <2>2. CASE s = Append(stack, LoadFrame(n, reload))
    <3>1. ClassesAt(s, md, gl, ret)
      BY <1>3, <2>2, ClassesAtStart
    <3> QED BY <1>2, <3>1
  <2>3. CASE s = stack /\ ret = "ok"
    <3>1. CASE stack = <<>>
      BY <1>1, <1>5, <2>3, <3>1
    <3>2. CASE stack # <<>>
      <4>1. Top = stack[Len(stack)] /\ Top.call = "initializer"
        BY <1>7, <3>2, TopHas
      <4>2. Classes(Top, md, gl, ret)
        BY <2>3, <4>1 DEF Classes
      <4>3. ClassesAt(s, md, gl, ret)
        BY <2>3, <4>1, <4>2 DEF ClassesAt
      <4> QED BY <1>2, <4>3
    <3> QED BY <3>1, <3>2
  <2> QED BY <1>1, <2>1, <2>2, <2>3 DEF ejsLoadModule
<1>8. CASE MainLoads
  BY <1>7, <1>8 DEF MainLoads
<1>9. CASE ScriptLoads
  BY <1>7, <1>9 DEF ScriptLoads, Running
<1>10. CASE \/ loadClassSection \/ loadPropertySection \/ loadMethod \/ loadInitializer
            \/ loadEndFunctionSection \/ loadEndClassSection
  BY <1>10, ClassesOfSections
<1>11. CASE loadModuleSection
  <2>1. PICK f : /\ stack # <<>> /\ stack' = Append(Below, f) /\ f.call = "load" /\ f.file = Top.file /\ f.at = 2
                 /\ f.phase = "sections" /\ Top.call = "load" /\ IsWhole(Top.file)
    BY <1>11, ModuleTop
  <2>2. \A k \in 1..Len(f.file.sections) : k < f.at => Kind(f.file, k) # "class"
    BY <2>1 DEF IsWhole
  <2>3. Classes(f, md, gl, ret)
    BY <2>1, <2>2 DEF Classes
  <2>4. IsList(Below)
    BY <1>3, <2>1, FrontIs DEF Below
  <2>5. s = Append(Below, f)
    BY <1>1, <2>1
  <2>6. ClassesAt(s, md, gl, ret)
    BY <2>3, <2>4, <2>5, ClassesOfTop
  <2> QED BY <1>2, <2>6
<1>12. CASE loadDependencySection
  <2>1. PICK f : stack # <<>> /\ stack' = Append(Append(Below, f), LoadFrame(Section.name, Top.reload))
    BY <1>12, DependencyCalls
  <2>2. PICK t, n, reload : t = Append(Below, f) /\ n = Section.name /\ reload = Top.reload
    OBVIOUS
  <2>3. IsList(t)
    BY <1>3, <2>1, <2>2, SetTopIs DEF Below
  <2>4. s = Append(t, LoadFrame(n, reload))
    BY <1>1, <2>1, <2>2
  <2>5. ClassesAt(s, md, gl, ret)
    BY <2>3, <2>4, ClassesAtStart
  <2> QED BY <1>2, <2>5
<1>13. CASE DependencyThere \/ DependencyLoaded \/ DependencyFails
  <2>1. PICK f : Moved(f) /\ f.phase \in {"sections", "failed"}
    BY <1>13, DependencyMoves
  <2>2. CASE f.phase = "failed"
    BY <1>4, <2>1, <2>2
  <2>3. CASE f.phase = "sections"
    <3>1. /\ stack # <<>> /\ s = Append(Below, f) /\ f.call = "load" /\ f.file = Top.file /\ f.at = Top.at + 1
          /\ Top.call = "load"
          /\ \/ Top.phase = "sections" /\ Kind(Top.file, Top.at) # "dependency"
             \/ (DependencyThere \/ DependencyLoaded) /\ DependencyMatches
      BY <1>1, <2>1, <2>3 DEF Moved, Passes
    <3>2. ~(Top.phase = "sections" /\ Kind(Top.file, Top.at) # "dependency")
      <4>1. CASE DependencyThere
        <5>1. At("dependency")
          BY <4>1 DEF DependencyThere
        <5> QED BY <5>1, SectionHas
      <4>2. CASE DependencyLoaded \/ DependencyFails
        BY <4>2 DEF DependencyLoaded, DependencyFails, Loading
      <4> QED BY <1>13, <4>1, <4>2
    <3>3. Kind(Top.file, Top.at) = "dependency" /\ IsWhole(Top.file) /\ Top.at \in 1..Len(Top.file.sections)
      BY <3>1, <3>2, DependencyMet
    <3>4. \A l \in 1..Top.at : Kind(Top.file, l) # "class"
      BY <3>3 DEF IsWhole
    <3>5. Top.at \in Nat
      BY <3>1, TopHas DEF IsLoad
    <3>6. \A k \in 1..Len(f.file.sections) : k < f.at => Kind(f.file, k) # "class"
      <4> SUFFICES ASSUME NEW k \in 1..Len(f.file.sections), k < f.at PROVE Kind(f.file, k) # "class"
        OBVIOUS
      <4>1. k \in 1..Top.at
        BY <3>1, <3>5
      <4> QED BY <3>1, <3>4, <4>1
    <3>7. Classes(f, md, gl, ret)
      BY <2>3, <3>1, <3>6 DEF Classes
    <3>8. IsList(Below)
      BY <1>3, <3>1, FrontIs DEF Below
    <3>9. ClassesAt(s, md, gl, ret)
      BY <3>1, <3>7, <3>8, ClassesOfTop
    <3> QED BY <1>2, <3>9
  <2> QED BY <2>1, <2>2, <2>3
<1>14. CASE loadEndModuleSection
  BY <1>14, ClassesAtEnd
<1>15. CASE resolveTypes
  BY <1>15, ClassesResolved
<1>16. CASE \/ typeMissing \/ initialized \/ InitializerReturns
            \/ initializeModule /\ mods[Following].script.does = "nothing"
  <2>1. PICK f : Moved(f) /\ (f.phase = "failed" \/ (f.phase = "after" /\ f.at > f.firstModule + 1))
    BY <1>16, AfterMoves
  <2>2. f.phase # "sections"
    BY <2>1
  <2>3. ~(f.phase = "after" /\ f.at = f.firstModule + 1)
    <3>1. f.firstModule \in Nat
      BY <2>1, TopHas DEF Moved, IsLoad
    <3> QED BY <2>1, <3>1
  <2> QED BY <1>4, <2>1, <2>2, <2>3
<1>17. CASE initializeModule /\ mods[Following].script.does # "nothing"
  BY <1>17, ClassesOfScript
<1>18. CASE LoadReturns \/ LoadFails \/ ScriptEnds \/ ScriptThrows \/ ScriptLoaded
  <2>1. stack # <<>> /\ stack' = Below /\ returned' # "no"
    BY <1>18 DEF LoadReturns, LoadFails, Loading, ScriptEnds, ScriptThrows, ScriptLoaded, Ends, Running
  <2> QED BY <2>1, ClassesBelow
<1>19. CASE UNCHANGED vars
  BY <1>19 DEF vars, state, ClassesOK
<1> QED BY <1>6, <1>8, <1>9, <1>10, <1>11, <1>12, <1>13, <1>14, <1>15, <1>16, <1>17, <1>18, <1>19
       DEF Next, Sections, Afterwards

\* When a script begins, what the module requires has run or waits, and its
\* classes are complete.
LEMMA BeginsReady ==
    ASSUME LInv, Met(stack, mods), ClassesOK
    PROVE  ReadyWhenRun
<1> SUFFICES ASSUME Begins
             PROVE  /\ \A c \in DOMAIN Beginning.file.layouts : ~globals[c].needFixup
                    /\ \A r \in Range(Beginning.file.requires) :
                        \E m \in DOMAIN mods :
                            /\ mods[m].name = r.name /\ mods[m].checksum = r.checksum
                            /\ mods[m].ran = "done" \/ m \in Waiting
  BY DEF ReadyWhenRun
<1>1. stack # <<>> /\ Top.call = "initializer" /\ returned = "no"
  BY DEF Begins
<1> DEFINE i == Len(stack) - 1
<1>2. /\ Len(stack) \in Nat /\ i \in 1..Len(stack) - 1 /\ Top = stack[Len(stack)]
      /\ stack[i].call = "load" /\ stack[i].phase = "initializer"
      /\ stack[i].mp = Top.mp /\ Top.mp \in 1..Len(mods) /\ LoadOK(stack[i], modules, mods)
  BY <1>1, RunIs
<1>3. /\ Beginning.file = stack[i].file /\ IsWhole(stack[i].file)
  BY <1>2 DEF LoadOK, Beginning, None
<1>4. \A c \in DOMAIN Beginning.file.layouts : ~globals[c].needFixup
  <2>1. Classes(Top, mods, globals, returned)
    BY <1>1, <1>2 DEF ClassesOK, ClassesAt
  <2> QED BY <1>1, <2>1 DEF Classes, Beginning
<1>5. DOMAIN mods = 1..Len(mods) /\ DOMAIN stack = 1..Len(stack)
  BY ListIs DEF LInv, Types, ModulesOK, StackOK
<1>6. ASSUME NEW r \in Range(Beginning.file.requires)
      PROVE  \E m \in DOMAIN mods :
                /\ mods[m].name = r.name /\ mods[m].checksum = r.checksum
                /\ mods[m].ran = "done" \/ m \in Waiting
  <2>1. PICK f : f = stack[i]
    OBVIOUS
  <2>2. PICK k \in 1..Len(f.file.sections) :
          Kind(f.file, k) = "dependency" /\ f.file.sections[k].name = r.name /\ f.file.sections[k].checksum = r.checksum
    BY <1>3, <1>6, <2>1 DEF IsWhole
  <2>3. i \in 1..Len(stack) /\ f.call = "load" /\ Passed(f, k)
    BY <1>2, <2>1 DEF Passed
  <2>4. IsMet(stack, i, f.file.sections[k], mods)
    BY <2>1, <2>2, <2>3 DEF Met
  <2>5. PICK m \in 1..Len(mods) :
          /\ mods[m].name = r.name /\ mods[m].checksum = r.checksum
          /\ mods[m].ran = "done" \/ \E j \in 1..i : stack[j].call = "load" /\ stack[j].mp = m
    BY <2>2, <2>4 DEF IsMet
  <2>6. ASSUME NEW j \in 1..i, stack[j].call = "load", stack[j].mp = m PROVE m \in Waiting
    <3>1. j \in DOMAIN stack
      BY <1>2, <1>5, <2>6
    <3> QED BY <2>6, <3>1 DEF Waiting
  <2> QED BY <1>5, <2>5, <2>6
<1> QED BY <1>4, <1>6

\* When the code of a module begins to run, all that it requires has run or waits
\* for it, in the form that it was compiled with, and its classes are complete.
THEOREM ModulesAreReady == Spec /\ []FilesAreWhole => []ReadyWhenRun
<1> DEFINE I == LInv /\ Met(stack, mods) /\ ClassesOK
<1>1. Init => I
  <2> SUFFICES ASSUME Init PROVE I
    OBVIOUS
  <2>1. LInv
    BY LInvInit
  <2>2. stack = <<>>
    BY Zenon DEF Init
  <2>3. Len(stack) = 0
    BY <2>2
  <2>4. Met(stack, mods) /\ ClassesOK
    BY <2>2, <2>3 DEF Met, ClassesOK, ClassesAt
  <2> QED BY <2>1, <2>4
<1>2. I /\ FilesAreWhole /\ [Next]_vars => I'
  <2> SUFFICES ASSUME LInv, Met(stack, mods), ClassesOK, FilesAreWhole, [Next]_vars PROVE I'
    OBVIOUS
  <2>1. LInv'
    BY LInvNext
  <2>2. Met(stack', mods')
    BY MetNext
  <2>3. ClassesOK'
    BY ClassesNext
  <2> QED BY <2>1, <2>2, <2>3
<1>3. I => ReadyWhenRun
  BY BeginsReady
<1> HIDE DEF I
<1> QED BY <1>1, <1>2, <1>3, PTL DEF Spec
=============================================================================
