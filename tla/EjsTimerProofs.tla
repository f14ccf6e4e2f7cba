--------------------------- MODULE EjsTimerProofs ---------------------------
(***************************************************************************)
(* Theorems about EjsTimer, for any timers, any periods, any number of      *)
(* calls and any depth of nested loops.                                     *)
(***************************************************************************)
EXTENDS EjsTimer, SequenceTheorems, WellFoundedInduction, TLAPS

-----------------------------------------------------------------------------
(***************************************************************************)
(* The greatest of numbers, and a sequence with one more element.           *)
(***************************************************************************)

\* A set of numbers up to a bound has a greatest one, which Max chooses: the
\* walk of mprQueueEvent from the end of the queue comes to a place.
LEMMA MaxIsGreatest ==
    ASSUME NEW n \in Nat, NEW S \in SUBSET (0..n), S # {}
    PROVE  Max(S) \in S /\ \A y \in S : Max(S) >= y
<1> DEFINE R == OpToRel(<, Nat)
           T == {n - x : x \in S}
<1>1. T \subseteq Nat /\ T # {}
  <2>1. PICK x \in S : TRUE
    OBVIOUS
  <2>2. n - x \in T
    BY <2>1
  <2>3. \A y \in S : n - y \in Nat
    OBVIOUS
  <2> QED BY <2>2, <2>3
<1>2. PICK m \in T : \A y \in T : ~(<<y, m>> \in R)
  <2> HIDE DEF T
  <2> QED BY <1>1, NatLessThanWellFounded, WFMin
<1>3. PICK x \in S : m = n - x
  OBVIOUS
<1>4. ASSUME NEW y \in S PROVE x >= y
  <2>1. n - y \in T /\ n - y \in Nat /\ n - x \in Nat /\ x \in Nat /\ y \in Nat
    OBVIOUS
  <2>2. ~(n - y < n - x)
    BY <1>2, <1>3, <2>1 DEF OpToRel
  <2> QED BY <2>1, <2>2
<1> QED BY <1>3, <1>4 DEF Max

\* A greatest element of two, the time a continuous event waits (dispatchEvents).
LEMMA MaxOfTwo ==
    ASSUME NEW p \in Nat
    PROVE  Max({1, p}) \in Nat /\ Max({1, p}) >= 1
<1>1. {1, p} \in SUBSET (0..p + 1) /\ {1, p} # {} /\ p + 1 \in Nat
  OBVIOUS
<1>2. Max({1, p}) \in {1, p} /\ \A y \in {1, p} : Max({1, p}) >= y
  BY <1>1, MaxIsGreatest
<1> QED BY <1>2

\* The elements before the place keep theirs, those behind it move up by one.
LEMMA InsertedElements ==
    ASSUME NEW S, NEW s \in Seq(S), NEW e \in S, NEW k \in 1..Len(s) + 1
    PROVE  /\ InsertAt(s, k, e) \in Seq(S)
           /\ Len(InsertAt(s, k, e)) = Len(s) + 1
           /\ \A i \in 1..Len(s) + 1 :
                InsertAt(s, k, e)[i] = IF i < k THEN s[i] ELSE IF i = k THEN e ELSE s[i - 1]
<1> DEFINE n == Len(s)
           a == SubSeq(s, 1, k - 1)
           b == SubSeq(s, k, n)
           ab == a \o <<e>>
<1>1. n \in Nat /\ \A i \in 1..n : s[i] \in S
  BY LenProperties
<1>2. /\ a \in Seq(S) /\ Len(a) = k - 1
      /\ \A i \in 1..k - 1 : a[i] = s[i]
  <2>1. 1 \in Int /\ k - 1 \in Int /\ \A i \in 1..k - 1 : s[i] \in S
    BY <1>1
  <2>2. /\ a \in Seq(S) /\ Len(a) = IF 1 <= k - 1 THEN k - 1 - 1 + 1 ELSE 0
        /\ \A i \in 1..k - 1 - 1 + 1 : a[i] = s[1 + i - 1]
    BY <2>1, SubSeqProperties
  <2> QED BY <1>1, <2>2
<1>3. /\ b \in Seq(S) /\ Len(b) = n - k + 1
      /\ \A i \in 1..n - k + 1 : b[i] = s[k + i - 1]
  <2>1. k \in Int /\ n \in Int /\ \A i \in k..n : s[i] \in S
    BY <1>1
  <2>2. /\ b \in Seq(S) /\ Len(b) = IF k <= n THEN n - k + 1 ELSE 0
        /\ \A i \in 1..n - k + 1 : b[i] = s[k + i - 1]
    BY <2>1, SubSeqProperties
  <2> QED BY <1>1, <2>2
<1>4. <<e>> \in Seq(S) /\ Len(<<e>>) = 1 /\ <<e>>[1] = e
  OBVIOUS
<1> HIDE DEF a, b
<1>5. /\ ab \in Seq(S) /\ Len(ab) = k
      /\ \A i \in 1..k : ab[i] = IF i <= k - 1 THEN s[i] ELSE e
  <2>1. /\ ab \in Seq(S) /\ Len(ab) = Len(a) + Len(<<e>>)
        /\ \A i \in 1..Len(a) + Len(<<e>>) : ab[i] = IF i <= Len(a) THEN a[i] ELSE <<e>>[i - Len(a)]
    BY <1>2, <1>4, ConcatProperties
  <2> QED BY <1>1, <1>2, <1>4, <2>1
<1> HIDE DEF ab
<1>6. /\ ab \o b \in Seq(S) /\ Len(ab \o b) = Len(ab) + Len(b)
      /\ \A i \in 1..Len(ab) + Len(b) : (ab \o b)[i] = IF i <= Len(ab) THEN ab[i] ELSE b[i - Len(ab)]
  BY <1>3, <1>5, ConcatProperties
<1>7. InsertAt(s, k, e) = ab \o b
  BY DEF InsertAt, ab, a, b
<1>8. Len(ab \o b) = n + 1
  BY <1>1, <1>3, <1>5, <1>6
<1>9. ASSUME NEW i \in 1..n + 1
      PROVE  (ab \o b)[i] = IF i < k THEN s[i] ELSE IF i = k THEN e ELSE s[i - 1]
  <2>1. (ab \o b)[i] = IF i <= k THEN ab[i] ELSE b[i - k]
    BY <1>1, <1>3, <1>5, <1>6, <1>9
  <2>2. CASE i <= k
    BY <1>1, <1>5, <2>1, <2>2
  <2>3. CASE i > k
    <3>1. i - k \in 1..n - k + 1 /\ k + (i - k) - 1 = i - 1
      BY <1>1, <2>3
    <3> QED BY <1>1, <1>3, <2>1, <2>3, <3>1
  <2>4. i <= k \/ i > k
    BY <1>1
  <2> QED BY <2>2, <2>3, <2>4
<1> QED BY <1>6, <1>7, <1>8, <1>9

\* A function on 1..n is a sequence.
LEMMA FunctionIsSequence ==
    ASSUME NEW S, NEW n \in Nat, NEW f \in [1..n -> S]
    PROVE  f \in Seq(S) /\ Len(f) = n
OBVIOUS

-----------------------------------------------------------------------------
(***************************************************************************)
(* The inductive invariant, of a state of the timers and of the events      *)
(* that run.                                                                *)
(***************************************************************************)
Entry == [event : Nat, due : Nat]
Record == [timer : Timer, period : Period, continuous : BOOLEAN, runs : Nat]
State ==
    [period : [Timer -> Period], repeat : [Timer -> BOOLEAN], event : [Timer -> Nat], ejs : [Timer -> BOOLEAN],
     events : Seq(Record), queue : Seq(Entry)]

EventsIn(q) == {q[i].event : i \in DOMAIN q}

\* A queue in order, of events up to n, each once and none that runs
GoodQueue(q, on, n) ==
    /\ q \in Seq(Entry)
    /\ \A i, j \in DOMAIN q : i < j => q[i].due <= q[j].due
    /\ \A i, j \in DOMAIN q : i # j => q[i].event # q[j].event
    /\ EventsIn(q) \cap on = {}
    /\ EventsIn(q) \cup on \subseteq 1..n

\* What a timer knows, and what goes on by itself
Agrees(s, live) ==
    /\ \A e \in live : s.events[e].continuous => s.event[s.events[e].timer] = e
    /\ \A t \in Timer : s.event[t] # None =>
            /\ s.event[t] \in live
            /\ s.events[s.event[t]].timer = t
            /\ s.events[s.event[t]].continuous = s.repeat[t]

\* Events of timers that never repeat run once
RunOnce(s, queued) ==
    /\ \A t \in Single : ~s.repeat[t]
    /\ \A e \in 1..Len(s.events) : s.events[e].timer \in Single =>
            ~s.events[e].continuous /\ s.events[e].runs = IF e \in queued THEN 0 ELSE 1

\* A timer loses its interpreter when an event of it is over
Forgotten(s, live) ==
    \A t \in Timer : ~s.ejs[t] => \E e \in 1..Len(s.events) : e \notin live /\ s.events[e].timer = t

Good(s, on) ==
    /\ s \in State
    /\ GoodQueue(s.queue, on, Len(s.events))
    /\ Agrees(s, EventsIn(s.queue) \cup on)
    /\ RunOnce(s, EventsIn(s.queue))
    /\ Forgotten(s, EventsIn(s.queue) \cup on)

Frames == [event : Nat, part : {"script", "callback", "onerror"}, serving : BOOLEAN]

EventsOf(st) == {st[i].event : i \in DOMAIN st} \ {None}

\* The script at the bottom, and callbacks of different events above it
GoodStack(st) ==
    /\ st \in Seq(Frames) /\ st # <<>>
    /\ \A i \in 1..Len(st) : st[i].event = None <=> i = Len(st)
    /\ \A i \in 1..Len(st) : st[i].part = "script" <=> i = Len(st)
    /\ \A i, j \in 1..Len(st) : i # j => st[i].event # st[j].event

\* What met a timer without an interpreter
CrashOK ==
    /\ exception \in BOOLEAN /\ crashed \in {"no", "callback", "collector"}
    /\ crashed = "callback" =>
            \E i, j \in DOMAIN events : i # j /\ events[i].timer = events[j].timer

IInv == Good(timers, OnStack) /\ GoodStack(stack) /\ CrashOK

-----------------------------------------------------------------------------
(***************************************************************************)
(* The queue.                                                               *)
(***************************************************************************)

\* mprQueueEvent puts an event behind those that are due no later and before
\* the others, so that a queue in order stays in order.
LEMMA QueueEventKeepsOrder ==
    ASSUME NEW q, NEW on, NEW n \in Nat, GoodQueue(q, on, n),
           NEW e \in 1..n, e \notin EventsIn(q), e \notin on, NEW due \in Nat
    PROVE  /\ GoodQueue(mprQueueEvent(q, e, due), on, n)
           /\ EventsIn(mprQueueEvent(q, e, due)) = EventsIn(q) \cup {e}
<1> DEFINE S == {0} \cup {i \in DOMAIN q : q[i].due <= due}
           m == Max(S)
           new == [event |-> e, due |-> due]
           r == InsertAt(q, m + 1, new)
<1>1. /\ q \in Seq(Entry) /\ Len(q) \in Nat /\ DOMAIN q = 1..Len(q)
      /\ \A i \in 1..Len(q) : q[i] \in Entry
  BY LenProperties DEF GoodQueue
<1>2. m \in S /\ \A i \in S : m >= i
  <2>1. S \in SUBSET (0..Len(q)) /\ S # {}
    BY <1>1
  <2> HIDE DEF S
  <2> QED BY <1>1, <2>1, MaxIsGreatest
<1>3. m \in 0..Len(q)
  BY <1>1, <1>2
<1>4. \A i \in 1..Len(q) : i <= m => q[i].due <= due
  <2>1. SUFFICES ASSUME NEW i \in 1..Len(q), i <= m PROVE q[i].due <= due
    OBVIOUS
  <2>2. m \in 1..Len(q) /\ q[m].due <= due
    BY <1>1, <1>2, <1>3, <2>1
  <2>3. i = m \/ q[i].due <= q[m].due
    BY <1>1, <1>3, <2>1, <2>2 DEF GoodQueue
  <2>4. q[i].due \in Nat /\ q[m].due \in Nat
    BY <1>1, <2>2 DEF Entry
  <2> QED BY <2>2, <2>3, <2>4
<1>5. \A i \in 1..Len(q) : i > m => due <= q[i].due
  <2>1. SUFFICES ASSUME NEW i \in 1..Len(q), i > m PROVE due <= q[i].due
    OBVIOUS
  <2>2. i \notin S
    <3> HIDE DEF S, m
    <3> QED BY <1>1, <1>2, <1>3, <2>1
  <2>3. q[i].due \in Nat /\ ~(q[i].due <= due)
    BY <1>1, <2>2 DEF Entry
  <2> QED BY <2>3
<1>6. new \in Entry
  BY DEF Entry
<1> HIDE DEF m
<1>7. /\ r \in Seq(Entry) /\ Len(r) = Len(q) + 1 /\ DOMAIN r = 1..Len(q) + 1
      /\ \A i \in 1..Len(q) + 1 : r[i] = IF i < m + 1 THEN q[i] ELSE IF i = m + 1 THEN new ELSE q[i - 1]
  <2> DEFINE k == m + 1
  <2>1. k \in 1..Len(q) + 1
    BY <1>1, <1>3
  <2> HIDE DEF new, k
  <2>2. /\ InsertAt(q, k, new) \in Seq(Entry) /\ Len(InsertAt(q, k, new)) = Len(q) + 1
        /\ \A i \in 1..Len(q) + 1 :
             InsertAt(q, k, new)[i] = IF i < k THEN q[i] ELSE IF i = k THEN new ELSE q[i - 1]
    BY <1>1, <1>6, <2>1, InsertedElements
  <2>3. r = InsertAt(q, k, new)
    BY DEF k
  <2> HIDE DEF r
  <2>4. DOMAIN r = 1..Len(r)
    BY <2>2, <2>3, LenProperties
  <2> QED BY <2>2, <2>3, <2>4 DEF k
<1> HIDE DEF r
<1>8. \A i \in 1..Len(q) + 1 :
        \/ i <= m /\ i \in 1..Len(q) /\ r[i] = q[i]
        \/ i = m + 1 /\ r[i].event = e /\ r[i].due = due
        \/ i > m + 1 /\ i - 1 > m /\ i - 1 \in 1..Len(q) /\ r[i] = q[i - 1]
  BY <1>1, <1>3, <1>7
<1>9. \A i, j \in DOMAIN r : i < j => r[i].due <= r[j].due
  <2> SUFFICES ASSUME NEW i \in 1..Len(q) + 1, NEW j \in 1..Len(q) + 1, i < j
               PROVE  r[i].due <= r[j].due
    BY <1>7
  <2>1. \A k \in 1..Len(q) : q[k].due \in Nat
    BY <1>1 DEF Entry
  <2>2. \A k, l \in 1..Len(q) : k < l => q[k].due <= q[l].due
    BY <1>1 DEF GoodQueue
  <2>3. CASE i <= m
    <3>1. i \in 1..Len(q) /\ r[i] = q[i] /\ q[i].due <= due
      BY <1>1, <1>3, <1>4, <1>8, <2>3
    <3>2. CASE j <= m
      BY <1>1, <1>3, <1>8, <2>2, <3>1, <3>2
    <3>3. CASE j = m + 1
      BY <1>1, <1>3, <1>8, <3>1, <3>3
    <3>4. CASE j > m + 1
      <4>1. j - 1 \in 1..Len(q) /\ i < j - 1 /\ r[j] = q[j - 1]
        BY <1>1, <1>3, <1>8, <2>3, <3>4
      <4> QED BY <2>2, <3>1, <4>1
    <3> QED BY <1>3, <3>2, <3>3, <3>4
  <2>4. CASE i = m + 1
    BY <1>1, <1>3, <1>5, <1>8, <2>4
  <2>5. CASE i > m + 1
    <3>1. j > m + 1
      BY <1>3, <2>5
    <3>2. i - 1 \in 1..Len(q) /\ r[i] = q[i - 1] /\ j - 1 \in 1..Len(q) /\ r[j] = q[j - 1]
      BY <1>3, <1>8, <2>5, <3>1
    <3> QED BY <1>1, <2>2, <3>2
  <2> QED BY <1>3, <2>3, <2>4, <2>5
<1>10. \A i, j \in DOMAIN r : i # j => r[i].event # r[j].event
  <2> SUFFICES ASSUME NEW i \in 1..Len(q) + 1, NEW j \in 1..Len(q) + 1, i < j
               PROVE  r[i].event # r[j].event
    <3>1. \A i, j \in 1..Len(q) + 1 : i # j => i < j \/ j < i
      BY <1>1
    <3> QED BY <1>7, <3>1
  <2>1. \A k \in 1..Len(q) : q[k].event # e
    BY <1>1 DEF EventsIn
  <2>2. \A k, l \in 1..Len(q) : k # l => q[k].event # q[l].event
    BY <1>1 DEF GoodQueue
  <2>3. CASE i <= m
    <3>1. i \in 1..Len(q) /\ r[i] = q[i]
      BY <1>3, <1>8, <2>3
    <3> QED BY <1>1, <1>3, <1>8, <2>1, <2>2, <2>3, <3>1
  <2>4. CASE i = m + 1
    BY <1>1, <1>3, <1>8, <2>1, <2>4
  <2>5. CASE i > m + 1
    <3>1. j > m + 1
      BY <1>3, <2>5
    <3>2. i - 1 \in 1..Len(q) /\ r[i] = q[i - 1] /\ j - 1 \in 1..Len(q) /\ r[j] = q[j - 1]
      BY <1>3, <1>8, <2>5, <3>1
    <3> QED BY <1>1, <2>2, <3>2
  <2> QED BY <1>3, <2>3, <2>4, <2>5
<1>11. EventsIn(r) = EventsIn(q) \cup {e}
  <2>1. \A i \in 1..Len(q) + 1 : r[i].event \in EventsIn(q) \cup {e}
    BY <1>1, <1>8 DEF EventsIn
  <2>2. \A i \in 1..Len(q) : q[i].event \in EventsIn(r)
    <3> SUFFICES ASSUME NEW i \in 1..Len(q) PROVE \E k \in 1..Len(q) + 1 : r[k] = q[i]
      BY <1>7 DEF EventsIn
    <3>1. CASE i <= m
      <4>1. i \in 1..Len(q) + 1 /\ r[i] = q[i]
        BY <1>1, <1>3, <1>8, <3>1
      <4> QED BY <4>1
    <3>2. CASE i > m
      <4>1. i + 1 \in 1..Len(q) + 1 /\ r[i + 1] = q[i]
        BY <1>1, <1>3, <1>7, <3>2
      <4> QED BY <4>1
    <3> QED BY <1>3, <3>1, <3>2
  <2>3. e \in EventsIn(r)
    <3>1. m + 1 \in 1..Len(q) + 1 /\ r[m + 1].event = e
      BY <1>1, <1>3, <1>8
    <3> QED BY <1>7, <3>1 DEF EventsIn
  <2>4. EventsIn(r) \subseteq EventsIn(q) \cup {e}
    BY <1>7, <2>1 DEF EventsIn
  <2>5. EventsIn(q) \subseteq EventsIn(r)
    BY <1>1, <2>2 DEF EventsIn
  <2> QED BY <2>3, <2>4, <2>5
<1>12. mprQueueEvent(q, e, due) = r
  BY DEF mprQueueEvent, r, m
<1>13. GoodQueue(r, on, n)
  BY <1>7, <1>9, <1>10, <1>11 DEF GoodQueue
<1> QED BY <1>11, <1>12, <1>13

\* The first event leaves the queue to those behind it (mprGetNextEvent).
LEMMA TakenFromQueue ==
    ASSUME NEW q, NEW on, NEW n \in Nat, GoodQueue(q, on, n), q # <<>>
    PROVE  /\ Head(q).event \in 1..n /\ Head(q).event \notin on /\ Head(q).event \in EventsIn(q)
           /\ EventsIn(Tail(q)) = EventsIn(q) \ {Head(q).event}
           /\ GoodQueue(Tail(q), on \cup {Head(q).event}, n)
<1> DEFINE e == Head(q).event
           r == Tail(q)
<1>1. /\ q \in Seq(Entry) /\ Len(q) \in Nat /\ DOMAIN q = 1..Len(q) /\ Len(q) >= 1
  BY LenProperties, EmptySeq DEF GoodQueue
<1>2. Head(q) = q[1]
  BY <1>1
<1>3. /\ r \in Seq(Entry) /\ DOMAIN r = 1..Len(q) - 1
      /\ \A i \in 1..Len(q) - 1 : r[i] = q[i + 1]
  BY <1>1, HeadTailProperties, LenProperties
<1>4. e \in EventsIn(q)
  BY <1>1, <1>2 DEF EventsIn
<1> HIDE DEF r
<1>5. EventsIn(r) = EventsIn(q) \ {e}
  <2>1. \A i \in 1..Len(q) - 1 : r[i].event \in EventsIn(q) \ {e}
    <3> SUFFICES ASSUME NEW i \in 1..Len(q) - 1 PROVE r[i].event \in EventsIn(q) \ {e}
      OBVIOUS
    <3>1. i + 1 \in 1..Len(q) /\ 1 \in 1..Len(q) /\ i + 1 # 1 /\ r[i] = q[i + 1]
      BY <1>1, <1>3
    <3> QED BY <1>1, <1>2, <3>1 DEF EventsIn, GoodQueue
  <2>2. \A i \in 1..Len(q) : q[i].event = e \/ q[i].event \in EventsIn(r)
    <3> SUFFICES ASSUME NEW i \in 1..Len(q), i # 1 PROVE q[i].event \in EventsIn(r)
      BY <1>2
    <3>1. i - 1 \in 1..Len(q) - 1 /\ r[i - 1] = q[i]
      BY <1>1, <1>3
    <3> QED BY <1>3, <3>1 DEF EventsIn
  <2> QED BY <1>1, <1>3, <2>1, <2>2 DEF EventsIn
<1>6. GoodQueue(r, on \cup {e}, n)
  <2>1. \A i, j \in DOMAIN r : i < j => r[i].due <= r[j].due
    <3> SUFFICES ASSUME NEW i \in 1..Len(q) - 1, NEW j \in 1..Len(q) - 1, i < j PROVE r[i].due <= r[j].due
      BY <1>3
    <3>1. i + 1 \in DOMAIN q /\ j + 1 \in DOMAIN q /\ i + 1 < j + 1
      BY <1>1
    <3> QED BY <1>3, <3>1 DEF GoodQueue
  <2>2. \A i, j \in DOMAIN r : i # j => r[i].event # r[j].event
    <3> SUFFICES ASSUME NEW i \in 1..Len(q) - 1, NEW j \in 1..Len(q) - 1, i # j PROVE r[i].event # r[j].event
      BY <1>3
    <3>1. i + 1 \in DOMAIN q /\ j + 1 \in DOMAIN q /\ i + 1 # j + 1
      BY <1>1
    <3> QED BY <1>3, <3>1 DEF GoodQueue
  <2>3. EventsIn(r) \cap (on \cup {e}) = {} /\ EventsIn(r) \cup on \cup {e} \subseteq 1..n
    BY <1>4, <1>5 DEF GoodQueue
  <2> QED BY <1>3, <2>1, <2>2, <2>3 DEF GoodQueue
<1> QED BY <1>4, <1>5, <1>6 DEF GoodQueue, r

-----------------------------------------------------------------------------
(***************************************************************************)
(* The operations of a timer.                                               *)
(***************************************************************************)

\* Types of the parts of a state
Typed(s, on) ==
    /\ s.period \in [Timer -> Period] /\ s.repeat \in [Timer -> BOOLEAN]
    /\ s.event \in [Timer -> Nat] /\ s.ejs \in [Timer -> BOOLEAN]
    /\ s.events \in Seq(Record) /\ s.queue \in Seq(Entry)
    /\ Len(s.events) \in Nat /\ DOMAIN s.events = 1..Len(s.events)
    /\ \A e \in 1..Len(s.events) :
         /\ s.events[e] \in Record /\ s.events[e].timer \in Timer /\ s.events[e].period \in Nat
         /\ s.events[e].continuous \in BOOLEAN /\ s.events[e].runs \in Nat
    /\ EventsIn(s.queue) \cup on \subseteq 1..Len(s.events)
    /\ \A t \in Timer : s.event[t] # None => s.event[t] \in 1..Len(s.events)

\* The invariant gives every part of a state its type (the fields of EjsTimer and MprEvent).
LEMMA Parts == ASSUME NEW on, NEW s, Good(s, on) PROVE Typed(s, on)
<1>1. s \in State
  BY DEF Good
<1>2. s.events \in Seq(Record) /\ s.queue \in Seq(Entry)
  BY <1>1 DEF State
<1>3. /\ Len(s.events) \in Nat /\ DOMAIN s.events = 1..Len(s.events)
      /\ \A e \in 1..Len(s.events) : s.events[e] \in Record
  BY <1>2, LenProperties
<1>4. \A e \in 1..Len(s.events) :
        /\ s.events[e] \in Record /\ s.events[e].timer \in Timer /\ s.events[e].period \in Nat
        /\ s.events[e].continuous \in BOOLEAN /\ s.events[e].runs \in Nat
  BY <1>3, TimerSets DEF Record
<1>5. EventsIn(s.queue) \cup on \subseteq 1..Len(s.events)
  BY DEF Good, GoodQueue
<1>6. \A t \in Timer : s.event[t] # None => s.event[t] \in 1..Len(s.events)
  BY <1>5 DEF Good, Agrees
<1> QED BY <1>1, <1>2, <1>3, <1>4, <1>5, <1>6 DEF State, Typed

\* start makes an event and puts it in the queue; no other event of the timer
\* goes on by itself then, as the timer had none that it knew.
LEMMA StartGood ==
    ASSUME NEW on, NEW s, Good(s, on), NEW t \in Timer
    PROVE  Good(timer_start(s, t), on)
<1> DEFINE r == timer_start(s, t)
           e == Len(s.events) + 1
           new == [timer |-> t, period |-> s.period[t], continuous |-> s.repeat[t], runs |-> 0]
           live == EventsIn(s.queue) \cup on
<1>0. Typed(s, on)
  BY Parts
<1>1. CASE s.event[t] # None
  BY <1>1 DEF timer_start
<1>2. CASE s.event[t] = None
  <2>1. /\ r.period = s.period /\ r.repeat = s.repeat /\ r.ejs = s.ejs
        /\ r.event = [s.event EXCEPT ![t] = e]
        /\ r.events = Append(s.events, new)
        /\ r.queue = mprQueueEvent(s.queue, e, s.period[t])
        /\ r = [period |-> r.period, repeat |-> r.repeat, event |-> r.event, ejs |-> r.ejs, events |-> r.events,
                queue |-> r.queue]
    BY <1>2 DEF Good, State, timer_start
  <2> HIDE DEF r
  <2>2. /\ s.period[t] \in Nat /\ s.period[t] \in Period /\ s.repeat[t] \in BOOLEAN
        /\ e \in Nat /\ e # None /\ e \in 1..e /\ new \in Record
    <3>1. s.period[t] \in Nat /\ s.period[t] \in Period /\ s.repeat[t] \in BOOLEAN
      BY <1>0, TimerSets DEF Typed
    <3>2. e \in Nat /\ e # None /\ e \in 1..e
      BY <1>0 DEF Typed, None
    <3>3. new \in Record
      BY <3>1 DEF Record
    <3> QED BY <3>1, <3>2, <3>3
  <2>3. /\ r.events \in Seq(Record) /\ Len(r.events) = e
        /\ \A i \in 1..Len(s.events) : r.events[i] = s.events[i]
        /\ r.events[e] = new
    <3> HIDE DEF new
    <3> QED BY <2>1, <1>0, <2>2, AppendProperties DEF Typed
  <2>4. e \notin EventsIn(s.queue) /\ e \notin on
    BY <1>0 DEF Typed
  <2>5. GoodQueue(s.queue, on, e)
    BY <1>0 DEF Good, GoodQueue, Typed
  <2>6. GoodQueue(r.queue, on, e) /\ EventsIn(r.queue) = EventsIn(s.queue) \cup {e}
    BY <2>1, <2>2, <2>4, <2>5, QueueEventKeepsOrder
  <2>7. r \in State
    <3>1. r.event \in [Timer -> Nat] /\ r.queue \in Seq(Entry)
      BY <1>0, <2>1, <2>2, <2>6 DEF GoodQueue, Typed
    <3> QED BY <1>0, <2>1, <2>3, <3>1 DEF State, Typed
  <2>8. \A u \in Timer : r.event[u] = IF u = t THEN e ELSE s.event[u]
    BY <1>0, <2>1 DEF Typed
  <2>9. \A i \in live : i \in 1..Len(s.events) /\ i # e /\ i # None
    BY <1>0 DEF None, Typed
  <2>10. Agrees(r, EventsIn(r.queue) \cup on)
    <3>1. ASSUME NEW i \in live \cup {e}, r.events[i].continuous
          PROVE  r.event[r.events[i].timer] = i
      <4>1. CASE i = e
        BY <2>3, <2>8, <4>1
      <4>2. CASE i \in live
        <5>1. r.events[i] = s.events[i] /\ s.events[i].timer \in Timer
          BY <1>0, <2>3, <2>9, <4>2 DEF Typed
        <5>2. s.event[s.events[i].timer] = i
          BY <3>1, <4>2, <5>1 DEF Good, Agrees
        <5>3. s.events[i].timer # t
          BY <1>2, <2>9, <4>2, <5>2
        <5> QED BY <2>8, <5>1, <5>2, <5>3
      <4> QED BY <4>1, <4>2
    <3>2. ASSUME NEW u \in Timer, r.event[u] # None
          PROVE  /\ r.event[u] \in live \cup {e}
                 /\ r.events[r.event[u]].timer = u
                 /\ r.events[r.event[u]].continuous = r.repeat[u]
      <4>1. CASE u = t
        BY <2>1, <2>3, <2>8, <4>1
      <4>2. CASE u # t
        <5>1. /\ r.event[u] = s.event[u] /\ s.event[u] \in live
              /\ s.events[s.event[u]].timer = u /\ s.events[s.event[u]].continuous = s.repeat[u]
          BY <2>8, <3>2, <4>2 DEF Good, Agrees
        <5> QED BY <2>1, <2>3, <2>9, <5>1
      <4> QED BY <4>1, <4>2
    <3>3. EventsIn(r.queue) \cup on = live \cup {e}
      BY <2>6
    <3> HIDE DEF live, e
    <3> QED BY <3>1, <3>2, <3>3 DEF Agrees
  <2>11. RunOnce(r, EventsIn(r.queue))
    <3>1. \A u \in Single : ~r.repeat[u]
      BY <2>1 DEF Good, RunOnce
    <3>2. ASSUME NEW i \in 1..e, r.events[i].timer \in Single
          PROVE  ~r.events[i].continuous /\ r.events[i].runs = IF i \in EventsIn(r.queue) THEN 0 ELSE 1
      <4>1. CASE i = e
        BY <2>1, <2>3, <2>6, <3>1, <3>2, <4>1
      <4>2. CASE i # e
        <5>1. i \in 1..Len(s.events) /\ r.events[i] = s.events[i]
          BY <1>0, <2>2, <2>3, <4>2 DEF Typed
        <5>2. i \in EventsIn(r.queue) <=> i \in EventsIn(s.queue)
          BY <2>6, <4>2
        <5> QED BY <3>2, <5>1, <5>2 DEF Good, RunOnce
      <4> QED BY <4>1, <4>2
    <3> HIDE DEF e
    <3> QED BY <2>3, <3>1, <3>2 DEF RunOnce
  <2>12. Forgotten(r, EventsIn(r.queue) \cup on)
    <3> SUFFICES ASSUME NEW u \in Timer, ~r.ejs[u]
                 PROVE  \E i \in 1..e : i \notin EventsIn(r.queue) \cup on /\ r.events[i].timer = u
      BY <2>3 DEF Forgotten
    <3>1. PICK i \in 1..Len(s.events) : i \notin live /\ s.events[i].timer = u
      BY <2>1 DEF Good, Forgotten
    <3>2. i \in 1..e /\ i # e
      BY <1>0, <3>1 DEF Typed
    <3>3. i \notin EventsIn(r.queue) \cup on /\ r.events[i].timer = u
      BY <2>3, <2>6, <3>1, <3>2
    <3> QED BY <3>2, <3>3
  <2>13. Good(r, on)
    BY <2>3, <2>6, <2>7, <2>10, <2>11, <2>12 DEF Good
  <2> QED BY <2>13 DEF r
<1> QED BY <1>1, <1>2

\* stop: the event that the timer knew is the only one that went on by itself.
LEMMA StopGood ==
    ASSUME NEW on, NEW s, Good(s, on), NEW t \in Timer
    PROVE  Good(timer_stop(s, t), on)
<1> DEFINE r == timer_stop(s, t)
           e == s.event[t]
           live == EventsIn(s.queue) \cup on
<1>0. Typed(s, on)
  BY Parts
<1>1. CASE e = None
  BY <1>1 DEF timer_stop
<1>2. CASE e # None
  <2>1. e \in 1..Len(s.events) /\ e \in live /\ s.events[e].timer = t
    BY <1>0, <1>2 DEF Typed, Good, Agrees
  <2>2. /\ r.period = s.period /\ r.repeat = s.repeat /\ r.ejs = s.ejs /\ r.queue = s.queue
        /\ r.event = [s.event EXCEPT ![t] = None]
        /\ r.events = [s.events EXCEPT ![e].continuous = FALSE]
        /\ r = [period |-> r.period, repeat |-> r.repeat, event |-> r.event, ejs |-> r.ejs, events |-> r.events,
                queue |-> r.queue]
    BY <1>2 DEF Good, State, timer_stop
  <2> HIDE DEF r
  <2>3. /\ r.events \in Seq(Record) /\ Len(r.events) = Len(s.events)
        /\ \A i \in 1..Len(s.events) : i # e => r.events[i] = s.events[i]
        /\ r.events[e].timer = t /\ r.events[e].continuous = FALSE /\ r.events[e].runs = s.events[e].runs
    <3> DEFINE new == [s.events[e] EXCEPT !.continuous = FALSE]
    <3>1. new \in Record /\ new.timer = t /\ new.continuous = FALSE /\ new.runs = s.events[e].runs
      BY <1>0, <2>1 DEF Typed, Record
    <3>2. r.events = [s.events EXCEPT ![e] = new]
      BY <1>0, <2>2 DEF Typed
    <3> HIDE DEF e, new
    <3>3. /\ r.events \in Seq(Record) /\ Len(r.events) = Len(s.events)
          /\ \A i \in 1..Len(s.events) : i # e => r.events[i] = s.events[i]
          /\ r.events[e] = new
      BY <1>0, <2>1, <3>1, <3>2, ExceptSeq DEF Typed
    <3> QED BY <3>1, <3>3
  <2>4. \A u \in Timer : r.event[u] = IF u = t THEN None ELSE s.event[u]
    BY <1>0, <2>2 DEF Typed
  <2>5. r \in State
    <3>1. r.event \in [Timer -> Nat]
      BY <1>0, <2>2 DEF Typed, None
    <3> QED BY <1>0, <2>2, <2>3, <3>1 DEF State, Typed
  <2>6. \A i \in live : i \in 1..Len(s.events) /\ i # None
    BY <1>0 DEF None, Typed
  <2> HIDE DEF e, live
  <2>7. \A i \in live : r.events[i].continuous => r.event[r.events[i].timer] = i
    <3> SUFFICES ASSUME NEW i \in live, r.events[i].continuous PROVE r.event[r.events[i].timer] = i
      OBVIOUS
    <3>1. i # e /\ r.events[i] = s.events[i]
      BY <2>3, <2>6
    <3>2. s.event[s.events[i].timer] = i /\ s.events[i].timer \in Timer
      BY <1>0, <2>6, <3>1 DEF Good, Agrees, Typed, live
    <3>3. s.events[i].timer # t
      BY <3>1, <3>2 DEF e
    <3> QED BY <2>4, <3>1, <3>2, <3>3
  <2>8. \A u \in Timer : r.event[u] # None =>
            /\ r.event[u] \in live
            /\ r.events[r.event[u]].timer = u
            /\ r.events[r.event[u]].continuous = r.repeat[u]
    <3> SUFFICES ASSUME NEW u \in Timer, r.event[u] # None
                 PROVE  /\ r.event[u] \in live
                        /\ r.events[r.event[u]].timer = u
                        /\ r.events[r.event[u]].continuous = r.repeat[u]
      OBVIOUS
    <3>1. /\ u # t /\ r.event[u] = s.event[u] /\ s.event[u] \in live /\ s.events[s.event[u]].timer = u
          /\ s.events[s.event[u]].continuous = s.repeat[u]
      BY <2>4 DEF Good, Agrees, live
    <3>2. s.event[u] # e
      BY <2>1, <3>1
    <3>3. r.events[s.event[u]] = s.events[s.event[u]]
      BY <2>3, <2>6, <3>1, <3>2
    <3> QED BY <2>2, <3>1, <3>3
  <2>9. Agrees(r, EventsIn(r.queue) \cup on)
    BY <2>2, <2>7, <2>8 DEF Agrees, live
  <2>10. RunOnce(r, EventsIn(r.queue))
    BY <2>1, <2>2, <2>3 DEF Good, RunOnce
  <2>11. Forgotten(r, EventsIn(r.queue) \cup on)
    BY <2>1, <2>2, <2>3 DEF Good, Forgotten, live
  <2>12. Good(r, on)
    BY <2>2, <2>3, <2>5, <2>9, <2>10, <2>11 DEF Good
  <2> QED BY <2>12 DEF r
<1> QED BY <1>1, <1>2

\* A new period: events keep the one they were made with.
LEMMA SetPeriodGood ==
    ASSUME NEW on, NEW s, Good(s, on), NEW t \in Timer, NEW p \in Period
    PROVE  Good(timer_set_period(s, t, p), on)
<1> DEFINE r == timer_set_period(s, t, p)
<1>1. /\ r.repeat = s.repeat /\ r.ejs = s.ejs /\ r.queue = s.queue /\ r.event = s.event /\ r.events = s.events
      /\ r \in State
  BY DEF Good, State, timer_set_period
<1> HIDE DEF r
<1>2. /\ Agrees(r, EventsIn(r.queue) \cup on) /\ RunOnce(r, EventsIn(r.queue))
      /\ Forgotten(r, EventsIn(r.queue) \cup on) /\ GoodQueue(r.queue, on, Len(r.events))
  BY <1>1 DEF Good, Agrees, RunOnce, Forgotten
<1>3. Good(r, on)
  BY <1>1, <1>2 DEF Good
<1> QED BY <1>3 DEF r

\* repeat: the event that the timer knows goes on by itself as the timer does.
LEMMA SetRepeatGood ==
    ASSUME NEW on, NEW s, Good(s, on), NEW t \in Timer, t \notin Single, NEW enable \in BOOLEAN
    PROVE  Good(timer_set_repeat(s, t, enable), on)
<1> DEFINE r == timer_set_repeat(s, t, enable)
           e == s.event[t]
           live == EventsIn(s.queue) \cup on
<1>0. Typed(s, on)
  BY Parts
<1>1. \A i \in live : i \in 1..Len(s.events) /\ i # None
  BY <1>0 DEF None, Typed
<1>2. /\ r.period = s.period /\ r.repeat = [s.repeat EXCEPT ![t] = enable] /\ r.ejs = s.ejs /\ r.queue = s.queue
      /\ r.event = s.event
      /\ e = None => r.events = s.events
      /\ e # None => r.events = [s.events EXCEPT ![e].continuous = enable]
      /\ r = [period |-> r.period, repeat |-> r.repeat, event |-> r.event, ejs |-> r.ejs, events |-> r.events,
              queue |-> r.queue]
  BY DEF Good, State, timer_set_repeat
<1> HIDE DEF r
<1>3. /\ r.repeat \in [Timer -> BOOLEAN]
      /\ \A u \in Timer : r.repeat[u] = IF u = t THEN enable ELSE s.repeat[u]
  BY <1>0, <1>2 DEF Typed
<1>4. e # None => e \in 1..Len(s.events) /\ e \in live /\ s.events[e].timer = t
  BY <1>0 DEF Typed, Good, Agrees
<1>5. /\ r.events \in Seq(Record) /\ Len(r.events) = Len(s.events)
      /\ \A i \in 1..Len(s.events) : i # e => r.events[i] = s.events[i]
      /\ e # None => /\ r.events[e].timer = t /\ r.events[e].continuous = enable
                     /\ r.events[e].runs = s.events[e].runs
  <2>1. CASE e = None
    BY <1>0, <1>2, <2>1 DEF Typed
  <2>2. CASE e # None
    <3> DEFINE new == [s.events[e] EXCEPT !.continuous = enable]
    <3>1. new \in Record /\ new.timer = t /\ new.continuous = enable /\ new.runs = s.events[e].runs
      BY <1>0, <1>4, <2>2 DEF Typed, Record
    <3>2. r.events = [s.events EXCEPT ![e] = new]
      BY <1>0, <1>2, <2>2 DEF Typed
    <3> HIDE DEF e, new
    <3>3. /\ r.events \in Seq(Record) /\ Len(r.events) = Len(s.events)
          /\ \A i \in 1..Len(s.events) : i # e => r.events[i] = s.events[i]
          /\ r.events[e] = new
      BY <1>0, <1>4, <2>2, <3>1, <3>2, ExceptSeq DEF Typed
    <3> QED BY <2>2, <3>1, <3>3
  <2> QED BY <2>1, <2>2
<1>6. r \in State
  BY <1>0, <1>2, <1>3, <1>5 DEF State, Typed
<1> HIDE DEF e, live
<1>7. \A i \in live : r.events[i].continuous => r.event[r.events[i].timer] = i
  <2> SUFFICES ASSUME NEW i \in live, r.events[i].continuous PROVE r.event[r.events[i].timer] = i
    OBVIOUS
  <2>1. CASE i = e
    BY <1>1, <1>2, <1>4, <1>5, <2>1 DEF e
  <2>2. CASE i # e
    <3>1. r.events[i] = s.events[i]
      BY <1>1, <1>5, <2>2
    <3> QED BY <1>2, <3>1 DEF Good, Agrees, live
  <2> QED BY <2>1, <2>2
<1>8. \A u \in Timer : r.event[u] # None =>
          /\ r.event[u] \in live
          /\ r.events[r.event[u]].timer = u
          /\ r.events[r.event[u]].continuous = r.repeat[u]
  <2> SUFFICES ASSUME NEW u \in Timer, s.event[u] # None
               PROVE  /\ s.event[u] \in live
                      /\ r.events[s.event[u]].timer = u
                      /\ r.events[s.event[u]].continuous = r.repeat[u]
    BY <1>2
  <2>1. /\ s.event[u] \in live /\ s.events[s.event[u]].timer = u
        /\ s.events[s.event[u]].continuous = s.repeat[u]
    BY DEF Good, Agrees, live
  <2>2. CASE u = t
    BY <1>3, <1>4, <1>5, <2>2 DEF e
  <2>3. CASE u # t
    <3>1. s.event[u] # e
      BY <1>4, <2>1, <2>3
    <3>2. r.events[s.event[u]] = s.events[s.event[u]]
      BY <1>1, <1>5, <2>1, <3>1
    <3> QED BY <1>3, <2>1, <2>3, <3>2
  <2> QED BY <2>2, <2>3
<1>9. Agrees(r, EventsIn(r.queue) \cup on)
  BY <1>2, <1>7, <1>8 DEF Agrees, live
<1>10. RunOnce(r, EventsIn(r.queue))
  <2>1. \A u \in Single : ~r.repeat[u]
    BY <1>3, TimerSets DEF Good, RunOnce
  <2>2. \A i \in 1..Len(s.events) : r.events[i].timer \in Single => i # e \/ e = None
    BY <1>5
  <2>3. \A i \in 1..Len(s.events) : i # None
    BY <1>0 DEF Typed, None
  <2>4. \A i \in 1..Len(s.events) : r.events[i].timer \in Single => r.events[i] = s.events[i]
    BY <1>5, <2>2, <2>3
  <2> QED BY <1>2, <1>5, <2>1, <2>4 DEF Good, RunOnce
<1>11. Forgotten(r, EventsIn(r.queue) \cup on)
  <2> SUFFICES ASSUME NEW u \in Timer, ~s.ejs[u]
               PROVE  \E i \in 1..Len(s.events) : i \notin live /\ r.events[i].timer = u
    BY <1>2, <1>5 DEF Forgotten, live
  <2>1. PICK i \in 1..Len(s.events) : i \notin live /\ s.events[i].timer = u
    BY DEF Good, Forgotten, live
  <2>2. i # e
    BY <1>0, <1>4, <2>1 DEF Typed, None
  <2> QED BY <1>5, <2>1, <2>2
<1>12. Good(r, on)
  BY <1>2, <1>5, <1>6, <1>9, <1>10, <1>11 DEF Good
<1> QED BY <1>12 DEF r

\* restart is made of these.
LEMMA RestartGood ==
    ASSUME NEW on, NEW s, Good(s, on), NEW t \in Timer, NEW when \in Period
    PROVE  Good(restart(s, t, when), on)
BY StopGood, SetPeriodGood, StartGood DEF restart

\* The end of a callback and of dispatchEvents: an event that goes on by itself
\* is queued again, and the event of a timer that does not repeat is over and
\* takes the interpreter of the timer with it.  An event never goes on by itself
\* when its timer does not repeat, as it is then the one that the timer knows.
LEMMA FinishGood ==
    ASSUME NEW on, NEW s, NEW e, e \notin on, Good(s, on \cup {e})
    PROVE  Good(Requeued(Ran(s, s.events[e].timer), e), on)
<1> DEFINE t == s.events[e].timer
           q == s.queue
           live == EventsIn(q) \cup (on \cup {e})
<1>0. Typed(s, on \cup {e}) /\ e \in 1..Len(s.events) /\ t \in Timer /\ e # None
  BY Parts DEF Typed, None
<1>1. e \notin EventsIn(q) /\ GoodQueue(q, on, Len(s.events))
  BY DEF Good, GoodQueue
<1>2. s.events[e].continuous => s.event[t] = e /\ s.repeat[t]
  <2>1. e \in live
    OBVIOUS
  <2> QED BY <1>0, <2>1 DEF Good, Agrees
<1>3. \A u \in Timer : s.event[u] = e => u = t
  BY <1>0 DEF Good, Agrees
<1>4. CASE s.events[e].continuous
  <2> DEFINE r == Requeued(s, e)
             p == s.events[e].period
             due == Max({1, p})
  <2>1. /\ r.period = s.period /\ r.repeat = s.repeat /\ r.event = s.event /\ r.ejs = s.ejs /\ r.events = s.events
        /\ r.queue = mprQueueEvent(q, e, due)
        /\ r = [period |-> r.period, repeat |-> r.repeat, event |-> r.event, ejs |-> r.ejs, events |-> r.events,
                queue |-> r.queue]
    BY <1>4 DEF Good, State, Requeued
  <2> HIDE DEF r
  <2>2. due \in Nat
    <3>1. p \in Nat
      BY <1>0 DEF Typed
    <3> HIDE DEF p
    <3> QED BY <3>1, MaxOfTwo
  <2> HIDE DEF due, t
  <2>3. GoodQueue(r.queue, on, Len(s.events)) /\ EventsIn(r.queue) = EventsIn(q) \cup {e}
    <3>1. Len(s.events) \in Nat
      BY <1>0 DEF Typed
    <3> DEFINE n == Len(s.events)
    <3> HIDE DEF n, q
    <3> QED BY <1>0, <1>1, <2>1, <2>2, <3>1, QueueEventKeepsOrder DEF n
  <2>4. EventsIn(r.queue) \cup on = live
    BY <2>3
  <2>5. r \in State
    BY <1>0, <2>1, <2>3 DEF GoodQueue, State, Typed
  <2>6. Agrees(r, EventsIn(r.queue) \cup on) /\ Forgotten(r, EventsIn(r.queue) \cup on)
    BY <2>1, <2>4 DEF Good, Agrees, Forgotten
  <2>7. RunOnce(r, EventsIn(r.queue))
    <3>1. ASSUME NEW i \in 1..Len(s.events), s.events[i].timer \in Single
          PROVE  ~s.events[i].continuous /\ s.events[i].runs = IF i \in EventsIn(r.queue) THEN 0 ELSE 1
      <4>1. i # e
        BY <1>2, <1>4, <3>1 DEF Good, RunOnce, t
      <4> QED BY <2>3, <3>1, <4>1 DEF Good, RunOnce
    <3> QED BY <2>1, <3>1 DEF Good, RunOnce
  <2>8. Good(r, on)
    BY <2>1, <2>3, <2>5, <2>6, <2>7 DEF Good
  <2>9. Ran(s, t) = s
    BY <1>2, <1>4 DEF Ran
  <2> QED BY <2>8, <2>9 DEF r, t
<1>5. CASE ~s.events[e].continuous /\ s.repeat[t]
  <2>1. \A u \in Timer : s.event[u] # e
    <3> SUFFICES ASSUME s.event[t] = e PROVE FALSE
      BY <1>3
    <3> QED BY <1>0, <1>5 DEF Good, Agrees
  <2>2. Agrees(s, EventsIn(q) \cup on)
    BY <2>1 DEF Good, Agrees
  <2>3. Forgotten(s, EventsIn(q) \cup on)
    BY DEF Good, Forgotten
  <2>4. Good(s, on)
    BY <1>1, <2>2, <2>3 DEF Good
  <2>5. Requeued(Ran(s, t), e) = s
    BY <1>5 DEF Ran, Requeued
  <2> QED BY <2>4, <2>5
<1>6. CASE ~s.events[e].continuous /\ ~s.repeat[t]
  <2> DEFINE r == Ran(s, t)
  <2>1. /\ r.period = s.period /\ r.repeat = s.repeat /\ r.events = s.events /\ r.queue = q
        /\ r.event = [s.event EXCEPT ![t] = None] /\ r.ejs = [s.ejs EXCEPT ![t] = FALSE]
        /\ r = [period |-> r.period, repeat |-> r.repeat, event |-> r.event, ejs |-> r.ejs, events |-> r.events,
                queue |-> r.queue]
    BY <1>6 DEF Good, State, Ran
  <2>2. Requeued(r, e) = r
    BY <1>6, <2>1 DEF Requeued
  <2> HIDE DEF r
  <2>3. /\ r.event \in [Timer -> Nat] /\ r.ejs \in [Timer -> BOOLEAN]
        /\ \A u \in Timer : r.event[u] = IF u = t THEN None ELSE s.event[u]
        /\ \A u \in Timer : u # t => r.ejs[u] = s.ejs[u]
    BY <1>0, <2>1 DEF Typed, None
  <2>4. r \in State
    BY <1>0, <2>1, <2>3 DEF State, Typed
  <2>5. Agrees(r, EventsIn(q) \cup on)
    <3>1. ASSUME NEW i \in EventsIn(q) \cup on, s.events[i].continuous
          PROVE  r.event[s.events[i].timer] = i
      <4>1. s.event[s.events[i].timer] = i /\ s.events[i].timer \in Timer /\ i # None
        BY <1>0, <3>1 DEF Good, Agrees, Typed, None
      <4>2. s.events[i].timer # t
        BY <1>6, <3>1, <4>1 DEF Good, Agrees
      <4> QED BY <2>3, <4>1, <4>2
    <3>2. ASSUME NEW u \in Timer, r.event[u] # None
          PROVE  /\ r.event[u] \in EventsIn(q) \cup on
                 /\ s.events[r.event[u]].timer = u
                 /\ s.events[r.event[u]].continuous = s.repeat[u]
      <4>1. u # t /\ r.event[u] = s.event[u]
        BY <2>3, <3>2
      <4>2. r.event[u] # e
        BY <1>3, <4>1
      <4> QED BY <3>2, <4>1, <4>2 DEF Good, Agrees
    <3> HIDE DEF t
    <3> QED BY <2>1, <3>1, <3>2 DEF Agrees
  <2>6. RunOnce(r, EventsIn(q))
    BY <2>1 DEF Good, RunOnce
  <2>7. Forgotten(r, EventsIn(q) \cup on)
    <3> SUFFICES ASSUME NEW u \in Timer, ~r.ejs[u]
                 PROVE  \E i \in 1..Len(s.events) : i \notin EventsIn(q) \cup on /\ s.events[i].timer = u
      BY <2>1 DEF Forgotten
    <3>1. CASE u = t
      BY <1>0, <1>1, <3>1
    <3>2. CASE u # t
      BY <2>3, <3>2 DEF Good, Forgotten
    <3> QED BY <3>1, <3>2
  <2>8. Good(r, on)
    BY <1>1, <2>1, <2>4, <2>5, <2>6, <2>7 DEF Good
  <2> QED BY <2>2, <2>8 DEF r
<1> QED BY <1>4, <1>5, <1>6

\* What dispatchEvents does to the event that it takes
Taken(s, e) ==
    [s EXCEPT !.queue = Tail(@), !.events[e].runs = IF s.events[e].timer \in Single THEN @ + 1 ELSE 0]

\* dispatchEvents takes the first event from the queue and runs it: it is an
\* event of the stack then and no longer one of the queue.
LEMMA TakeGood ==
    ASSUME NEW on, NEW s, Good(s, on), s.queue # <<>>
    PROVE  LET e == Head(s.queue).event
           IN  /\ e \in Nat /\ e # None /\ e \notin on /\ e \in 1..Len(s.events)
               /\ Taken(s, e).events[e].timer = s.events[e].timer
               /\ Good(Taken(s, e), on \cup {e})
<1> DEFINE e == Head(s.queue).event
           r == Taken(s, e)
           t == s.events[e].timer
           n == IF t \in Single THEN s.events[e].runs + 1 ELSE 0
           new == [s.events[e] EXCEPT !.runs = n]
           live == EventsIn(s.queue) \cup on
<1>0. Typed(s, on)
  BY Parts
<1>1. /\ e \in 1..Len(s.events) /\ e \notin on /\ e \in EventsIn(s.queue)
      /\ EventsIn(Tail(s.queue)) = EventsIn(s.queue) \ {e}
      /\ GoodQueue(Tail(s.queue), on \cup {e}, Len(s.events))
  <2> DEFINE q == s.queue
             m == Len(s.events)
  <2>1. GoodQueue(q, on, m) /\ m \in Nat /\ q # <<>>
    BY <1>0 DEF Good, Typed
  <2> HIDE DEF q, m
  <2>2. /\ Head(q).event \in 1..m /\ Head(q).event \notin on /\ Head(q).event \in EventsIn(q)
        /\ EventsIn(Tail(q)) = EventsIn(q) \ {Head(q).event}
        /\ GoodQueue(Tail(q), on \cup {Head(q).event}, m)
    BY <2>1, TakenFromQueue
  <2> QED BY <2>2 DEF q, m
<1>2. new \in Record /\ new.timer = t /\ new.continuous = s.events[e].continuous /\ new.runs = n
  <2>1. n \in Nat
    BY <1>0, <1>1 DEF Typed
  <2> HIDE DEF n
  <2> QED BY <1>0, <1>1, <2>1 DEF Typed, Record
<1>3. /\ r.period = s.period /\ r.repeat = s.repeat /\ r.ejs = s.ejs /\ r.event = s.event
      /\ r.queue = Tail(s.queue)
      /\ r.events = [s.events EXCEPT ![e] = new]
      /\ r = [period |-> r.period, repeat |-> r.repeat, event |-> r.event, ejs |-> r.ejs, events |-> r.events,
              queue |-> r.queue]
  <2> HIDE DEF e
  <2>1. s \in State /\ s.events \in Seq(Record) /\ DOMAIN s.events = 1..Len(s.events) /\ s.events[e] \in Record
    BY <1>0, <1>1 DEF Good, Typed
  <2>2. /\ r.period = s.period /\ r.repeat = s.repeat /\ r.ejs = s.ejs /\ r.event = s.event
        /\ r.queue = Tail(s.queue)
    BY <2>1 DEF State, Taken
  <2>3. r = [period |-> r.period, repeat |-> r.repeat, event |-> r.event, ejs |-> r.ejs, events |-> r.events,
             queue |-> r.queue]
    <3> DEFINE evs == [s.events EXCEPT ![e].runs = IF s.events[e].timer \in Single THEN @ + 1 ELSE 0]
    <3>1. r = [s EXCEPT !.queue = Tail(@), !.events = evs]
      BY DEF Taken
    <3> HIDE DEF evs, r
    <3> QED BY <2>1, <3>1 DEF State
  <2>4. r.events = [s.events EXCEPT ![e] = new]
    <3>1. r.events = [s.events EXCEPT ![e] = [@ EXCEPT !.runs = n]]
      BY <2>1, Zenon DEF State, Taken
    <3> QED BY <3>1
  <2> QED BY <2>2, <2>3, <2>4
<1> HIDE DEF new, r, e
<1>4. /\ r.events \in Seq(Record) /\ Len(r.events) = Len(s.events)
      /\ \A i \in 1..Len(s.events) : i # e => r.events[i] = s.events[i]
      /\ r.events[e] = new
  <2>1. s.events \in Seq(Record) /\ e \in 1..Len(s.events) /\ new \in Record /\ r.events = [s.events EXCEPT ![e] = new]
    BY <1>0, <1>1, <1>2, <1>3 DEF Typed
  <2> QED BY <2>1, ExceptSeq
<1>5. r \in State
  BY <1>0, <1>1, <1>3, <1>4 DEF State, Typed, GoodQueue
<1>6. EventsIn(r.queue) \cup (on \cup {e}) = live
  BY <1>1, <1>3
<1>7. \A i \in 1..Len(s.events) :
        r.events[i].timer = s.events[i].timer /\ r.events[i].continuous = s.events[i].continuous
  BY <1>2, <1>4
<1>8. Agrees(r, live)
  <2>1. live \subseteq 1..Len(s.events)
    BY <1>0 DEF Typed
  <2> HIDE DEF live
  <2>2. \A u \in Timer : s.event[u] # None => s.event[u] \in live
    BY DEF Good, Agrees, live
  <2>3. ASSUME NEW i \in live, r.events[i].continuous PROVE r.event[r.events[i].timer] = i
    <3>1. i \in 1..Len(s.events)
      BY <2>1
    <3> QED BY <1>3, <1>7, <2>3, <3>1 DEF Good, Agrees, live
  <2>4. ASSUME NEW u \in Timer, r.event[u] # None
        PROVE  /\ r.event[u] \in live
               /\ r.events[r.event[u]].timer = u
               /\ r.events[r.event[u]].continuous = r.repeat[u]
    <3>1. r.event[u] = s.event[u] /\ s.event[u] \in live /\ s.event[u] \in 1..Len(s.events)
      BY <1>3, <2>1, <2>2, <2>4
    <3>2. s.events[s.event[u]].timer = u /\ s.events[s.event[u]].continuous = s.repeat[u]
      BY <1>3, <2>4 DEF Good, Agrees
    <3> QED BY <1>3, <1>7, <3>1, <3>2
  <2> QED BY <2>3, <2>4 DEF Agrees
<1>9. RunOnce(r, EventsIn(r.queue))
  <2>1. ASSUME NEW i \in 1..Len(s.events), s.events[i].timer \in Single
        PROVE  ~s.events[i].continuous /\ r.events[i].runs = IF i \in EventsIn(r.queue) THEN 0 ELSE 1
    <3>1. ~s.events[i].continuous /\ s.events[i].runs = IF i \in EventsIn(s.queue) THEN 0 ELSE 1
      BY <2>1 DEF Good, RunOnce
    <3>2. CASE i = e
      <4>1. n = 1 /\ i \notin EventsIn(r.queue)
        BY <1>1, <1>3, <2>1, <3>1, <3>2
      <4> QED BY <1>2, <1>4, <3>1, <3>2, <4>1
    <3>3. CASE i # e
      <4>1. i \in EventsIn(r.queue) <=> i \in EventsIn(s.queue)
        BY <1>1, <1>3, <3>3
      <4> QED BY <1>4, <3>1, <3>3, <4>1
    <3> QED BY <3>2, <3>3
  <2>2. \A u \in Single : ~r.repeat[u]
    BY <1>3 DEF Good, RunOnce
  <2>3. \A i \in 1..Len(r.events) : r.events[i].timer \in Single =>
            ~r.events[i].continuous /\ r.events[i].runs = IF i \in EventsIn(r.queue) THEN 0 ELSE 1
    BY <1>4, <1>7, <2>1
  <2> QED BY <2>2, <2>3 DEF RunOnce
<1> HIDE DEF t, n
<1>10. Forgotten(r, live)
  <2> SUFFICES ASSUME NEW u \in Timer, ~s.ejs[u]
               PROVE  \E i \in 1..Len(s.events) : i \notin live /\ r.events[i].timer = u
    BY <1>3, <1>4 DEF Forgotten
  <2>1. PICK i \in 1..Len(s.events) : i \notin live /\ s.events[i].timer = u
    BY DEF Good, Forgotten
  <2> QED BY <1>7, <2>1
<1>11. Good(r, on \cup {e})
  BY <1>1, <1>3, <1>4, <1>5, <1>6, <1>8, <1>9, <1>10 DEF Good
<1>12. e # None
  BY <1>1 DEF None
<1>13. e \in Nat /\ e # None /\ e \notin on /\ e \in 1..Len(s.events) /\ r.events[e].timer = t /\ Good(r, on \cup {e})
  BY <1>1, <1>2, <1>4, <1>11, <1>12
<1> QED BY <1>13 DEF e, r, t

\* A queue a tick later
Ticked(q) == [i \in DOMAIN q |-> [q[i] EXCEPT !.due = IF @ = 0 THEN 0 ELSE @ - 1]]

\* The clock: what is due stays due, and the rest is due a tick earlier, so
\* that the queue stays in order.
LEMMA TickGood ==
    ASSUME NEW on, NEW s, Good(s, on)
    PROVE  Good([s EXCEPT !.queue = Ticked(@)], on)
<1> DEFINE q == Ticked(s.queue)
           r == [s EXCEPT !.queue = q]
<1>0. Typed(s, on)
  BY Parts
<1>1. /\ Len(s.queue) \in Nat /\ DOMAIN s.queue = 1..Len(s.queue)
      /\ \A i \in 1..Len(s.queue) : s.queue[i] \in Entry /\ s.queue[i].event \in Nat /\ s.queue[i].due \in Nat
  <2>1. Len(s.queue) \in Nat /\ DOMAIN s.queue = 1..Len(s.queue) /\ \A i \in 1..Len(s.queue) : s.queue[i] \in Entry
    BY <1>0, LenProperties DEF Typed
  <2> QED BY <2>1 DEF Entry
<1>2. \A i \in 1..Len(s.queue) :
        /\ q[i] \in Entry /\ q[i].event = s.queue[i].event
        /\ q[i].due = IF s.queue[i].due = 0 THEN 0 ELSE s.queue[i].due - 1
  BY <1>1 DEF Entry, Ticked
<1>3. q \in Seq(Entry) /\ Len(q) = Len(s.queue) /\ DOMAIN q = 1..Len(s.queue)
  <2> DEFINE n == Len(s.queue)
  <2>1. q \in [1..n -> Entry] /\ n \in Nat
    BY <1>1, <1>2 DEF Ticked
  <2> HIDE DEF n, q
  <2>2. q \in Seq(Entry) /\ Len(q) = n
    BY <2>1, FunctionIsSequence
  <2> QED BY <2>1, <2>2 DEF n
<1>4. EventsIn(q) = EventsIn(s.queue)
  <2>1. DOMAIN q = DOMAIN s.queue /\ \A i \in DOMAIN s.queue : q[i].event = s.queue[i].event
    BY <1>1, <1>2, <1>3
  <2> HIDE DEF q
  <2> QED BY <2>1 DEF EventsIn
<1> HIDE DEF q
<1>5. \A i, j \in DOMAIN q : i < j => q[i].due <= q[j].due
  <2> SUFFICES ASSUME NEW i \in 1..Len(s.queue), NEW j \in 1..Len(s.queue), i < j PROVE q[i].due <= q[j].due
    BY <1>3
  <2>1. s.queue[i].due <= s.queue[j].due
    BY <1>1 DEF Good, GoodQueue
  <2> QED BY <1>1, <1>2, <2>1
<1>6. GoodQueue(q, on, Len(s.events))
  <2>1. \A i, j \in DOMAIN q : i # j => q[i].event # q[j].event
    <3>1. \A i, j \in 1..Len(s.queue) : i # j => s.queue[i].event # s.queue[j].event
      BY <1>1 DEF Good, GoodQueue
    <3> QED BY <1>2, <1>3, <3>1
  <2> QED BY <1>3, <1>4, <1>5, <2>1 DEF Good, GoodQueue
<1>7. /\ r.period = s.period /\ r.repeat = s.repeat /\ r.ejs = s.ejs /\ r.event = s.event /\ r.events = s.events
      /\ r.queue = q /\ r \in State
  BY <1>0, <1>3 DEF Good, State, Typed
<1> HIDE DEF r
<1>8. Good(r, on)
  BY <1>4, <1>6, <1>7 DEF Good, Agrees, RunOnce, Forgotten
<1> QED BY <1>8 DEF r, q

-----------------------------------------------------------------------------
(***************************************************************************)
(* The stack of callbacks.                                                  *)
(***************************************************************************)

\* The callback of an event that is on the stack of no loop goes on top of it
\* (dispatchEvents calls event->proc).
LEMMA PushGood ==
    ASSUME NEW st, GoodStack(st), NEW e \in Nat, e # None, e \notin EventsOf(st),
           NEW part \in {"callback", "onerror"}
    PROVE  LET above == <<Frame(e, part)>> \o st
           IN  GoodStack(above) /\ EventsOf(above) = EventsOf(st) \cup {e}
<1> DEFINE f == Frame(e, part)
           one == <<f>>
           r == one \o st
           n == Len(st)
<1>1. st \in Seq(Frames) /\ n \in Nat /\ n >= 1 /\ DOMAIN st = 1..n
  BY LenProperties, EmptySeq DEF GoodStack
<1>2. f \in Frames /\ f.event = e /\ f.part # "script"
  BY DEF Frame, Frames
<1> HIDE DEF f
<1>3. one \in Seq(Frames) /\ Len(one) = 1 /\ one[1] = f
  BY <1>2
<1> HIDE DEF one, n
<1>4. /\ r \in Seq(Frames) /\ Len(r) = n + 1 /\ DOMAIN r = 1..n + 1
      /\ \A i \in 1..n + 1 : r[i] = IF i = 1 THEN f ELSE st[i - 1]
  <2>1. /\ r \in Seq(Frames) /\ Len(r) = Len(one) + Len(st)
        /\ \A i \in 1..Len(one) + Len(st) : r[i] = IF i <= Len(one) THEN one[i] ELSE st[i - Len(one)]
    BY <1>1, <1>3, ConcatProperties
  <2>2. DOMAIN r = 1..Len(r)
    BY <2>1, LenProperties
  <2> HIDE DEF r
  <2> QED BY <1>1, <1>3, <2>1, <2>2 DEF n
<1> HIDE DEF r
<1>5. \A i \in 1..n + 1 : i = 1 \/ (i - 1 \in 1..n /\ r[i] = st[i - 1])
  BY <1>1, <1>4
<1>6. /\ \A i \in 1..n : st[i].event = None <=> i = n
      /\ \A i \in 1..n : st[i].part = "script" <=> i = n
      /\ \A i, j \in 1..n : i # j => st[i].event # st[j].event
      /\ \A i \in 1..n : st[i].event # e
  BY <1>1 DEF GoodStack, EventsOf, n
<1>7. \A i \in 1..n + 1 : r[i].event = None <=> i = n + 1
  BY <1>1, <1>2, <1>4, <1>5, <1>6
<1>8. \A i \in 1..n + 1 : r[i].part = "script" <=> i = n + 1
  BY <1>1, <1>2, <1>4, <1>5, <1>6
<1>9. \A i, j \in 1..n + 1 : i # j => r[i].event # r[j].event
  BY <1>1, <1>2, <1>4, <1>5, <1>6
<1>10. GoodStack(r)
  <2>1. r # <<>>
    BY <1>1, <1>4
  <2> QED BY <1>4, <1>7, <1>8, <1>9, <2>1 DEF GoodStack
<1>11. EventsOf(r) = EventsOf(st) \cup {e}
  <2>1. \A i \in 1..n + 1 : r[i].event = e \/ r[i].event \in {st[k].event : k \in 1..n}
    BY <1>2, <1>4, <1>5
  <2>2. \A k \in 1..n : k + 1 \in 1..n + 1 /\ r[k + 1] = st[k]
    BY <1>1, <1>4
  <2>3. 1 \in 1..n + 1 /\ r[1].event = e
    BY <1>1, <1>2, <1>4
  <2>4. {r[i].event : i \in 1..n + 1} = {st[k].event : k \in 1..n} \cup {e}
    <3>1. \A k \in 1..n : st[k].event \in {r[i].event : i \in 1..n + 1}
      BY <2>2
    <3>2. e \in {r[i].event : i \in 1..n + 1}
      BY <2>3
    <3> QED BY <2>1, <3>1, <3>2
  <2> QED BY <1>1, <1>4, <2>4 DEF EventsOf
<1> QED BY <1>10, <1>11 DEF r, one, f

\* A callback that ends uncovers the loop that ran it.
LEMMA PopGood ==
    ASSUME NEW st, GoodStack(st), Head(st).event # None
    PROVE  /\ GoodStack(Tail(st))
           /\ Head(st).event \in EventsOf(st)
           /\ EventsOf(Tail(st)) = EventsOf(st) \ {Head(st).event}
<1> DEFINE r == Tail(st)
           n == Len(st)
           e == Head(st).event
<1>1. st \in Seq(Frames) /\ n \in Nat /\ n >= 1 /\ DOMAIN st = 1..n /\ Head(st) = st[1]
  BY LenProperties, EmptySeq DEF GoodStack
<1> HIDE DEF n
<1>2. n > 1
  <2>1. 1 \in 1..n
    BY <1>1
  <2>2. \A i \in 1..n : st[i].event = None <=> i = n
    BY DEF GoodStack, n
  <2>3. 1 # n
    BY <1>1, <2>1, <2>2
  <2> QED BY <1>1, <2>3
<1>3. /\ r \in Seq(Frames) /\ Len(r) = n - 1 /\ DOMAIN r = 1..n - 1
      /\ \A i \in 1..n - 1 : r[i] = st[i + 1]
  <2>1. st # <<>>
    BY DEF GoodStack
  <2>2. r \in Seq(Frames) /\ Len(r) = n - 1 /\ \A i \in 1..n - 1 : r[i] = st[i + 1]
    BY <1>1, <2>1, HeadTailProperties DEF n
  <2> QED BY <2>2, LenProperties
<1> HIDE DEF r
<1>4. /\ \A i \in 1..n : st[i].event = None <=> i = n
      /\ \A i \in 1..n : st[i].part = "script" <=> i = n
      /\ \A i, j \in 1..n : i # j => st[i].event # st[j].event
  BY <1>1 DEF GoodStack, n
<1>5. \A i \in 1..n - 1 : i + 1 \in 1..n /\ i + 1 # 1 /\ (i + 1 = n <=> i = n - 1)
  BY <1>1
<1>6. GoodStack(r)
  <2>1. \A i \in 1..n - 1 : r[i].event = None <=> i = n - 1
    BY <1>3, <1>4, <1>5
  <2>2. \A i \in 1..n - 1 : r[i].part = "script" <=> i = n - 1
    BY <1>3, <1>4, <1>5
  <2>3. \A i, j \in 1..n - 1 : i # j => r[i].event # r[j].event
    <3> SUFFICES ASSUME NEW i \in 1..n - 1, NEW j \in 1..n - 1, i # j PROVE r[i].event # r[j].event
      OBVIOUS
    <3>1. i + 1 \in 1..n /\ j + 1 \in 1..n /\ i + 1 # j + 1
      BY <1>1
    <3> QED BY <1>3, <1>4, <3>1
  <2>4. r # <<>>
    BY <1>1, <1>2, <1>3
  <2> QED BY <1>3, <2>1, <2>2, <2>3, <2>4 DEF GoodStack
<1>7. e \in EventsOf(st)
  BY <1>1 DEF EventsOf
<1>8. EventsOf(r) = EventsOf(st) \ {e}
  <2>1. \A i \in 1..n - 1 : r[i].event # e
    <3>1. 1 \in 1..n
      BY <1>1
    <3> QED BY <1>1, <1>3, <1>4, <1>5, <3>1
  <2>2. \A i \in 1..n - 1 : r[i].event \in {st[k].event : k \in 1..n}
    BY <1>3, <1>5
  <2>3. \A i \in 1..n : i = 1 \/ (i - 1 \in 1..n - 1 /\ r[i - 1] = st[i])
    BY <1>1, <1>3
  <2> HIDE DEF e
  <2>4. \A i \in 1..n : st[i].event = e \/ st[i].event \in {r[k].event : k \in 1..n - 1}
    BY <1>1, <2>3 DEF e
  <2>5. {r[i].event : i \in 1..n - 1} = {st[k].event : k \in 1..n} \ {e}
    <3>1. {r[i].event : i \in 1..n - 1} \subseteq {st[k].event : k \in 1..n} \ {e}
      BY <2>1, <2>2
    <3>2. {st[k].event : k \in 1..n} \ {e} \subseteq {r[i].event : i \in 1..n - 1}
      BY <2>4
    <3> QED BY <3>1, <3>2
  <2> QED BY <1>1, <1>3, <2>5 DEF EventsOf
<1> QED BY <1>6, <1>7, <1>8 DEF r, e

\* The function on top calls App.run, its loop ends, or its onerror is called:
\* the events that run stay.
LEMMA TopGood ==
    ASSUME NEW st, GoodStack(st), NEW f \in Frames, f.event = Head(st).event,
           f.part = "script" <=> Head(st).part = "script"
    PROVE  GoodStack([st EXCEPT ![1] = f]) /\ EventsOf([st EXCEPT ![1] = f]) = EventsOf(st)
<1> DEFINE r == [st EXCEPT ![1] = f]
           n == Len(st)
<1>1. st \in Seq(Frames) /\ n \in Nat /\ n >= 1 /\ 1 \in 1..n /\ DOMAIN st = 1..n /\ Head(st) = st[1]
  BY LenProperties, EmptySeq DEF GoodStack
<1>2. /\ r \in Seq(Frames) /\ Len(r) = n
      /\ \A i \in 1..n : r[i] = IF i = 1 THEN f ELSE st[i]
  BY <1>1, ExceptSeq
<1>3. DOMAIN r = 1..n
  BY <1>1
<1> HIDE DEF r, n
<1>4. \A i \in 1..n : r[i].event = st[i].event /\ (r[i].part = "script" <=> st[i].part = "script")
  BY <1>1, <1>2
<1>5. EventsOf(r) = EventsOf(st)
  BY <1>1, <1>3, <1>4 DEF EventsOf
<1>6. GoodStack(r)
  <2>1. /\ \A i \in 1..n : st[i].event = None <=> i = n
        /\ \A i \in 1..n : st[i].part = "script" <=> i = n
        /\ \A i, j \in 1..n : i # j => st[i].event # st[j].event
    BY <1>1 DEF GoodStack, n
  <2>2. r # <<>>
    BY <1>1, <1>2
  <2>3. \A i, j \in 1..n : i # j => r[i].event # r[j].event
    BY <1>4, <2>1
  <2> QED BY <1>2, <1>4, <2>1, <2>2, <2>3 DEF GoodStack
<1> QED BY <1>5, <1>6 DEF r

-----------------------------------------------------------------------------
(***************************************************************************)
(* The invariant holds at the start and after every step.                   *)
(***************************************************************************)

\* A new interpreter has no events, and runs the script only.
LEMMA InitInv == Init => IInv
<1> SUFFICES ASSUME Init PROVE IInv
  OBVIOUS
<1>1. timers.queue = <<>> /\ timers.events = <<>> /\ timers.event = [t \in Timer |-> None]
      /\ timers.repeat = [t \in Timer |-> FALSE] /\ timers.ejs = [t \in Timer |-> TRUE]
      /\ timers.period \in [Timer -> Period] /\ timers \in State
  BY DEF Init, timers, State, None
<1>2. EventsIn(timers.queue) = {}
  BY <1>1 DEF EventsIn
<1>3. OnStack = {}
  BY DEF Init, OnStack, Frame
<1>4. Good(timers, OnStack)
  <2> HIDE DEF timers, OnStack
  <2>1. GoodQueue(timers.queue, OnStack, Len(timers.events))
    BY <1>1, <1>2, <1>3 DEF GoodQueue
  <2>2. Agrees(timers, EventsIn(timers.queue) \cup OnStack)
    BY <1>1, <1>2, <1>3 DEF Agrees
  <2>3. RunOnce(timers, EventsIn(timers.queue))
    BY <1>1, TimerSets DEF RunOnce
  <2>4. Forgotten(timers, EventsIn(timers.queue) \cup OnStack)
    BY <1>1 DEF Forgotten
  <2> QED BY <1>1, <2>1, <2>2, <2>3, <2>4 DEF Good
<1>5. GoodStack(stack)
  <2> DEFINE f == Frame(None, "script")
  <2>1. f \in Frames /\ f.event = None /\ f.part = "script"
    BY DEF Frame, Frames, None
  <2>2. stack = <<f>>
    BY DEF Init
  <2> HIDE DEF f
  <2> QED BY <2>1, <2>2 DEF GoodStack
<1>6. CrashOK
  BY DEF Init, CrashOK
<1> QED BY <1>4, <1>5, <1>6 DEF IInv

\* The events that run are those of the stack, below what is called on top.
LEMMA Stacked == OnStack = EventsOf(stack)
BY DEF OnStack, EventsOf

\* A state of the timers that an operation leads to is the next one.
LEMMA Becomes ==
    ASSUME NEW s, s \in State, Become(s)
    PROVE  timers' = s
BY DEF Become, State, timers

\* start, stop, restart, a new period and repeat, called by the script or by a
\* callback: the stack stays.
LEMMA OperationInv ==
    ASSUME IInv, NEW t \in Timer, Operations(t)
    PROVE  IInv'
<1>1. Good(timers, OnStack) /\ GoodStack(stack) /\ CrashOK
  BY DEF IInv
<1>2. ASSUME NEW s, Good(s, OnStack), Operation(s) PROVE IInv'
  <2>1. /\ timers' = s /\ stack' = stack /\ OnStack' = OnStack /\ exception' = exception /\ crashed' = crashed
        /\ crashed = "no"
    BY <1>2, Becomes DEF Operation, Calls, Calling, Running, Good, OnStack
  <2>2. Good(timers', OnStack')
    BY <1>2, <2>1
  <2>3. GoodStack(stack') /\ CrashOK'
    BY <1>1, <2>1 DEF CrashOK
  <2> QED BY <2>2, <2>3 DEF IInv
<1> DEFINE on == OnStack
           s == timers
<1>3. Good(s, on)
  BY <1>1
<1> HIDE DEF on, s
<1>4. CASE Operation(timer_start(timers, t))
  <2>1. Good(timer_start(s, t), on)
    BY <1>3, StartGood
  <2> QED BY <1>2, <1>4, <2>1 DEF s, on
<1>5. CASE Operation(timer_stop(timers, t))
  <2>1. Good(timer_stop(s, t), on)
    BY <1>3, StopGood
  <2> QED BY <1>2, <1>5, <2>1 DEF s, on
<1>6. ASSUME NEW when \in Period, Operation(restart(timers, t, when)) PROVE IInv'
  <2>1. Good(restart(s, t, when), on)
    BY <1>3, RestartGood
  <2> QED BY <1>2, <1>6, <2>1 DEF s, on
<1>7. ASSUME NEW when \in Period, Operation(timer_set_period(timers, t, when)) PROVE IInv'
  <2>1. Good(timer_set_period(s, t, when), on)
    BY <1>3, SetPeriodGood
  <2> QED BY <1>2, <1>7, <2>1 DEF s, on
<1>8. ASSUME t \notin Single, NEW enable \in BOOLEAN, Operation(timer_set_repeat(timers, t, enable)) PROVE IInv'
  <2>1. Good(timer_set_repeat(s, t, enable), on)
    BY <1>3, <1>8, SetRepeatGood
  <2> QED BY <1>2, <1>8, <2>1 DEF s, on
<1> QED BY <1>4, <1>5, <1>6, <1>7, <1>8 DEF Operations

\* The clock.
LEMMA TickInv == ASSUME IInv, Tick PROVE IInv'
<1> DEFINE on == OnStack
           s == timers
           r == [s EXCEPT !.queue = Ticked(@)]
<1>1. Good(s, on)
  BY DEF IInv
<1>2. timers' = r
  BY DEF Tick, timers, Ticked
<1>3. Good(r, on)
  <2> HIDE DEF on, s
  <2> QED BY <1>1, TickGood
<1>4. OnStack' = on /\ stack' = stack /\ CrashOK'
  BY DEF IInv, CrashOK, Tick, OnStack, Running
<1> HIDE DEF r, on
<1>5. Good(timers', OnStack') /\ GoodStack(stack')
  BY <1>2, <1>3, <1>4 DEF IInv
<1> QED BY <1>4, <1>5 DEF IInv

\* App.run and App.sleep are called and return, and onerror is called in the
\* place of the callback: only the frame on top changes.
LEMMA FrameInv == ASSUME IInv, Serve \/ Served \/ Throws PROVE IInv'
<1> DEFINE st == stack
<1>1. GoodStack(st) /\ Good(timers, OnStack) /\ CrashOK
  BY DEF IInv
<1>2. timers' = timers /\ CrashOK'
  BY <1>1 DEF Serve, Served, Throws, timers, CrashOK, Running, Calling
<1>3. st \in Seq(Frames) /\ Len(st) \in Nat /\ Len(st) >= 1 /\ DOMAIN st = 1..Len(st) /\ Head(st) = st[1]
      /\ st[1] \in Frames
  BY <1>1, LenProperties, EmptySeq DEF GoodStack
<1>4. \E f \in Frames : /\ f.event = Head(st).event /\ (f.part = "script" <=> Head(st).part = "script")
                        /\ stack' = [st EXCEPT ![1] = f]
  <2>1. CASE Serve
    <3> DEFINE f == [st[1] EXCEPT !.serving = TRUE]
    <3>1. f \in Frames /\ f.event = Head(st).event /\ f.part = Head(st).part
      BY <1>3 DEF Frames
    <3>2. stack' = [st EXCEPT ![1] = f]
      BY <1>3, <2>1 DEF Serve
    <3> QED BY <3>1, <3>2
  <2>2. CASE Served
    <3> DEFINE f == [st[1] EXCEPT !.serving = FALSE]
    <3>1. f \in Frames /\ f.event = Head(st).event /\ f.part = Head(st).part
      BY <1>3 DEF Frames
    <3>2. stack' = [st EXCEPT ![1] = f]
      BY <1>3, <2>2 DEF Served
    <3> QED BY <3>1, <3>2
  <2>3. CASE Throws
    <3> DEFINE f == [st[1] EXCEPT !.part = "onerror"]
    <3>1. f \in Frames /\ f.event = Head(st).event /\ f.part = "onerror"
      BY <1>3 DEF Frames
    <3>2. stack' = [st EXCEPT ![1] = f]
      BY <1>3, <2>3 DEF Throws
    <3>3. Head(st).part # "script"
      BY <2>3 DEF Throws, Top
    <3> QED BY <3>1, <3>2, <3>3
  <2> QED BY <2>1, <2>2, <2>3
<1>5. GoodStack(stack') /\ EventsOf(stack') = EventsOf(stack)
  <2> HIDE DEF st
  <2>1. PICK f \in Frames : /\ f.event = Head(st).event /\ (f.part = "script" <=> Head(st).part = "script")
                            /\ stack' = [st EXCEPT ![1] = f]
    BY <1>4
  <2>2. GoodStack([st EXCEPT ![1] = f]) /\ EventsOf([st EXCEPT ![1] = f]) = EventsOf(st)
    BY <1>1, <2>1, TopGood
  <2> QED BY <2>1, <2>2 DEF st
<1>6. OnStack' = OnStack
  BY <1>5 DEF OnStack, EventsOf
<1>7. Good(timers', OnStack')
  BY <1>1, <1>2, <1>6
<1> QED BY <1>2, <1>5, <1>7 DEF IInv

\* A function of a timer ends, with or without an exception: its event leaves
\* the stack and is queued again or over (timerCallback, dispatchEvents).
LEMMA ReturnsInv == ASSUME IInv, Returns \/ ThrowsAgain PROVE IInv'
<1> DEFINE e == Top.event
           on == OnStack \ {e}
           st == stack
           s == timers
           r == Requeued(Ran(s, s.events[e].timer), e)
<1>1. GoodStack(st) /\ Good(s, OnStack) /\ CrashOK
  BY DEF IInv
<1>2. e # None /\ Become(r) /\ stack' = Tail(st) /\ crashed = "no" /\ crashed' = "no" /\ exception' \in BOOLEAN
  <2>1. st \in Seq(Frames) /\ Len(st) \in Nat /\ Len(st) >= 1 /\ Head(st) = st[1] /\ 1 \in 1..Len(st)
    BY <1>1, LenProperties, EmptySeq DEF GoodStack
  <2>2. Top.part # "script" => e # None
    BY <1>1, <2>1 DEF GoodStack, Top
  <2> QED BY <1>1, <2>2 DEF Returns, ThrowsAgain, Finish, Calling, Running, CrashOK, timers
<1>3. e \in OnStack /\ GoodStack(Tail(st)) /\ EventsOf(Tail(st)) = on
  <2> HIDE DEF st
  <2>1. /\ GoodStack(Tail(st)) /\ Head(st).event \in EventsOf(st)
        /\ EventsOf(Tail(st)) = EventsOf(st) \ {Head(st).event}
    BY <1>1, <1>2, PopGood DEF Top, st
  <2> QED BY <2>1, Stacked DEF Top, st
<1>4. Good(r, on)
  <2> HIDE DEF e, s
  <2>1. on \cup {e} = OnStack /\ e \notin on
    BY <1>3
  <2> HIDE DEF on
  <2> QED BY <1>1, <2>1, FinishGood
<1>5. timers' = r
  <2> HIDE DEF r
  <2> QED BY <1>2, <1>4, Becomes DEF Good
<1>6. OnStack' = on
  BY <1>2, <1>3 DEF OnStack, EventsOf
<1> HIDE DEF r, on
<1>7. Good(timers', OnStack') /\ GoodStack(stack') /\ CrashOK'
  BY <1>2, <1>3, <1>4, <1>5, <1>6 DEF CrashOK
<1> QED BY <1>7 DEF IInv

\* The first event is taken from the queue: it goes on the stack, or it is over
\* at once, with an exception that another has left; or its timer has lost its
\* interpreter, which another event of that timer has taken.
LEMMA dispatchEventsInv == ASSUME IInv, dispatchEvents PROVE IInv'
<1> DEFINE e == Head(queue).event
           t == events[e].timer
           on == OnStack
           st == stack
           s == timers
           taken == Taken(s, e)
<1>1. GoodStack(st) /\ Good(s, on) /\ CrashOK /\ s.queue # <<>> /\ crashed = "no"
  BY DEF IInv, dispatchEvents, Due, Running, timers
<1>2. e \in Nat /\ e # None /\ e \notin on /\ e \in 1..Len(s.events) /\ taken.events[e].timer = t
      /\ Good(taken, on \cup {e})
  <2> DEFINE h == Head(s.queue).event
  <2>1. e = h /\ t = s.events[h].timer
    BY DEF timers
  <2> HIDE DEF s, on, e, t
  <2>2. h \in Nat /\ h # None /\ h \notin on /\ h \in 1..Len(s.events)
        /\ Taken(s, h).events[h].timer = s.events[h].timer /\ Good(Taken(s, h), on \cup {h})
    BY <1>1, TakeGood
  <2> QED BY <2>1, <2>2
<1>3. taken = [timers EXCEPT !.queue = Tail(@), !.events[e].runs = IF t \in Single THEN @ + 1 ELSE 0]
  BY DEF Taken, timers
<1> HIDE DEF taken
<1>4. \/ ~ejs[t] /\ crashed' = "callback" /\ Become(timers) /\ stack' = st /\ exception' = exception
      \/ \E part \in {"callback", "onerror"} :
           Become(taken) /\ stack' = <<Frame(e, part)>> \o st /\ crashed' = crashed /\ exception' \in BOOLEAN
      \/ Finish(taken, e, st) /\ crashed' = crashed /\ exception' = FALSE
  <2>1. exception \in BOOLEAN
    BY <1>1 DEF CrashOK
  <2>2. \/ ~ejs[t] /\ crashed' = "callback" /\ Become(timers) /\ stack' = st /\ exception' = exception
        \/ Become(taken) /\ stack' = <<Frame(e, "callback")>> \o st /\ crashed' = crashed /\ exception' = exception
        \/ Become(taken) /\ stack' = <<Frame(e, "onerror")>> \o st /\ crashed' = crashed /\ exception' = FALSE
        \/ Finish(taken, e, st) /\ crashed' = crashed /\ exception' = FALSE
    BY <1>3 DEF dispatchEvents
  <2> QED BY <2>1, <2>2
<1>5. CASE ~ejs[t] /\ crashed' = "callback" /\ Become(timers) /\ stack' = st /\ exception' = exception
  <2>1. timers' = timers /\ OnStack' = OnStack
    BY <1>1, <1>5, Becomes DEF Good, OnStack
  <2>2. \E i, j \in DOMAIN events : i # j /\ events[i].timer = events[j].timer
    <3>1. e \in EventsIn(s.queue)
      <4> DEFINE q == s.queue
                 m == Len(s.events)
      <4>1. GoodQueue(q, on, m) /\ m \in Nat /\ q # <<>>
        BY <1>1, Parts DEF Good, Typed
      <4> HIDE DEF q, m, on
      <4>2. Head(q).event \in EventsIn(q)
        BY <4>1, TakenFromQueue
      <4> QED BY <4>2 DEF q, timers
    <3>2. Typed(s, on)
      BY <1>1, Parts
    <3>3. t \in Timer /\ ~s.ejs[t]
      BY <1>2, <1>5, <3>2 DEF Typed, timers
    <3>4. PICK i \in 1..Len(s.events) : i \notin EventsIn(s.queue) /\ s.events[i].timer = t
      BY <1>1, <3>3 DEF Good, Forgotten
    <3>5. i # e /\ i \in DOMAIN events /\ e \in DOMAIN events /\ events[i].timer = events[e].timer
      BY <1>2, <3>1, <3>2, <3>4 DEF Typed, timers
    <3> QED BY <3>5
  <2>3. events' = events
    BY <1>5 DEF Become, timers
  <2>4. CrashOK'
    BY <1>1, <1>5, <2>2, <2>3 DEF CrashOK
  <2> QED BY <1>1, <1>5, <2>1, <2>4 DEF IInv
<1>6. CASE \E part \in {"callback", "onerror"} :
             Become(taken) /\ stack' = <<Frame(e, part)>> \o st /\ crashed' = crashed /\ exception' \in BOOLEAN
  <2>1. PICK part \in {"callback", "onerror"} :
           Become(taken) /\ stack' = <<Frame(e, part)>> \o st /\ crashed' = crashed /\ exception' \in BOOLEAN
    BY <1>6
  <2>2. timers' = taken
    BY <1>2, <2>1, Becomes DEF Good
  <2>3. GoodStack(stack') /\ EventsOf(stack') = EventsOf(st) \cup {e}
    <3>1. e \notin EventsOf(st)
      BY <1>2, Stacked
    <3> DEFINE above == <<Frame(e, part)>> \o st
    <3> HIDE DEF e, st
    <3>2. GoodStack(above) /\ EventsOf(above) = EventsOf(st) \cup {e}
      BY <1>1, <1>2, <3>1, PushGood
    <3> QED BY <2>1, <3>2
  <2>4. OnStack' = on \cup {e}
    BY <2>3, Stacked DEF OnStack, EventsOf
  <2>5. Good(timers', OnStack') /\ CrashOK'
    BY <1>1, <1>2, <2>1, <2>2, <2>4 DEF CrashOK
  <2> QED BY <2>3, <2>5 DEF IInv
<1>7. CASE Finish(taken, e, st) /\ crashed' = crashed /\ exception' = FALSE
  <2> DEFINE r == Requeued(Ran(taken, taken.events[e].timer), e)
  <2>1. Become(r) /\ stack' = stack
    BY <1>7 DEF Finish
  <2>2. Good(r, on)
    <3> HIDE DEF e, on
    <3> QED BY <1>2, FinishGood
  <2> HIDE DEF r
  <2>3. timers' = r /\ OnStack' = OnStack
    BY <2>1, <2>2, Becomes DEF Good, OnStack
  <2>4. Good(timers', OnStack') /\ CrashOK'
    BY <1>1, <1>7, <2>2, <2>3 DEF CrashOK
  <2> QED BY <1>1, <2>1, <2>4 DEF IInv
<1> QED BY <1>4, <1>5, <1>6, <1>7

\* Every step keeps the invariant: the timers, the queue and the stack go on
\* agreeing with each other.
LEMMA StepInv == IInv /\ [Next]_vars => IInv'
<1> SUFFICES ASSUME IInv, [Next]_vars PROVE IInv'
  OBVIOUS
<1>1. ASSUME UNCHANGED vars PROVE IInv'
  <2>1. timers' = timers /\ stack' = stack /\ OnStack' = OnStack /\ CrashOK'
    BY <1>1 DEF vars, timers, OnStack, IInv, CrashOK
  <2> QED BY <2>1 DEF IInv
<1>2. ASSUME manageTimer PROVE IInv'
  <2>1. timers' = timers /\ stack' = stack /\ OnStack' = OnStack /\ CrashOK'
    BY <1>2 DEF manageTimer, timers, OnStack, IInv, CrashOK
  <2> QED BY <2>1 DEF IInv
<1>3. ASSUME NEW t \in Timer, Operations(t) PROVE IInv'
  BY <1>3, OperationInv
<1>4. CASE Tick
  BY <1>4, TickInv
<1>5. CASE Serve \/ Served \/ Throws
  BY <1>5, FrameInv
<1>6. CASE Returns \/ ThrowsAgain
  BY <1>6, ReturnsInv
<1>7. CASE dispatchEvents
  BY <1>7, dispatchEventsInv
<1> QED BY <1>1, <1>2, <1>3, <1>4, <1>5, <1>6, <1>7 DEF Next, Rest

-----------------------------------------------------------------------------
(***************************************************************************)
(* The theorems.                                                            *)
(***************************************************************************)

\* The inductive invariant holds in every state that is reached.
THEOREM Invariant == Spec => []IInv
BY InitInv, StepInv, PTL DEF Spec

\* Every field has its type; an event that a timer, the queue or the stack
\* names is one that was made.
THEOREM Types == Spec => []TypeOK
<1>1. IInv => TypeOK
  <2> SUFFICES ASSUME IInv PROVE TypeOK
    OBVIOUS
  <2>1. Typed(timers, OnStack)
    BY Parts DEF IInv
  <2>2. event \in [Timer -> {None} \cup DOMAIN events]
    BY <2>1 DEF Typed, timers
  <2>3. Queued \cup OnStack \subseteq DOMAIN events
    BY <2>1 DEF Typed, timers, Queued, EventsIn
  <2> QED BY <2>1, <2>2, <2>3 DEF TypeOK, Typed, timers, IInv, CrashOK
<1> QED BY <1>1, Invariant, PTL

\* The queue that nested loops share stays in the order in which its events are
\* due, with every event once and none that runs: looking at its first event is
\* enough (mprGetNextEvent), and the assertion on MPR_EVENT_RUNNING holds,
\* however deep loops nest and whatever is started from their callbacks.
THEOREM QueueStaysSound == Spec => []QueueIsSound
<1>1. IInv => QueueIsSound
  <2> SUFFICES ASSUME IInv PROVE QueueIsSound
    OBVIOUS
  <2>1. GoodQueue(queue, OnStack, Len(events)) /\ Queued = EventsIn(queue)
    BY DEF IInv, Good, timers, Queued, EventsIn
  <2>2. GoodStack(stack) /\ DOMAIN stack = 1..Len(stack)
    BY LenProperties DEF IInv, GoodStack
  <2>3. InDueOrder
    BY <2>1 DEF GoodQueue, InDueOrder
  <2>4. NotTwice
    BY <2>1, <2>2 DEF GoodQueue, GoodStack, NotTwice
  <2> QED BY <2>3, <2>4 DEF QueueIsSound
<1> QED BY <1>1, Invariant, PTL

\* An event that goes on by itself is the one its timer knows, so that stop and
\* repeat reach it, and the event that a timer knows is one that will run or is
\* running, so that start is right to do nothing.
THEOREM TimersKnowTheirEvents == Spec => []KnowsItsEvent
<1>1. IInv => KnowsItsEvent
  <2> SUFFICES ASSUME IInv PROVE KnowsItsEvent
    OBVIOUS
  <2>1. Agrees(timers, Queued \cup OnStack)
    BY DEF IInv, Good, timers, Queued, EventsIn
  <2>2. StopReaches
    BY <2>1 DEF Agrees, StopReaches, timers
  <2>3. KnownIsLive
    BY <2>1 DEF Agrees, KnownIsLive, timers
  <2> QED BY <2>2, <2>3 DEF KnowsItsEvent
<1> QED BY <1>1, Invariant, PTL

\* An event of a timer that never repeats runs once and no more, and a timer has
\* lost its interpreter when an event of it runs only if another one ran before.
THEOREM StartsAreGood == Spec => []StartIsGood
<1>1. IInv => StartIsGood
  <2> SUFFICES ASSUME IInv PROVE StartIsGood
    OBVIOUS
  <2>1. RunOnce(timers, Queued) /\ DOMAIN events = 1..Len(events)
    BY Parts DEF IInv, Good, timers, Queued, EventsIn, Typed
  <2>2. OneRunEach
    BY <2>1 DEF RunOnce, OneRunEach, timers
  <2>3. CrashNeedsRestart
    BY DEF IInv, CrashOK, CrashNeedsRestart
  <2> QED BY <2>2, <2>3 DEF StartIsGood
<1> QED BY <1>1, Invariant, PTL

=============================================================================
