--------------------------- MODULE EjsArrayProofs ---------------------------
(***************************************************************************)
(* Theorems about EjsArray, for arrays of any length and blocks that grow   *)
(* by any number of slots: that loops and sorts stay in the block whatever  *)
(* their functions do to the array, that loops miss nothing, that a sort    *)
(* keeps the elements and orders them, and that an array is a list.         *)
(***************************************************************************)
EXTENDS EjsArray, FiniteSetTheorems, SequenceTheorems, WellFoundedInduction, TLAPS

-----------------------------------------------------------------------------
(***************************************************************************)
(* Blocks.                                                                  *)
(***************************************************************************)
IsBlock(d) == \E n \in Nat : d \in Block(n)

\* A sequence, of whatever elements
IsSequence(s) == Len(s) \in Nat /\ DOMAIN s = 1..Len(s) /\ s = [k \in 1..Len(s) |-> s[k]]

\* A block of n slots has n slots.
LEMMA SizeIs ==
    ASSUME NEW n \in Nat, NEW d \in Block(n)
    PROVE  Size(d) = n /\ DOMAIN d = 0..(n - 1)
<1>1. DOMAIN d = 0..(n - 1)
  BY DEF Block
<1>2. Cardinality(0..(n - 1)) = n
  BY FS_Interval
<1> QED BY <1>1, <1>2 DEF Size

\* What a block is.
LEMMA BlockIs ==
    ASSUME NEW d, IsBlock(d)
    PROVE  /\ Size(d) \in Nat /\ d \in Block(Size(d)) /\ DOMAIN d = 0..(Size(d) - 1)
           /\ d = [k \in 0..(Size(d) - 1) |-> d[k]] /\ \A k \in 0..(Size(d) - 1) : d[k] \in Slot
<1>1. PICK n \in Nat : d \in Block(n)
  BY DEF IsBlock
<1>2. Size(d) = n
  BY <1>1, SizeIs
<1> QED BY <1>1, <1>2 DEF Block

\* A function on numbers up to n is a block of n slots.
LEMMA BlockOf ==
    ASSUME NEW n \in Nat, NEW d, d = [k \in 0..(n - 1) |-> d[k]], \A k \in 0..(n - 1) : d[k] \in Slot
    PROVE  IsBlock(d) /\ Size(d) = n
<1>1. d \in Block(n)
  BY DEF Block
<1> QED BY <1>1, SizeIs DEF IsBlock

\* An array's block grows and keeps its elements; new slots are undefined (growArray).
LEMMA Grows ==
    ASSUME NEW d, IsBlock(d), NEW len \in 0..Size(d), NEW n \in Int
    PROVE  LET g == growArray(d, len, n)
           IN  /\ IsBlock(g) /\ Size(g) >= Size(d) /\ Size(g) >= n
               /\ \A k \in 0..(len - 1) : g[k] = d[k]
               /\ \A k \in len..(Size(g) - 1) : g[k] = Undefined \/ (k < Size(d) /\ g[k] = d[k])
<1> DEFINE g == growArray(d, len, n)
<1>1. Size(d) \in Nat /\ \A k \in 0..(Size(d) - 1) : d[k] \in Slot
  BY BlockIs
<1>2. CASE n <= len \/ n <= Size(d)
  <2>1. g = d
    BY <1>2 DEF growArray
  <2> QED BY <1>1, <1>2, <2>1
<1>3. CASE ~(n <= len \/ n <= Size(d))
  <2>1. Rounded(n) \in Nat /\ Rounded(n) >= n
    <3>1. PICK m : m = n + Round - 1
      OBVIOUS
    <3>2. m \in Nat /\ Round \in Nat \ {0} /\ n \in Nat
      BY <1>1, <1>3, <3>1, SizeAssumption
    <3>3. (m \div Round) \in Nat /\ m = Round * (m \div Round) + (m % Round) /\ m % Round < Round /\ m % Round >= 0
      BY <3>2
    <3>4. PICK q \in Nat : q = m \div Round
      BY <3>3
    <3>5. q * Round \in Nat /\ q * Round = Round * q
      BY <3>2, <3>4
    <3> QED BY <3>1, <3>2, <3>3, <3>4, <3>5 DEF Rounded
  <2>2. g = [i \in 0..(Rounded(n) - 1) |-> IF i < len THEN d[i] ELSE Undefined]
    BY <1>3 DEF growArray
  <2>3. PICK m \in Nat : m = Rounded(n)
    BY <2>1
  <2>4. g = [i \in 0..(m - 1) |-> IF i < len THEN d[i] ELSE Undefined] /\ m >= n
    BY <2>1, <2>2, <2>3
  <2> HIDE DEF g
  <2>5. \A k \in 0..(m - 1) : g[k] \in Slot
    BY <1>1, <2>4, ElementAssumption DEF Slot
  <2>6. IsBlock(g) /\ Size(g) = m
    BY <2>4, <2>5, BlockOf
  <2>7. Size(d) < m
    BY <1>1, <1>3, <2>4
  <2> USE DEF g
  <2> QED BY <1>1, <2>4, <2>6, <2>7
<1> QED BY <1>2, <1>3

-----------------------------------------------------------------------------
(***************************************************************************)
(* The invariant.                                                           *)
(***************************************************************************)
LoopFrame ==
    [kind : {"loop", "transform"}, index : Nat, limit : Nat, calls : BOOLEAN,
     taken : SUBSET Nat, kept : SUBSET Nat]
Ranges == [p : Nat, r : Int]
Parts == [p : Nat, r : Int, x : Slot, i : Nat, j : Int]
SortFrame ==
    [kind : {"sort"}, compare : BOOLEAN, direction : Int, calls : BOOLEAN, todo : Seq(Ranges), part : Seq(Parts),
     start : Seq(Slot), alone : BOOLEAN, honest : BOOLEAN]
Frame == LoopFrame \cup SortFrame

\* Where a loop is, and what it has given
IsLoop(f, d, n) ==
    /\ f \in LoopFrame /\ f.limit <= Size(d) /\ (f.calls => f.index > 0)
    /\ f.kept \subseteq Defined(d, n) /\ \A i \in f.kept : i < f.limit
    /\ \A i \in f.kept : i < f.index => i \in f.taken

\* Elements that may stand in this order
Before(direction, v, w) == rank[v] * direction <= rank[w] * direction

\* A range that a sort still has to put in order has both slots
Has(span, i, j) == span.p <= i /\ j <= span.r
Together(f, i, j) == (f.part # <<>> /\ Has(f.part[1], i, j)) \/ \E m \in 1..Len(f.todo) : Has(f.todo[m], i, j)
Apart(s, t) == s.r < t.p \/ t.r < s.p

\* Ranges do not meet; other elements are in order; and a partition has put what comes
\* before the pivot in front of what does not
InOrder(f, d, n) ==
    /\ \A k, m \in 1..Len(f.todo) : k # m => Apart(f.todo[k], f.todo[m])
    /\ f.part # <<>> => \A m \in 1..Len(f.todo) : Apart(f.part[1], f.todo[m])
    /\ \A i, j \in 0..(n - 1) : i < j => Before(f.direction, d[i], d[j]) \/ Together(f, i, j)
    /\ f.part # <<>> =>
        LET t == f.part[1]
        IN  /\ \A k \in t.p..t.j : ~Before(f.direction, t.x, d[k])
            /\ \A k \in (t.j + 1)..(t.i - 1) : Before(f.direction, t.x, d[k])

\* A sort that is alone with the array
IsAlone(f, d, n) ==
    /\ \A v \in Slot : Times(v, Elems(d, 0, n)) = Times(v, f.start)
    /\ \A m \in 1..Len(f.todo) : f.todo[m].r < n
    /\ f.part # <<>> => f.part[1].r < n /\ f.part[1].x = d[f.part[1].r]
    /\ f.honest => InOrder(f, d, n)

InPart(t, size) == t.p <= t.i /\ t.p - 1 <= t.j /\ t.j < t.i /\ t.i <= t.r /\ t.r < size

IsSort(f, d, n) ==
    /\ f \in SortFrame
    /\ \A m \in 1..Len(f.todo) : f.todo[m].r < Size(d)
    /\ f.part # <<>> => Len(f.part) = 1 /\ InPart(f.part[1], Size(d))
    /\ f.calls => f.part # <<>> /\ f.part[1].i < f.part[1].r
    /\ f.alone => IsAlone(f, d, n)

FrameOK(f, d, n) == IsLoop(f, d, n) \/ IsSort(f, d, n)

\* Slots that have never held an element are undefined, for as far as the block goes
BlockOK(d, n, h) ==
    /\ IsBlock(d) /\ n \in 0..Size(d) /\ h \in n..Size(d)
    /\ \A k \in h..(Size(d) - 1) : d[k] = Undefined
FramesOK(fs, d, n) == fs \in Seq(Frame) /\ \A k \in 1..Len(fs) : FrameOK(fs[k], d, n)

\* What a sort still has to do lies below h
InReach(f, h) ==
    f.kind = "sort" =>
        /\ \A m \in 1..Len(f.todo) : f.todo[m].r < h
        /\ f.part # <<>> => f.part[1].r < h
AllInReach(fs, h) == \A k \in 1..Len(fs) : InReach(fs[k], h)

Inv == BlockOK(data, length, high) /\ FramesOK(frames, data, length) /\ AllInReach(frames, high)

-----------------------------------------------------------------------------
(***************************************************************************)
(* What the loops over slots make of a block.                               *)
(***************************************************************************)

\* A read finds an element, or what is behind the block.
LEMMA ReadIs ==
    ASSUME NEW d, IsBlock(d), NEW i
    PROVE  Read(d, i) \in Slot /\ (i \in 0..(Size(d) - 1) => Read(d, i) = d[i])
<1>1. Size(d) \in Nat /\ DOMAIN d = 0..(Size(d) - 1) /\ \A k \in 0..(Size(d) - 1) : d[k] \in Slot
  BY BlockIs
<1> QED BY <1>1 DEF Read, Slot

\* A block in which a slot is set
Put(d, i, v) == [d EXCEPT ![i] = v]

\* A slot is set.
LEMMA SlotSet ==
    ASSUME NEW d, IsBlock(d), NEW i \in 0..(Size(d) - 1), NEW v \in Slot,
           NEW e, e = Put(d, i, v)
    PROVE  IsBlock(e) /\ Size(e) = Size(d) /\ \A k \in 0..(Size(d) - 1) : e[k] = IF k = i THEN v ELSE d[k]
<1>1. PICK n \in Nat : n = Size(d) /\ d = [k \in 0..(n - 1) |-> d[k]] /\ \A k \in 0..(n - 1) : d[k] \in Slot
  BY BlockIs
<1>2. e = [k \in 0..(n - 1) |-> IF k = i THEN v ELSE d[k]]
  BY <1>1 DEF Put
<1>3. e = [k \in 0..(n - 1) |-> e[k]] /\ \A k \in 0..(n - 1) : e[k] \in Slot
  BY <1>1, <1>2
<1>4. IsBlock(e) /\ Size(e) = n
  BY <1>3, BlockOf
<1> QED BY <1>1, <1>2, <1>4

\* Values are copied in.
LEMMA CopiedIn ==
    ASSUME NEW d, IsBlock(d), NEW i \in Int, NEW s, IsSequence(s), \A k \in 1..Len(s) : s[k] \in Slot,
           NEW e, e = CopyIn(d, i, s)
    PROVE  /\ IsBlock(e) /\ Size(e) = Size(d)
           /\ \A k \in 0..(Size(d) - 1) :
                e[k] = IF i <= k /\ k < i + Len(s) THEN s[k - i + 1] ELSE d[k]
<1>1. PICK n \in Nat : n = Size(d) /\ DOMAIN d = 0..(n - 1) /\ \A k \in 0..(n - 1) : d[k] \in Slot
  BY BlockIs
<1>2. PICK l \in Nat : l = Len(s) /\ DOMAIN s = 1..l
  BY DEF IsSequence
<1>3. e = [k \in 0..(n - 1) |-> IF k - i + 1 \in 1..l THEN s[k - i + 1] ELSE d[k]]
  BY <1>1, <1>2 DEF CopyIn
<1>4. \A k \in 0..(n - 1) : e[k] = IF i <= k /\ k < i + l THEN s[k - i + 1] ELSE d[k]
  <2> SUFFICES ASSUME NEW k \in 0..(n - 1) PROVE e[k] = IF i <= k /\ k < i + l THEN s[k - i + 1] ELSE d[k]
    OBVIOUS
  <2>1. k - i + 1 \in 1..l <=> i <= k /\ k < i + l
    OBVIOUS
  <2> QED BY <1>3, <2>1
<1>5. \A k \in 0..(n - 1) : e[k] \in Slot
  <2> SUFFICES ASSUME NEW k \in 0..(n - 1) PROVE e[k] \in Slot
    OBVIOUS
  <2>1. CASE k - i + 1 \in 1..l
    BY <1>2, <1>3, <2>1
  <2>2. CASE k - i + 1 \notin 1..l
    BY <1>1, <1>3, <2>2
  <2> QED BY <2>1, <2>2
<1>6. IsBlock(e) /\ Size(e) = n
  <2>1. e = [k \in 0..(n - 1) |-> e[k]]
    BY <1>3
  <2> QED BY <2>1, <1>5, BlockOf
<1> QED BY <1>1, <1>2, <1>4, <1>6

\* Slots move up.
LEMMA MovedUp ==
    ASSUME NEW d, IsBlock(d), NEW first \in Nat, NEW last \in Int, NEW delta \in Nat, delta <= first,
           NEW e, e = MoveUp(d, first, last, delta)
    PROVE  /\ IsBlock(e) /\ Size(e) = Size(d)
           /\ \A k \in 0..(Size(d) - 1) : e[k] = IF first <= k /\ k <= last THEN d[k - delta] ELSE d[k]
<1>1. PICK n \in Nat : n = Size(d) /\ DOMAIN d = 0..(n - 1) /\ \A k \in 0..(n - 1) : d[k] \in Slot
  BY BlockIs
<1>2. e = [k \in 0..(n - 1) |-> IF k \in first..last THEN d[k - delta] ELSE d[k]]
  BY <1>1 DEF MoveUp
<1>3. \A k \in 0..(n - 1) : e[k] = IF first <= k /\ k <= last THEN d[k - delta] ELSE d[k]
  BY <1>2
<1>4. \A k \in 0..(n - 1) : e[k] \in Slot
  <2> SUFFICES ASSUME NEW k \in 0..(n - 1) PROVE e[k] \in Slot
    OBVIOUS
  <2>1. k \in first..last => k - delta \in 0..(n - 1)
    OBVIOUS
  <2> QED BY <1>1, <1>2, <2>1
<1>5. IsBlock(e) /\ Size(e) = n
  <2>1. e = [k \in 0..(n - 1) |-> e[k]]
    BY <1>2
  <2> QED BY <2>1, <1>4, BlockOf
<1> QED BY <1>1, <1>3, <1>5

\* Slots move down.
LEMMA MovedDown ==
    ASSUME NEW d, IsBlock(d), NEW first \in Int, NEW last \in Int, NEW delta \in Int,
           NEW e, e = MoveDown(d, first, last, delta)
    PROVE  /\ IsBlock(e) /\ Size(e) = Size(d)
           /\ \A k \in 0..(Size(d) - 1) : e[k] = IF first <= k /\ k <= last THEN Read(d, k + delta) ELSE d[k]
<1>1. PICK n \in Nat : n = Size(d) /\ DOMAIN d = 0..(n - 1) /\ \A k \in 0..(n - 1) : d[k] \in Slot
  BY BlockIs
<1>2. e = [k \in 0..(n - 1) |-> IF k \in first..last THEN Read(d, k + delta) ELSE d[k]]
  BY <1>1 DEF MoveDown
<1>3. \A k \in 0..(n - 1) : e[k] = IF first <= k /\ k <= last THEN Read(d, k + delta) ELSE d[k]
  BY <1>2
<1>4. \A k \in 0..(n - 1) : e[k] \in Slot
  BY <1>1, <1>2, ReadIs
<1>5. IsBlock(e) /\ Size(e) = n
  <2>1. e = [k \in 0..(n - 1) |-> e[k]]
    BY <1>2
  <2> QED BY <2>1, <1>4, BlockOf
<1> QED BY <1>1, <1>3, <1>5

\* The elements from a slot on are a sequence.
LEMMA ElemsIs ==
    ASSUME NEW d, IsBlock(d), NEW i \in Int, NEW n \in Int
    PROVE  /\ IsSequence(Elems(d, i, n)) /\ Len(Elems(d, i, n)) = IF n < 0 THEN 0 ELSE n
           /\ \A k \in 1..n : Elems(d, i, n)[k] = Read(d, i + k - 1)
           /\ Elems(d, i, n) \in Seq(Slot)
           /\ i >= 0 /\ i + n <= Size(d) => \A k \in 1..n : Elems(d, i, n)[k] = d[i + k - 1]
<1>1. Size(d) \in Nat
  BY BlockIs
<1>2. PICK m \in Nat : m = IF n < 0 THEN 0 ELSE n
  OBVIOUS
<1>3. 1..m = 1..n
  BY <1>2
<1>4. Elems(d, i, n) = [k \in 1..m |-> Read(d, i + k - 1)]
  BY <1>3 DEF Elems
<1>5. PICK e : e = Elems(d, i, n)
  OBVIOUS
<1>6. e \in Seq(Slot) /\ Len(e) = m /\ IsSequence(e)
  <2>1. \A k \in 1..m : e[k] \in Slot
    BY <1>4, <1>5, ReadIs
  <2>2. e = [k \in 1..m |-> e[k]]
    BY <1>4, <1>5
  <2>3. e \in [1..m -> Slot]
    BY <2>1, <2>2
  <2> QED BY <2>3 DEF IsSequence
<1>7. \A k \in 1..n : e[k] = Read(d, i + k - 1)
  BY <1>3, <1>4, <1>5
<1>8. ASSUME i >= 0, i + n <= Size(d), NEW k \in 1..n PROVE e[k] = d[i + k - 1]
  <2>1. i + k - 1 \in 0..(Size(d) - 1)
    BY <1>1, <1>8
  <2> QED BY <2>1, <1>7, ReadIs
<1> QED BY <1>2, <1>5, <1>6, <1>7, <1>8

-----------------------------------------------------------------------------
(***************************************************************************)
(* Loops and sorts while others change the array.                           *)
(***************************************************************************)

\* A sequence of frames: the innermost and the others.
LEMMA HeadTail ==
    ASSUME NEW fs \in Seq(Frame), fs # <<>>
    PROVE  /\ Len(fs) \in Nat \ {0} /\ Head(fs) = fs[1] /\ Head(fs) \in Frame
           /\ Tail(fs) \in Seq(Frame) /\ Len(Tail(fs)) = Len(fs) - 1
           /\ \A k \in 1..(Len(fs) - 1) : Tail(fs)[k] = fs[k + 1]
OBVIOUS

\* One frame before others.
LEMMA Pushed ==
    ASSUME NEW fs \in Seq(Frame), NEW f \in Frame
    PROVE  /\ <<f>> \o fs \in Seq(Frame) /\ Len(<<f>> \o fs) = Len(fs) + 1
           /\ (<<f>> \o fs)[1] = f /\ \A k \in 2..(Len(fs) + 1) : (<<f>> \o fs)[k] = fs[k - 1]
OBVIOUS

\* A frame that is fine is a frame.
LEMMA FrameIs ==
    ASSUME NEW f, NEW d, NEW n, FrameOK(f, d, n)
    PROVE  f \in Frame
BY DEF FrameOK, IsLoop, IsSort, Frame

\* What is fine with a frame in front is fine without it.
LEMMA TailOK ==
    ASSUME NEW fs, NEW d, NEW n, FramesOK(fs, d, n), fs # <<>>
    PROVE  FramesOK(Tail(fs), d, n) /\ FrameOK(Head(fs), d, n)
<1>1. fs \in Seq(Frame)
  BY DEF FramesOK
<1>2. \A k \in 1..Len(fs) : FrameOK(fs[k], d, n)
  BY DEF FramesOK
<1>3. ASSUME NEW k \in 1..Len(Tail(fs)) PROVE FrameOK(Tail(fs)[k], d, n)
  <2>1. k \in 1..(Len(fs) - 1) /\ k + 1 \in 1..Len(fs) /\ Tail(fs)[k] = fs[k + 1]
    BY <1>1, HeadTail
  <2> QED BY <1>2, <2>1
<1>4. FrameOK(Head(fs), d, n)
  <2>1. 1 \in 1..Len(fs) /\ Head(fs) = fs[1]
    BY <1>1, HeadTail
  <2> QED BY <1>2, <2>1
<1>5. Tail(fs) \in Seq(Frame)
  BY <1>1, HeadTail
<1> QED BY <1>3, <1>4, <1>5 DEF FramesOK

\* A frame that is fine comes in front.
LEMMA PushedOK ==
    ASSUME NEW fs, NEW d, NEW n, FramesOK(fs, d, n), NEW f, FrameOK(f, d, n)
    PROVE  FramesOK(<<f>> \o fs, d, n)
<1>1. fs \in Seq(Frame) /\ f \in Frame
  BY FrameIs DEF FramesOK
<1>2. PICK gs : gs = <<f>> \o fs
  OBVIOUS
<1>3. gs \in Seq(Frame) /\ Len(gs) = Len(fs) + 1 /\ gs[1] = f /\ \A k \in 2..(Len(fs) + 1) : gs[k] = fs[k - 1]
  BY <1>1, <1>2, Pushed
<1>4. ASSUME NEW k \in 1..Len(gs) PROVE FrameOK(gs[k], d, n)
  <2>1. k = 1 \/ (k \in 2..(Len(fs) + 1) /\ k - 1 \in 1..Len(fs))
    BY <1>1, <1>3
  <2>2. \A m \in 1..Len(fs) : FrameOK(fs[m], d, n)
    BY DEF FramesOK
  <2>3. CASE k = 1
    BY <1>3, <2>3
  <2>4. CASE k # 1
    <3>1. gs[k] = fs[k - 1] /\ k - 1 \in 1..Len(fs)
      BY <1>3, <2>1, <2>4
    <3> QED BY <2>2, <3>1
  <2> QED BY <2>3, <2>4
<1> QED BY <1>2, <1>3, <1>4 DEF FramesOK

\* The fields of a loop.
LEMMA LoopFields ==
    ASSUME NEW f \in LoopFrame
    PROVE  /\ f.kind \in {"loop", "transform"} /\ f.index \in Nat /\ f.limit \in Nat /\ f.calls \in BOOLEAN
           /\ f.taken \in SUBSET Nat /\ f.kept \in SUBSET Nat
BY DEF LoopFrame

\* The fields of a sort.
LEMMA SortFields ==
    ASSUME NEW f \in SortFrame
    PROVE  /\ f.kind = "sort" /\ f.compare \in BOOLEAN /\ f.direction \in Int /\ f.calls \in BOOLEAN
           /\ f.todo \in Seq(Ranges) /\ f.part \in Seq(Parts) /\ f.start \in Seq(Slot)
           /\ f.alone \in BOOLEAN /\ f.honest \in BOOLEAN
           /\ Len(f.todo) \in Nat /\ Len(f.part) \in Nat
BY DEF SortFrame

\* The ranges that are left to do.
LEMMA TodoIs ==
    ASSUME NEW f \in SortFrame, NEW m \in 1..Len(f.todo)
    PROVE  f.todo[m].p \in Nat /\ f.todo[m].r \in Int
<1>1. f.todo \in Seq(Ranges)
  BY SortFields
<1>2. f.todo[m] \in Ranges
  BY <1>1
<1> QED BY <1>2 DEF Ranges

\* The partition that is under way.
LEMMA PartIs ==
    ASSUME NEW f \in SortFrame, f.part # <<>>
    PROVE  /\ f.part[1].p \in Nat /\ f.part[1].r \in Int /\ f.part[1].x \in Slot
           /\ f.part[1].i \in Nat /\ f.part[1].j \in Int
           /\ f.part[1] \in Parts /\ Head(f.part) = f.part[1]
<1>1. f.part \in Seq(Parts)
  BY SortFields
<1>2. f.part[1] \in Parts /\ Head(f.part) = f.part[1]
  BY <1>1
<1> QED BY <1>2 DEF Parts

\* A loop that goes on.
LEMMA LoopMade ==
    ASSUME NEW f \in LoopFrame, NEW index \in Nat, NEW calls \in BOOLEAN, NEW taken \in SUBSET Nat, NEW kept \in SUBSET Nat,
           NEW g, g = [kind |-> f.kind, index |-> index, limit |-> f.limit, calls |-> calls, taken |-> taken, kept |-> kept]
    PROVE  g \in LoopFrame
BY DEF LoopFrame

\* The empty sequence is one of everything.
LEMMA NothingIs == ASSUME NEW S PROVE <<>> \in Seq(S)
OBVIOUS

\* What a sort is: the fields that change.
IsMade(g, f, calls, todo, part, start, alone, honest) ==
    /\ g \in SortFrame /\ g.kind = "sort" /\ g.compare = f.compare /\ g.direction = f.direction
    /\ g.calls = calls /\ g.todo = todo /\ g.part = part /\ g.start = start /\ g.alone = alone
    /\ g.honest = honest

\* A sort whose calls changes.
LEMMA CallsSet ==
    ASSUME NEW f \in SortFrame, NEW v \in BOOLEAN
    PROVE  IsMade([f EXCEPT !.calls = v], f, v, f.todo, f.part, f.start, f.alone, f.honest)
BY DEF SortFrame, IsMade

\* A sort whose todo changes.
LEMMA TodoSet ==
    ASSUME NEW f \in SortFrame, NEW v \in Seq(Ranges)
    PROVE  IsMade([f EXCEPT !.todo = v], f, f.calls, v, f.part, f.start, f.alone, f.honest)
BY DEF SortFrame, IsMade

\* A sort whose part changes.
LEMMA PartSet ==
    ASSUME NEW f \in SortFrame, NEW v \in Seq(Parts)
    PROVE  IsMade([f EXCEPT !.part = v], f, f.calls, f.todo, v, f.start, f.alone, f.honest)
BY DEF SortFrame, IsMade

\* A sort whose start changes.
LEMMA StartSet ==
    ASSUME NEW f \in SortFrame, NEW v \in Seq(Slot)
    PROVE  IsMade([f EXCEPT !.start = v], f, f.calls, f.todo, f.part, v, f.alone, f.honest)
BY DEF SortFrame, IsMade

\* A sort whose alone changes.
LEMMA AloneSet ==
    ASSUME NEW f \in SortFrame, NEW v \in BOOLEAN
    PROVE  IsMade([f EXCEPT !.alone = v], f, f.calls, f.todo, f.part, f.start, v, f.honest)
BY DEF SortFrame, IsMade

\* A sort whose honest changes.
LEMMA HonestSet ==
    ASSUME NEW f \in SortFrame, NEW v \in BOOLEAN
    PROVE  IsMade([f EXCEPT !.honest = v], f, f.calls, f.todo, f.part, f.start, f.alone, v)
BY DEF SortFrame, IsMade

\* A sort that is no longer alone with the array.
LEMMA AloneLost ==
    ASSUME NEW f \in SortFrame
    PROVE  IsMade([f EXCEPT !.alone = FALSE, !.start = <<>>, !.honest = FALSE], f, f.calls, f.todo, f.part, <<>>, FALSE, FALSE)
<1>1. PICK g1 : g1 = [f EXCEPT !.alone = FALSE]
  OBVIOUS
<1>2. IsMade(g1, f, f.calls, f.todo, f.part, f.start, FALSE, f.honest)
  BY <1>1, AloneSet, SortFields DEF IsMade
<1>3. PICK g2 : g2 = [g1 EXCEPT !.start = <<>>]
  OBVIOUS
<1>4. IsMade(g2, f, f.calls, f.todo, f.part, <<>>, FALSE, f.honest)
  <2>1. <<>> \in Seq(Slot) /\ g1 \in SortFrame
    BY <1>2, NothingIs DEF IsMade
  <2>2. IsMade(g2, g1, g1.calls, g1.todo, g1.part, <<>>, g1.alone, g1.honest)
    BY <1>3, <2>1, StartSet
  <2> QED BY <1>2, <2>2 DEF IsMade
<1>5. PICK g3 : g3 = [g2 EXCEPT !.honest = FALSE]
  OBVIOUS
<1>6. IsMade(g3, f, f.calls, f.todo, f.part, <<>>, FALSE, FALSE)
  BY <1>5, HonestSet, SortFields, <1>4 DEF IsMade
<1>7. [f EXCEPT !.alone = FALSE, !.start = <<>>, !.honest = FALSE] = g3
  BY <1>1, <1>3, <1>5
<1> QED BY <1>6, <1>7

\* A sort that begins with a range.
LEMMA RangeBegun ==
    ASSUME NEW f \in SortFrame, NEW todo \in Seq(Ranges), NEW part \in Seq(Parts)
    PROVE  IsMade([f EXCEPT !.todo = todo, !.part = part], f, f.calls, todo, part, f.start, f.alone, f.honest)
<1>1. PICK g1 : g1 = [f EXCEPT !.todo = todo]
  OBVIOUS
<1>2. IsMade(g1, f, f.calls, todo, f.part, f.start, f.alone, f.honest)
  BY <1>1, TodoSet, SortFields DEF IsMade
<1>3. PICK g2 : g2 = [g1 EXCEPT !.part = part]
  OBVIOUS
<1>4. IsMade(g2, f, f.calls, todo, part, f.start, f.alone, f.honest)
  BY <1>3, PartSet, SortFields, <1>2 DEF IsMade
<1>5. [f EXCEPT !.todo = todo, !.part = part] = g2
  BY <1>1, <1>3
<1> QED BY <1>4, <1>5

\* A sort that has compared.
LEMMA PartMoved ==
    ASSUME NEW f \in SortFrame, NEW part \in Seq(Parts), NEW honest \in BOOLEAN
    PROVE  IsMade([f EXCEPT !.calls = FALSE, !.part = part, !.honest = honest], f, FALSE, f.todo, part, f.start, f.alone, honest)
<1>1. PICK g1 : g1 = [f EXCEPT !.calls = FALSE]
  OBVIOUS
<1>2. IsMade(g1, f, FALSE, f.todo, f.part, f.start, f.alone, f.honest)
  BY <1>1, CallsSet, SortFields DEF IsMade
<1>3. PICK g2 : g2 = [g1 EXCEPT !.part = part]
  OBVIOUS
<1>4. IsMade(g2, f, FALSE, f.todo, part, f.start, f.alone, f.honest)
  BY <1>3, PartSet, SortFields, <1>2 DEF IsMade
<1>5. PICK g3 : g3 = [g2 EXCEPT !.honest = honest]
  OBVIOUS
<1>6. IsMade(g3, f, FALSE, f.todo, part, f.start, f.alone, honest)
  BY <1>5, HonestSet, SortFields, <1>4 DEF IsMade
<1>7. [f EXCEPT !.calls = FALSE, !.part = part, !.honest = honest] = g3
  BY <1>1, <1>3, <1>5
<1> QED BY <1>6, <1>7

\* A sort whose function has failed.
LEMMA PartFailed ==
    ASSUME NEW f \in SortFrame, NEW todo \in Seq(Ranges)
    PROVE  IsMade([f EXCEPT !.calls = FALSE, !.part = <<>>, !.honest = FALSE, !.todo = todo], f, FALSE, todo, <<>>, f.start, f.alone, FALSE)
<1>1. PICK g1 : g1 = [f EXCEPT !.calls = FALSE]
  OBVIOUS
<1>2. IsMade(g1, f, FALSE, f.todo, f.part, f.start, f.alone, f.honest)
  BY <1>1, CallsSet, SortFields DEF IsMade
<1>3. PICK g2 : g2 = [g1 EXCEPT !.part = <<>>]
  OBVIOUS
<1>4. IsMade(g2, f, FALSE, f.todo, <<>>, f.start, f.alone, f.honest)
  <2>1. <<>> \in Seq(Parts) /\ g1 \in SortFrame
    BY <1>2, NothingIs DEF IsMade
  <2>2. IsMade(g2, g1, g1.calls, g1.todo, <<>>, g1.start, g1.alone, g1.honest)
    BY <1>3, <2>1, PartSet
  <2> QED BY <1>2, <2>2 DEF IsMade
<1>5. PICK g3 : g3 = [g2 EXCEPT !.honest = FALSE]
  OBVIOUS
<1>6. IsMade(g3, f, FALSE, f.todo, <<>>, f.start, f.alone, FALSE)
  BY <1>5, HonestSet, SortFields, <1>4 DEF IsMade
<1>7. PICK g4 : g4 = [g3 EXCEPT !.todo = todo]
  OBVIOUS
<1>8. IsMade(g4, f, FALSE, todo, <<>>, f.start, f.alone, FALSE)
  BY <1>7, TodoSet, SortFields, <1>6 DEF IsMade
<1>9. [f EXCEPT !.calls = FALSE, !.part = <<>>, !.honest = FALSE, !.todo = todo] = g4
  BY <1>1, <1>3, <1>5, <1>7
<1> QED BY <1>8, <1>9

\* A sort that has ended a partition.
LEMMA PartEnded ==
    ASSUME NEW f \in SortFrame, NEW todo \in Seq(Ranges)
    PROVE  IsMade([f EXCEPT !.part = <<>>, !.todo = todo], f, f.calls, todo, <<>>, f.start, f.alone, f.honest)
<1>1. PICK g1 : g1 = [f EXCEPT !.part = <<>>]
  OBVIOUS
<1>2. IsMade(g1, f, f.calls, f.todo, <<>>, f.start, f.alone, f.honest)
  <2>1. <<>> \in Seq(Parts)
    BY NothingIs
  <2> QED BY <1>1, <2>1, PartSet
<1>3. PICK g2 : g2 = [g1 EXCEPT !.todo = todo]
  OBVIOUS
<1>4. IsMade(g2, f, f.calls, todo, <<>>, f.start, f.alone, f.honest)
  BY <1>3, TodoSet, SortFields, <1>2 DEF IsMade
<1>5. [f EXCEPT !.part = <<>>, !.todo = todo] = g2
  BY <1>1, <1>3
<1> QED BY <1>4, <1>5

\* A loop or a sort stays fine when the array becomes another in a block no smaller.
LEMMA WatchOK ==
    ASSUME BlockOK(data, length, high), NEW d, IsBlock(d), Size(d) >= Size(data), NEW n \in 0..Size(d),
           NEW f, FrameOK(f, data, length)
    PROVE  FrameOK(Watch(f, d, n), d, n)
<1>1. Size(data) \in Nat /\ Size(d) \in Nat
  BY BlockIs DEF BlockOK
<1>2. CASE IsLoop(f, data, length)
  <2>1. f \in LoopFrame /\ f.kind # "sort"
    BY <1>2 DEF IsLoop, LoopFrame
  <2>2. PICK g : g = [f EXCEPT !.kept = f.kept \cap Defined(d, n)]
    OBVIOUS
  <2>3. Watch(f, d, n) = g
    BY <2>1, <2>2 DEF Watch
  <2>4. /\ g \in LoopFrame /\ g.limit = f.limit /\ g.index = f.index /\ g.calls = f.calls /\ g.taken = f.taken
        /\ g.kept = f.kept \cap Defined(d, n)
    BY <2>1, <2>2 DEF LoopFrame
  <2>5. f.limit <= Size(d)
    BY <1>1, <1>2, <2>1 DEF IsLoop, LoopFrame
  <2>6. IsLoop(g, d, n)
    BY <1>2, <2>4, <2>5 DEF IsLoop
  <2> QED BY <2>3, <2>6 DEF FrameOK
<1>3. CASE IsSort(f, data, length)
  <2>1. f \in SortFrame /\ f.kind = "sort"
    BY <1>3 DEF IsSort, SortFrame
  <2>2. CASE d = data /\ n = length
    BY <1>3, <2>1, <2>2 DEF Watch, FrameOK
  <2>3. CASE ~(d = data /\ n = length)
    <3>1. PICK g : g = [f EXCEPT !.alone = FALSE, !.start = <<>>, !.honest = FALSE]
      OBVIOUS
    <3>2. Watch(f, d, n) = g
      BY <2>1, <2>3, <3>1 DEF Watch
    <3>3. g \in SortFrame /\ g.todo = f.todo /\ g.part = f.part /\ g.calls = f.calls /\ ~g.alone
      <4>1. IsMade(g, f, f.calls, f.todo, f.part, <<>>, FALSE, FALSE)
        BY <2>1, <3>1, AloneLost
      <4> QED BY <4>1 DEF IsMade
    <3>4. ASSUME NEW m \in 1..Len(f.todo) PROVE f.todo[m].r < Size(d)
      <4>1. f.todo[m].r < Size(data)
        BY <1>3 DEF IsSort
      <4>2. f.todo[m].r \in Int
        BY <2>1, TodoIs
      <4> QED BY <1>1, <4>1, <4>2
    <3>5. f.part # <<>> => Len(f.part) = 1 /\ InPart(f.part[1], Size(d))
      <4> SUFFICES ASSUME f.part # <<>> PROVE Len(f.part) = 1 /\ InPart(f.part[1], Size(d))
        OBVIOUS
      <4>1. Len(f.part) = 1 /\ InPart(f.part[1], Size(data))
        BY <1>3 DEF IsSort
      <4>2. f.part[1].r \in Int
        BY <2>1, PartIs
      <4> QED BY <1>1, <4>1, <4>2 DEF InPart
    <3>6. IsSort(g, d, n)
      BY <1>3, <3>3, <3>4, <3>5 DEF IsSort
    <3> QED BY <3>2, <3>6 DEF FrameOK
  <2> QED BY <2>2, <2>3
<1> QED BY <1>2, <1>3 DEF FrameOK

\* So do all of them.
LEMMA WatchedOK ==
    ASSUME BlockOK(data, length, high), NEW d, IsBlock(d), Size(d) >= Size(data), NEW n \in 0..Size(d),
           NEW fs, FramesOK(fs, data, length)
    PROVE  FramesOK(Watched(fs, d, n), d, n)
<1>1. fs \in Seq(Frame) /\ \A k \in 1..Len(fs) : FrameOK(fs[k], data, length)
  BY DEF FramesOK
<1>2. PICK gs : gs = Watched(fs, d, n)
  OBVIOUS
<1>3. gs = [k \in 1..Len(fs) |-> Watch(fs[k], d, n)]
  BY <1>1, <1>2 DEF Watched
<1>4. \A k \in 1..Len(fs) : FrameOK(gs[k], d, n)
  BY <1>1, <1>3, WatchOK
<1>5. \A k \in 1..Len(fs) : gs[k] \in Frame
  BY <1>4, FrameIs
<1>6. gs \in Seq(Frame) /\ Len(gs) = Len(fs)
  <2>1. Len(fs) \in Nat
    BY <1>1
  <2>2. gs \in [1..Len(fs) -> Frame]
    BY <1>3, <1>5
  <2> QED BY <2>1, <2>2
<1> QED BY <1>2, <1>4, <1>6 DEF FramesOK

\* What a sort still has to do lies below whatever is higher, and methods leave it alone.
LEMMA WatchInReach ==
    ASSUME NEW f \in Frame, NEW h \in Int, InReach(f, h), NEW h2 \in Int, h <= h2, NEW d, NEW n
    PROVE  InReach(Watch(f, d, n), h2)
<1>1. CASE f \in LoopFrame
  <2>1. f.kind # "sort"
    BY <1>1, LoopFields
  <2>2. PICK g : g = [f EXCEPT !.kept = f.kept \cap Defined(d, n)]
    OBVIOUS
  <2>3. Watch(f, d, n) = g
    BY <2>1, <2>2 DEF Watch
  <2>4. g.kind = f.kind
    BY <1>1, <2>2 DEF LoopFrame
  <2> QED BY <2>1, <2>3, <2>4 DEF InReach
<1>2. CASE f \in SortFrame
  <2>1. \A m \in 1..Len(f.todo) : f.todo[m].r < h2
    <3> SUFFICES ASSUME NEW m \in 1..Len(f.todo) PROVE f.todo[m].r < h2
      OBVIOUS
    <3>1. f.todo[m].r < h
      BY <1>2, SortFields DEF InReach
    <3>2. f.todo[m].r \in Int
      BY <1>2, TodoIs
    <3> QED BY <3>1, <3>2
  <2>2. f.part # <<>> => f.part[1].r < h2
    <3> SUFFICES ASSUME f.part # <<>> PROVE f.part[1].r < h2
      OBVIOUS
    <3>1. f.part[1].r < h
      BY <1>2, SortFields DEF InReach
    <3>2. f.part[1].r \in Int
      BY <1>2, PartIs
    <3> QED BY <3>1, <3>2
  <2>3. CASE d = data /\ n = length
    <3>1. Watch(f, d, n) = f
      BY <1>2, <2>3, SortFields DEF Watch
    <3> QED BY <2>1, <2>2, <3>1 DEF InReach
  <2>4. CASE ~(d = data /\ n = length)
    <3>1. PICK g : g = [f EXCEPT !.alone = FALSE, !.start = <<>>, !.honest = FALSE]
      OBVIOUS
    <3>2. Watch(f, d, n) = g
      BY <1>2, <2>4, <3>1, SortFields DEF Watch
    <3>3. IsMade(g, f, f.calls, f.todo, f.part, <<>>, FALSE, FALSE)
      BY <1>2, <3>1, AloneLost
    <3>4. g.todo = f.todo /\ g.part = f.part
      BY <3>3 DEF IsMade
    <3> QED BY <2>1, <2>2, <3>2, <3>4 DEF InReach
  <2> QED BY <2>3, <2>4
<1> QED BY <1>1, <1>2 DEF Frame

\* The same for all of them.
LEMMA WatchedInReach ==
    ASSUME NEW fs \in Seq(Frame), NEW h \in Int, AllInReach(fs, h), NEW h2 \in Int, h <= h2, NEW d, NEW n
    PROVE  AllInReach(Watched(fs, d, n), h2)
<1>1. PICK gs : gs = Watched(fs, d, n)
  OBVIOUS
<1>2. Len(fs) \in Nat /\ gs = [k \in 1..Len(fs) |-> Watch(fs[k], d, n)]
  BY <1>1 DEF Watched
<1>3. \A k \in 1..Len(fs) : fs[k] \in Frame /\ InReach(fs[k], h)
  BY DEF AllInReach
<1>4. \A k \in 1..Len(fs) : InReach(Watch(fs[k], d, n), h2)
  BY <1>3, WatchInReach
<1>5. Len(gs) = Len(fs)
  BY <1>2
<1> QED BY <1>1, <1>2, <1>4, <1>5 DEF AllInReach

\* Without the innermost frame, and with another one.
LEMMA TailInReach ==
    ASSUME NEW fs \in Seq(Frame), fs # <<>>, NEW h, AllInReach(fs, h)
    PROVE  AllInReach(Tail(fs), h) /\ InReach(Head(fs), h)
<1>1. 1 \in 1..Len(fs) /\ Head(fs) = fs[1]
  BY HeadTail
<1>2. ASSUME NEW k \in 1..Len(Tail(fs)) PROVE InReach(Tail(fs)[k], h)
  <2>1. k + 1 \in 1..Len(fs) /\ Tail(fs)[k] = fs[k + 1]
    BY HeadTail
  <2> QED BY <2>1 DEF AllInReach
<1> QED BY <1>1, <1>2 DEF AllInReach

\* With one more frame.
LEMMA PushedInReach ==
    ASSUME NEW fs \in Seq(Frame), NEW h, AllInReach(fs, h), NEW f \in Frame, InReach(f, h)
    PROVE  AllInReach(<<f>> \o fs, h)
<1>1. PICK gs : gs = <<f>> \o fs
  OBVIOUS
<1>2. Len(fs) \in Nat /\ Len(gs) = Len(fs) + 1 /\ gs[1] = f /\ \A k \in 2..(Len(fs) + 1) : gs[k] = fs[k - 1]
  BY <1>1, Pushed
<1>3. ASSUME NEW k \in 1..Len(gs) PROVE InReach(gs[k], h)
  <2>1. CASE k = 1
    BY <1>2, <2>1
  <2>2. CASE k # 1
    <3>1. k \in 2..(Len(fs) + 1) /\ k - 1 \in 1..Len(fs)
      BY <1>2, <2>2
    <3>2. gs[k] = fs[k - 1]
      BY <1>2, <3>1
    <3> QED BY <3>1, <3>2 DEF AllInReach
  <2> QED BY <2>1, <2>2
<1> QED BY <1>1, <1>3 DEF AllInReach

\* The invariant after a step that leaves the array as it is.
LEMMA ArrayStays ==
    ASSUME Inv, UNCHANGED <<data, length, high>>, FramesOK(frames', data, length), AllInReach(frames', high)
    PROVE  Inv'
<1>1. PICK gs, d, n, h : gs = frames' /\ d = data /\ n = length /\ h = high
  OBVIOUS
<1>2. d = data' /\ n = length' /\ h = high'
  BY <1>1
<1>3. BlockOK(d, n, h) /\ FramesOK(gs, d, n) /\ AllInReach(gs, h)
  BY <1>1 DEF Inv
<1> QED BY <1>1, <1>2, <1>3 DEF Inv

\* The invariant after a method has changed the array.
LEMMA ArrayBecomes ==
    ASSUME Inv, NEW d, IsBlock(d), Size(d) >= Size(data), NEW n \in 0..Size(d), NEW reach \in n..Size(d),
           \A k \in 0..(Size(d) - 1) : k >= high /\ k >= reach => d[k] = Undefined,
           NEW fs, FramesOK(fs, data, length), AllInReach(fs, high),
           Reach(d, n, reach), frames' = Watched(fs, d, n)
    PROVE  Inv'
<1>1. PICK s \in Nat, h \in Nat : s = Size(d) /\ h = high /\ h <= s
  <2>1. Size(d) \in Nat /\ Size(data) \in Nat
    BY BlockIs DEF Inv, BlockOK
  <2> QED BY <2>1 DEF Inv, BlockOK
<1>2. PICK h2 : h2 = high'
  OBVIOUS
<1>3. h2 \in n..s /\ h2 >= h /\ h2 >= reach
  BY <1>1, <1>2 DEF Reach, Larger
<1>4. BlockOK(d, n, h2)
  BY <1>1, <1>3 DEF BlockOK
<1>5. PICK gs : gs = frames'
  OBVIOUS
<1>6. FramesOK(gs, d, n)
  BY <1>5, WatchedOK DEF Inv
<1>7. data' = d /\ length' = n
  BY DEF Reach
<1>8. AllInReach(gs, h2)
  <2>1. fs \in Seq(Frame)
    BY DEF FramesOK
  <2>2. h2 \in Int /\ h \in Int /\ h <= h2 /\ AllInReach(fs, h)
    BY <1>1, <1>3
  <2> QED BY <1>5, <2>1, <2>2, WatchedInReach
<1> QED BY <1>2, <1>4, <1>5, <1>6, <1>7, <1>8 DEF Inv
-----------------------------------------------------------------------------
(***************************************************************************)
(* What methods make of the block and of the length.                        *)
(***************************************************************************)

\* A block and a length that an array may come to have, with elements below reach
CanBecome(d, n, reach) ==
    /\ IsBlock(d) /\ Size(d) >= Size(data) /\ n \in 0..Size(d) /\ reach \in n..Size(d)
    /\ \A k \in 0..(Size(d) - 1) : k >= high /\ k >= reach => d[k] = Undefined

\* What the invariant says of the array.
LEMMA ArrayIs ==
    ASSUME Inv
    PROVE  /\ IsBlock(data) /\ Size(data) \in Nat /\ length \in Nat /\ high \in Nat
           /\ length <= high /\ high <= Size(data) /\ DOMAIN data = 0..(Size(data) - 1)
           /\ \A k \in 0..(Size(data) - 1) : data[k] \in Slot
           /\ \A k \in high..(Size(data) - 1) : data[k] = Undefined
           /\ data = [k \in 0..(Size(data) - 1) |-> data[k]]
           /\ BlockOK(data, length, high) /\ FramesOK(frames, data, length) /\ frames \in Seq(Frame)
           /\ AllInReach(frames, high)
<1>1. IsBlock(data)
  BY DEF Inv, BlockOK
<1>2. Size(data) \in Nat
  BY <1>1, BlockIs
<1>3. length \in 0..Size(data) /\ high \in length..Size(data)
  BY DEF Inv, BlockOK
<1> QED BY <1>1, <1>2, <1>3, BlockIs DEF Inv, BlockOK, FramesOK

\* The values of arguments, and of sequences of them.
LEMMA ItemsAre ==
    ASSUME NEW items \in Inputs
    PROVE  IsSequence(items) /\ Len(items) \in Nat /\ items \in Seq(Value) /\ \A k \in 1..Len(items) : items[k] \in Slot
<1>1. items \in Seq(Value)
  BY ArgumentAssumption
<1> QED BY <1>1 DEF Slot, IsSequence

\* A method's change keeps the invariant.
LEMMA MutatesOK ==
    ASSUME Inv, NEW op, NEW args, NEW gives, NEW d, NEW n, Mutates(op, args, d, n, gives), CanBecome(d, n, n)
    PROVE  Inv'
BY ArrayBecomes, ArrayIs DEF Mutates, CanBecome, Become

\* So does a method's answer.
LEMMA AnsweredOK ==
    ASSUME Inv, NEW op, NEW args, NEW gives, Answered(op, args, gives)
    PROVE  Inv'
BY ArrayStays DEF Answered, Inv

\* An array that grows (growArray).
LEMMA GrownIs ==
    ASSUME Inv, NEW n \in Int, NEW g, g = growArray(data, length, n)
    PROVE  /\ IsBlock(g) /\ Size(g) \in Nat /\ Size(g) >= Size(data) /\ Size(g) >= n
           /\ \A k \in 0..(length - 1) : g[k] = data[k]
           /\ \A k \in high..(Size(g) - 1) : g[k] = Undefined
           /\ \A k \in 0..(Size(g) - 1) : g[k] \in Slot
<1>1. /\ IsBlock(g) /\ Size(g) >= Size(data) /\ Size(g) >= n
      /\ \A k \in 0..(length - 1) : g[k] = data[k]
      /\ \A k \in length..(Size(g) - 1) : g[k] = Undefined \/ (k < Size(data) /\ g[k] = data[k])
  <2>1. IsBlock(data) /\ length \in 0..Size(data)
    BY ArrayIs
  <2> QED BY <2>1, Grows
<1>2. Size(g) \in Nat /\ \A k \in 0..(Size(g) - 1) : g[k] \in Slot
  BY <1>1, BlockIs
<1>3. ASSUME NEW k \in high..(Size(g) - 1) PROVE g[k] = Undefined
  <2>1. length \in Nat /\ high \in Nat /\ length <= high /\ Size(data) \in Nat
    BY ArrayIs
  <2>2. k \in length..(Size(g) - 1)
    BY <1>2, <2>1
  <2>3. k < Size(data) => data[k] = Undefined
    <3> SUFFICES ASSUME k < Size(data) PROVE data[k] = Undefined
      OBVIOUS
    <3>1. k \in high..(Size(data) - 1)
      BY <2>1
    <3> QED BY <3>1, ArrayIs
  <2> QED BY <1>1, <2>2, <2>3
<1> QED BY <1>1, <1>2, <1>3

\* An element is set (ejsSetArrayProperty).
LEMMA SetIs ==
    ASSUME Inv, NEW i \in Int, NEW v \in Slot
    PROVE  LET d == setData(i, v)
               j == checkSlot(i)
               n == Larger(length, j + 1)
           IN  /\ j \in Nat /\ CanBecome(d, n, n)
               /\ d[j] = v /\ \A k \in 0..(length - 1) : k # j => d[k] = data[k]
               /\ \A k \in high..(n - 1) : k # j => d[k] = Undefined
<1>1. length \in Nat /\ high \in Nat /\ length <= high /\ Size(data) \in Nat
  BY ArrayIs
<1>2. PICK j \in Nat : j = checkSlot(i)
  BY <1>1 DEF checkSlot
<1>3. PICK n \in Nat : n = Larger(length, j + 1) /\ n >= length /\ n >= j + 1 /\ (n = length \/ n = j + 1)
  BY <1>1, <1>2 DEF Larger
<1>4. PICK g : g = growArray(data, length, j + 1)
  OBVIOUS
<1>5. /\ IsBlock(g) /\ Size(g) \in Nat /\ Size(g) >= Size(data) /\ Size(g) >= j + 1
      /\ \A k \in 0..(length - 1) : g[k] = data[k]
      /\ \A k \in high..(Size(g) - 1) : g[k] = Undefined
  BY <1>4, GrownIs
<1>6. PICK d : d = Put(g, j, v)
  OBVIOUS
<1>7. IsBlock(d) /\ Size(d) = Size(g) /\ \A k \in 0..(Size(g) - 1) : d[k] = IF k = j THEN v ELSE g[k]
  <2>1. j \in 0..(Size(g) - 1)
    BY <1>5
  <2> QED BY <1>5, <1>6, <2>1, SlotSet
<1>8. n <= Size(g)
  <2>1. length <= Size(data)
    BY <1>1, ArrayIs
  <2> QED BY <1>1, <1>3, <1>5, <2>1
<1>9. CanBecome(d, n, n)
  <2>1. ASSUME NEW k \in 0..(Size(d) - 1), k >= high, k >= n PROVE d[k] = Undefined
    <3>1. k # j /\ k \in high..(Size(g) - 1)
      BY <1>1, <1>3, <1>7, <2>1
    <3> QED BY <1>5, <1>7, <3>1
  <2> QED BY <1>5, <1>7, <1>8, <2>1 DEF CanBecome
<1>10. d[j] = v /\ \A k \in 0..(length - 1) : k # j => d[k] = data[k]
  <2>1. ASSUME NEW k \in 0..(length - 1), k # j PROVE d[k] = data[k]
    <3>1. k \in 0..(Size(g) - 1)
      BY <1>1, <1>3, <1>8, <1>5
    <3> QED BY <1>5, <1>7, <2>1, <3>1
  <2>2. j \in 0..(Size(g) - 1)
    BY <1>5
  <2> QED BY <1>7, <2>1, <2>2
<1>11. \A k \in high..(n - 1) : k # j => d[k] = Undefined
  <2> SUFFICES ASSUME NEW k \in high..(n - 1), k # j PROVE d[k] = Undefined
    OBVIOUS
  <2>1. k \in 0..(Size(g) - 1) /\ k \in high..(Size(g) - 1)
    BY <1>1, <1>3, <1>8, <1>5
  <2> QED BY <1>5, <1>7, <2>1
<1>12. d = setData(i, v)
  BY <1>2, <1>4, <1>6 DEF setData, Put
<1> QED BY <1>2, <1>3, <1>9, <1>10, <1>11, <1>12

\* An element is deleted (deleteArrayProperty).
LEMMA DeletedIs ==
    ASSUME Inv, NEW i \in 0..(length - 1)
    PROVE  LET d == [data EXCEPT ![i] = Undefined]
               n == IF i + 1 = length THEN length - 1 ELSE length
           IN  CanBecome(d, n, n) /\ \A k \in 0..(length - 1) : d[k] = IF k = i THEN Undefined ELSE data[k]
<1>1. length \in Nat /\ high \in Nat /\ length <= high /\ Size(data) \in Nat /\ high <= Size(data) /\ IsBlock(data)
  BY ArrayIs
<1>2. PICK n : n = IF i + 1 = length THEN length - 1 ELSE length
  OBVIOUS
<1>3. n \in Nat /\ n <= length /\ i \in 0..(Size(data) - 1)
  BY <1>1, <1>2
<1>4. PICK d : d = Put(data, i, Undefined)
  OBVIOUS
<1>5. Undefined \in Slot
  BY ElementAssumption DEF Slot
<1>6. IsBlock(d) /\ Size(d) = Size(data) /\ \A k \in 0..(Size(data) - 1) : d[k] = IF k = i THEN Undefined ELSE data[k]
  <2>1. i \in 0..(Size(data) - 1) /\ IsBlock(data)
    BY <1>1, <1>3
  <2> QED BY <1>4, <1>5, <2>1, SlotSet
<1>7. CanBecome(d, n, n)
  <2>1. ASSUME NEW k \in 0..(Size(d) - 1), k >= high PROVE d[k] = Undefined
    <3>1. k \in high..(Size(data) - 1) /\ k \in 0..(Size(data) - 1)
      BY <1>1, <1>6, <2>1
    <3>2. data[k] = Undefined
      BY <3>1, ArrayIs
    <3> QED BY <1>6, <3>1, <3>2
  <2> QED BY <1>1, <1>3, <1>6, <2>1 DEF CanBecome
<1>8. \A k \in 0..(length - 1) : d[k] = IF k = i THEN Undefined ELSE data[k]
  <2>1. 0..(length - 1) \subseteq 0..(Size(data) - 1)
    BY <1>1
  <2> QED BY <1>6, <2>1
<1>9. d = [data EXCEPT ![i] = Undefined]
  BY <1>4 DEF Put
<1> QED BY <1>2, <1>7, <1>8, <1>9, Zenon

\* Elements are put behind the others (pushArray).
LEMMA PushedIs ==
    ASSUME Inv, NEW items \in Inputs, NEW n, n = length + Len(items),
           NEW d, d = CopyIn(growArray(data, length, n), length, items)
    PROVE  /\ CanBecome(d, n, n) /\ \A k \in 0..(length - 1) : d[k] = data[k]
           /\ \A k \in length..(n - 1) : d[k] = items[k - length + 1]
<1>1. length \in Nat /\ high \in Nat /\ length <= high /\ Size(data) \in Nat
  BY ArrayIs
<1>2. IsSequence(items) /\ Len(items) \in Nat /\ \A k \in 1..Len(items) : items[k] \in Slot
  BY ItemsAre
<1>3. n \in Nat /\ n >= length
  BY <1>1, <1>2
<1>4. PICK g : g = growArray(data, length, n)
  OBVIOUS
<1>5. /\ IsBlock(g) /\ Size(g) \in Nat /\ Size(g) >= Size(data) /\ Size(g) >= n
      /\ \A k \in 0..(length - 1) : g[k] = data[k]
      /\ \A k \in high..(Size(g) - 1) : g[k] = Undefined
  <2>1. n \in Int
    BY <1>3
  <2> QED BY <1>4, <2>1, GrownIs
<1>6. PICK l \in Nat : l = length
  BY <1>1
<1>7. /\ IsBlock(d) /\ Size(d) = Size(g)
      /\ \A k \in 0..(Size(g) - 1) : d[k] = IF l <= k /\ k < l + Len(items) THEN items[k - l + 1] ELSE g[k]
  BY <1>2, <1>4, <1>5, <1>6, CopiedIn
<1>8. \A k \in 0..(length - 1) : d[k] = data[k]
  <2> SUFFICES ASSUME NEW k \in 0..(length - 1) PROVE d[k] = data[k]
    OBVIOUS
  <2>1. k \in 0..(Size(g) - 1) /\ ~(l <= k)
    BY <1>1, <1>3, <1>5, <1>6
  <2> QED BY <1>5, <1>7, <2>1
<1>9. \A k \in length..(n - 1) : d[k] = items[k - length + 1]
  <2> SUFFICES ASSUME NEW k \in length..(n - 1) PROVE d[k] = items[k - length + 1]
    OBVIOUS
  <2>1. k \in 0..(Size(g) - 1) /\ l <= k /\ k < l + Len(items)
    BY <1>1, <1>2, <1>3, <1>5, <1>6
  <2> QED BY <1>6, <1>7, <2>1
<1>10. CanBecome(d, n, n)
  <2>1. ASSUME NEW k \in 0..(Size(d) - 1), k >= high, k >= n PROVE d[k] = Undefined
    <3>1. k \in high..(Size(g) - 1) /\ k \in 0..(Size(g) - 1) /\ ~(k < l + Len(items))
      BY <1>1, <1>2, <1>3, <1>6, <1>7, <2>1
    <3> QED BY <1>5, <1>7, <3>1
  <2> QED BY <1>3, <1>5, <1>7, <2>1 DEF CanBecome
<1> QED BY <1>8, <1>9, <1>10

\* The first element is taken out (shiftArray).
LEMMA ShiftedIs ==
    ASSUME Inv, length # 0, NEW d, d = MoveDown(data, 0, length - 2, 1)
    PROVE  CanBecome(d, length - 1, length - 1) /\ \A k \in 0..(length - 2) : d[k] = data[k + 1]
<1>1. length \in Nat /\ high \in Nat /\ length <= high /\ Size(data) \in Nat /\ high <= Size(data) /\ IsBlock(data)
  BY ArrayIs
<1>2. PICK l \in Nat : l = length /\ l # 0
  BY <1>1
<1>3. PICK b : b = data
  OBVIOUS
<1>4. IsBlock(b) /\ Size(b) \in Nat /\ d = MoveDown(b, 0, l - 2, 1) /\ l - 2 \in Int
  BY <1>1, <1>2, <1>3
<1>5. /\ IsBlock(d) /\ Size(d) = Size(b)
      /\ \A k \in 0..(Size(b) - 1) : d[k] = IF 0 <= k /\ k <= l - 2 THEN Read(b, k + 1) ELSE b[k]
  BY <1>4, MovedDown
<1>6. \A k \in 0..(l - 2) : d[k] = b[k + 1]
  <2> SUFFICES ASSUME NEW k \in 0..(l - 2) PROVE d[k] = b[k + 1]
    OBVIOUS
  <2>1. k \in 0..(Size(b) - 1) /\ k + 1 \in 0..(Size(b) - 1) /\ 0 <= k /\ k <= l - 2
    BY <1>1, <1>2, <1>3
  <2>2. Read(b, k + 1) = b[k + 1]
    BY <1>4, <2>1, ReadIs
  <2> QED BY <1>5, <2>1, <2>2
<1>7. CanBecome(d, l - 1, l - 1)
  <2>1. ASSUME NEW k \in 0..(Size(d) - 1), k >= high PROVE d[k] = Undefined
    <3>1. k \in high..(Size(data) - 1) /\ k \in 0..(Size(b) - 1) /\ ~(k <= l - 2)
      BY <1>1, <1>2, <1>3, <1>5, <2>1
    <3>2. data[k] = Undefined
      BY <3>1, ArrayIs
    <3> QED BY <1>3, <1>5, <3>1, <3>2
  <2> QED BY <1>1, <1>2, <1>3, <1>5, <2>1 DEF CanBecome
<1> QED BY <1>2, <1>3, <1>6, <1>7

\* Elements are put in between the others (ejsInsertItems, unshiftArray).
LEMMA InsertedIs ==
    ASSUME Inv, NEW items \in Inputs, NEW n, n = length + Len(items), NEW pos \in 0..length,
           NEW d, d = Inserted(pos, items)
    PROVE  /\ CanBecome(d, n, n) /\ \A k \in 0..(pos - 1) : d[k] = data[k]
           /\ \A k \in pos..(pos + Len(items) - 1) : d[k] = items[k - pos + 1]
           /\ \A k \in (pos + Len(items))..(n - 1) : d[k] = data[k - Len(items)]
<1>1. length \in Nat /\ high \in Nat /\ length <= high /\ Size(data) \in Nat
  BY ArrayIs
<1>2. IsSequence(items) /\ Len(items) \in Nat /\ \A k \in 1..Len(items) : items[k] \in Slot
  BY ItemsAre
<1>3. n \in Nat /\ n >= length /\ pos \in Nat
  BY <1>1, <1>2
<1>4. PICK g : g = growArray(data, length, n)
  OBVIOUS
<1>5. /\ IsBlock(g) /\ Size(g) \in Nat /\ Size(g) >= Size(data) /\ Size(g) >= n
      /\ \A k \in 0..(length - 1) : g[k] = data[k]
      /\ \A k \in high..(Size(g) - 1) : g[k] = Undefined
  <2>1. n \in Int
    BY <1>3
  <2> QED BY <1>4, <2>1, GrownIs
<1>6. PICK l \in Nat : l = Len(items)
  BY <1>2
<1>7. PICK m : m = MoveUp(g, pos + l, n - 1, l)
  OBVIOUS
<1>8. /\ IsBlock(m) /\ Size(m) = Size(g)
      /\ \A k \in 0..(Size(g) - 1) : m[k] = IF pos + l <= k /\ k <= n - 1 THEN g[k - l] ELSE g[k]
  <2>1. PICK first \in Nat, last \in Int : first = pos + l /\ last = n - 1
    BY <1>3, <1>6
  <2>2. last < Size(g) /\ l <= first
    BY <1>3, <1>5, <1>6, <2>1
  <2>3. m = MoveUp(g, first, last, l)
    BY <1>7, <2>1
  <2>4. /\ IsBlock(m) /\ Size(m) = Size(g)
        /\ \A k \in 0..(Size(g) - 1) : m[k] = IF first <= k /\ k <= last THEN g[k - l] ELSE g[k]
    <3>1. IsBlock(g) /\ first \in Nat /\ last \in Int /\ last < Size(g) /\ l \in Nat /\ l <= first
      BY <1>5, <2>1, <2>2
    <3> QED BY <2>3, <3>1, MovedUp
  <2> QED BY <2>1, <2>4
<1>9. d = CopyIn(m, pos, items)
  BY <1>4, <1>6, <1>7 DEF Inserted
<1>10. /\ IsBlock(d) /\ Size(d) = Size(g)
       /\ \A k \in 0..(Size(g) - 1) : d[k] = IF pos <= k /\ k < pos + l THEN items[k - pos + 1] ELSE m[k]
  <2>1. /\ IsBlock(d) /\ Size(d) = Size(m)
        /\ \A k \in 0..(Size(m) - 1) : d[k] = IF pos <= k /\ k < pos + Len(items) THEN items[k - pos + 1] ELSE m[k]
    BY <1>2, <1>3, <1>8, <1>9, CopiedIn
  <2> QED BY <1>6, <1>8, <2>1
<1>11. ASSUME NEW k \in 0..(pos - 1) PROVE d[k] = data[k]
  <2>1. k \in 0..(Size(g) - 1) /\ k \in 0..(length - 1) /\ ~(pos <= k) /\ ~(pos + l <= k)
    BY <1>1, <1>3, <1>5, <1>6
  <2> QED BY <1>5, <1>8, <1>10, <2>1
<1>12. ASSUME NEW k \in pos..(pos + Len(items) - 1) PROVE d[k] = items[k - pos + 1]
  <2>1. k \in 0..(Size(g) - 1) /\ pos <= k /\ k < pos + l
    BY <1>1, <1>3, <1>5, <1>6
  <2> QED BY <1>10, <2>1
<1>13. ASSUME NEW k \in (pos + Len(items))..(n - 1) PROVE d[k] = data[k - Len(items)]
  <2>1. /\ k \in 0..(Size(g) - 1) /\ ~(k < pos + l) /\ pos + l <= k /\ k <= n - 1
        /\ k - l \in 0..(length - 1)
    BY <1>1, <1>3, <1>5, <1>6
  <2> QED BY <1>5, <1>6, <1>8, <1>10, <2>1
<1>14. CanBecome(d, n, n)
  <2>1. ASSUME NEW k \in 0..(Size(d) - 1), k >= high, k >= n PROVE d[k] = Undefined
    <3>1. k \in high..(Size(g) - 1) /\ k \in 0..(Size(g) - 1) /\ ~(k < pos + l) /\ ~(k <= n - 1)
      BY <1>1, <1>3, <1>5, <1>6, <1>10, <2>1
    <3> QED BY <1>5, <1>8, <1>10, <3>1
  <2> QED BY <1>3, <1>5, <1>10, <2>1 DEF CanBecome
<1> QED BY <1>11, <1>12, <1>13, <1>14

\* Elements are taken out and others put in their place (spliceArray).
LEMMA SplicedIs ==
    ASSUME Inv, NEW items \in Inputs, NEW from \in 0..(length - 1), NEW count \in 0..length,
           NEW n, n = length + Len(items) - count, from + Len(items) <= Larger(Size(data), n),
           NEW d, d = Spliced(from, count, items)
    PROVE  /\ CanBecome(d, n, Larger(n, from + Len(items)))
           /\ count <= length - from =>
                /\ \A k \in 0..(from - 1) : d[k] = data[k]
                /\ \A k \in from..(from + Len(items) - 1) : d[k] = items[k - from + 1]
                /\ \A k \in (from + Len(items))..(n - 1) : d[k] = data[k - Len(items) + count]
<1>1. length \in Nat /\ high \in Nat /\ length <= high /\ Size(data) \in Nat /\ high <= Size(data)
  BY ArrayIs
<1>2. IsSequence(items) /\ Len(items) \in Nat /\ \A k \in 1..Len(items) : items[k] \in Slot
  BY ItemsAre
<1>3. PICK l \in Nat : l = Len(items)
  BY <1>2
<1>4. n \in Nat /\ from \in Nat /\ count \in Nat /\ n = length + l - count
  BY <1>1, <1>3
<1>5. PICK delta \in Int : delta = l - count
  BY <1>4
<1>6. CASE delta > 0
  <2>1. PICK g : g = growArray(data, length, n)
    OBVIOUS
  <2>2. /\ IsBlock(g) /\ Size(g) \in Nat /\ Size(g) >= Size(data) /\ Size(g) >= n
        /\ \A k \in 0..(length - 1) : g[k] = data[k]
        /\ \A k \in high..(Size(g) - 1) : g[k] = Undefined
    <3>1. n \in Int
      BY <1>4
    <3> QED BY <2>1, <3>1, GrownIs
  <2>3. PICK m : m = MoveUp(g, from + delta, n - 1, delta)
    OBVIOUS
  <2>4. /\ IsBlock(m) /\ Size(m) = Size(g)
        /\ \A k \in 0..(Size(g) - 1) : m[k] = IF from + delta <= k /\ k <= n - 1 THEN g[k - delta] ELSE g[k]
    <3>1. PICK first \in Nat, last \in Int, up \in Nat : first = from + delta /\ last = n - 1 /\ up = delta
      <4>1. from + delta \in Nat /\ n - 1 \in Int /\ delta \in Nat
        BY <1>4, <1>5, <1>6
      <4> QED BY <4>1
    <3>2. last < Size(g) /\ up <= first
      BY <1>4, <2>2, <3>1
    <3>3. m = MoveUp(g, first, last, up)
      BY <2>3, <3>1
    <3>4. /\ IsBlock(m) /\ Size(m) = Size(g)
          /\ \A k \in 0..(Size(g) - 1) : m[k] = IF first <= k /\ k <= last THEN g[k - up] ELSE g[k]
      <4>1. IsBlock(g) /\ first \in Nat /\ last \in Int /\ last < Size(g) /\ up \in Nat /\ up <= first
        BY <2>2, <3>1, <3>2
      <4> QED BY <3>3, <4>1, MovedUp
    <3> QED BY <3>1, <3>4
  <2>5. d = CopyIn(m, from, items)
    <3>1. length + delta = n
      BY <1>1, <1>4, <1>5
    <3> QED BY <1>3, <1>5, <1>6, <2>1, <2>3, <3>1 DEF Spliced
  <2>6. /\ IsBlock(d) /\ Size(d) = Size(g)
        /\ \A k \in 0..(Size(g) - 1) : d[k] = IF from <= k /\ k < from + l THEN items[k - from + 1] ELSE m[k]
    <3>1. /\ IsBlock(d) /\ Size(d) = Size(m)
          /\ \A k \in 0..(Size(m) - 1) : d[k] = IF from <= k /\ k < from + Len(items) THEN items[k - from + 1] ELSE m[k]
      BY <1>2, <1>4, <2>4, <2>5, CopiedIn
    <3> QED BY <1>3, <2>4, <3>1
  <2>7. PICK reach \in Nat : /\ reach = Larger(n, from + Len(items)) /\ reach >= n /\ reach >= from + l
                             /\ reach <= Size(g)
    BY <1>1, <1>3, <1>4, <2>2 DEF Larger
  <2>8. CanBecome(d, n, reach)
    <3>1. ASSUME NEW k \in 0..(Size(d) - 1), k >= high, k >= reach PROVE d[k] = Undefined
      <4>0. k \in Nat /\ Size(d) = Size(g)
        BY <2>6, <3>1
      <4>1. k \in high..(Size(g) - 1) /\ k \in 0..(Size(g) - 1) /\ ~(k < from + l) /\ ~(k <= n - 1)
        BY <1>1, <1>3, <1>4, <2>2, <2>7, <3>1, <4>0
      <4> QED BY <2>2, <2>4, <2>6, <4>1
    <3> QED BY <1>4, <2>2, <2>6, <2>7, <3>1 DEF CanBecome
  <2>9. ASSUME count <= length - from, NEW k \in 0..(from - 1) PROVE d[k] = data[k]
    <3>1. k \in 0..(Size(g) - 1) /\ k \in 0..(length - 1) /\ ~(from <= k) /\ ~(from + delta <= k)
      BY <1>1, <1>4, <1>6, <2>2
    <3> QED BY <2>2, <2>4, <2>6, <3>1
  <2>10. ASSUME count <= length - from, NEW k \in from..(from + Len(items) - 1) PROVE d[k] = items[k - from + 1]
    <3>1. k \in 0..(Size(g) - 1) /\ from <= k /\ k < from + l
      BY <1>1, <1>3, <1>4, <2>2, <2>10
    <3> QED BY <2>6, <3>1
  <2>11. ASSUME count <= length - from, NEW k \in (from + Len(items))..(n - 1) PROVE d[k] = data[k - Len(items) + count]
    <3>1. /\ k \in 0..(Size(g) - 1) /\ ~(k < from + l) /\ from + delta <= k /\ k <= n - 1
          /\ k - delta \in 0..(length - 1) /\ k - delta = k - Len(items) + count
      BY <1>1, <1>3, <1>4, <1>5, <1>6, <2>2
    <3> QED BY <2>2, <2>4, <2>6, <3>1
  <2> QED BY <2>7, <2>8, <2>9, <2>10, <2>11
<1>7. CASE ~(delta > 0)
  <2>1. PICK b : b = data
    OBVIOUS
  <2>2. IsBlock(b) /\ Size(b) \in Nat
    BY <2>1, ArrayIs
  <2>3. PICK c : c = CopyIn(b, from, items)
    OBVIOUS
  <2>4. /\ IsBlock(c) /\ Size(c) = Size(b)
        /\ \A k \in 0..(Size(b) - 1) : c[k] = IF from <= k /\ k < from + Len(items) THEN items[k - from + 1] ELSE b[k]
    <3>1. from \in Int
      BY <1>4
    <3> QED BY <1>2, <2>2, <2>3, <3>1, CopiedIn
  <2>5. PICK e \in Nat, last \in Int : e = -delta /\ last = length - 1
    BY <1>1, <1>7
  <2>6. d = MoveDown(c, from + l, last, e)
    BY <1>3, <1>5, <1>7, <2>1, <2>3, <2>5 DEF Spliced
  <2>7. /\ IsBlock(d) /\ Size(d) = Size(b)
        /\ \A k \in 0..(Size(b) - 1) : d[k] = IF from + l <= k /\ k <= last THEN Read(c, k + e) ELSE c[k]
    <3>1. from + l \in Int
      BY <1>4
    <3>2. /\ IsBlock(d) /\ Size(d) = Size(c)
          /\ \A k \in 0..(Size(c) - 1) : d[k] = IF from + l <= k /\ k <= last THEN Read(c, k + e) ELSE c[k]
      BY <2>4, <2>6, <3>1, MovedDown
    <3> QED BY <2>4, <3>2
  <2>8. n <= length
    BY <1>1, <1>4, <1>5, <1>7
  <2>9. PICK reach \in Nat : /\ reach = Larger(n, from + Len(items)) /\ reach >= n /\ reach >= from + l
                             /\ reach <= Size(b)
    <3>1. PICK end \in Nat : end = from + l /\ end = from + Len(items)
      BY <1>3, <1>4
    <3>2. n \in Nat /\ n <= Size(b) /\ end <= Size(b)
      BY <1>1, <1>3, <1>4, <2>1, <2>8, <3>1 DEF Larger
    <3>3. Larger(n, end) \in Nat /\ Larger(n, end) >= n /\ Larger(n, end) >= end /\ Larger(n, end) <= Size(b)
      BY <2>2, <3>1, <3>2 DEF Larger
    <3> QED BY <3>1, <3>3
  <2>10. CanBecome(d, n, reach)
    <3>1. ASSUME NEW k \in 0..(Size(d) - 1), k >= high, k >= reach PROVE d[k] = Undefined
      <4>1. k \in high..(Size(data) - 1) /\ k \in 0..(Size(b) - 1) /\ ~(k < from + Len(items)) /\ ~(k <= last)
        BY <1>1, <1>3, <1>4, <2>1, <2>5, <2>7, <2>9, <3>1
      <4>2. data[k] = Undefined
        BY <4>1, ArrayIs
      <4> QED BY <2>1, <2>4, <2>7, <4>1, <4>2
    <3> QED BY <1>4, <2>1, <2>2, <2>7, <2>9, <3>1 DEF CanBecome
  <2>11. ASSUME count <= length - from, NEW k \in 0..(from - 1) PROVE d[k] = data[k]
    <3>1. k \in 0..(Size(b) - 1) /\ ~(from <= k) /\ ~(from + l <= k)
      BY <1>1, <1>4, <2>1
    <3> QED BY <2>1, <2>4, <2>7, <3>1
  <2>12. ASSUME count <= length - from, NEW k \in from..(from + Len(items) - 1) PROVE d[k] = items[k - from + 1]
    <3>1. k \in 0..(Size(b) - 1) /\ from <= k /\ k < from + Len(items) /\ ~(from + l <= k)
      BY <1>1, <1>3, <1>4, <1>5, <1>7, <2>1, <2>12
    <3> QED BY <2>4, <2>7, <3>1
  <2>13. ASSUME count <= length - from, NEW k \in (from + Len(items))..(n - 1) PROVE d[k] = data[k - Len(items) + count]
    <3>1. /\ k \in 0..(Size(b) - 1) /\ from + l <= k /\ k <= last /\ k + e \in 0..(Size(b) - 1)
          /\ ~(k + e < from + Len(items)) /\ k + e = k - Len(items) + count
      BY <1>1, <1>3, <1>4, <1>5, <1>7, <2>1, <2>5, <2>8
    <3>2. Read(c, k + e) = c[k + e]
      BY <2>4, <3>1, ReadIs
    <3>3. c[k + e] = b[k + e]
      BY <2>4, <3>1
    <3> QED BY <2>1, <2>7, <3>1, <3>2, <3>3
  <2> QED BY <2>9, <2>10, <2>11, <2>12, <2>13
<1> QED BY <1>6, <1>7

\* The elements change their order (reverseArray).
LEMMA ReversedIs ==
    ASSUME Inv, NEW d, d = [k \in DOMAIN data |-> IF k < length THEN data[length - 1 - k] ELSE data[k]]
    PROVE  CanBecome(d, length, length) /\ \A k \in 0..(length - 1) : d[k] = data[length - 1 - k]
<1>1. length \in Nat /\ high \in Nat /\ length <= high /\ Size(data) \in Nat /\ high <= Size(data) /\ IsBlock(data)
  BY ArrayIs
<1>0. PICK b : b = data
  OBVIOUS
<1>2. PICK l \in Nat, m \in Nat : l = length /\ m = Size(data) /\ b = data /\ l <= m
  BY <1>0, <1>1
<1>3. DOMAIN b = 0..(m - 1) /\ \A k \in 0..(m - 1) : b[k] \in Slot
  BY <1>2, ArrayIs
<1>4. d = [k \in 0..(m - 1) |-> IF k < l THEN b[l - 1 - k] ELSE b[k]]
  BY <1>2, <1>3
<1>5. d = [k \in 0..(m - 1) |-> d[k]]
  BY <1>4
<1>6. \A k \in 0..(m - 1) : d[k] \in Slot
  <2> SUFFICES ASSUME NEW k \in 0..(m - 1) PROVE d[k] \in Slot
    OBVIOUS
  <2>1. k < l => l - 1 - k \in 0..(m - 1)
    BY <1>2
  <2> QED BY <1>3, <1>4, <2>1
<1>7. IsBlock(d) /\ Size(d) = m
  BY <1>5, <1>6, BlockOf
<1>8. CanBecome(d, l, l)
  <2>1. ASSUME NEW k \in 0..(Size(d) - 1), k >= high PROVE d[k] = Undefined
    <3>1. k \in high..(Size(data) - 1) /\ k \in 0..(m - 1) /\ ~(k < l)
      BY <1>1, <1>2, <1>7, <2>1
    <3>2. data[k] = Undefined
      BY <3>1, ArrayIs
    <3> QED BY <1>2, <1>4, <3>1, <3>2
  <2> QED BY <1>1, <1>2, <1>7, <2>1 DEF CanBecome
<1>9. \A k \in 0..(l - 1) : d[k] = b[l - 1 - k]
  <2> SUFFICES ASSUME NEW k \in 0..(l - 1) PROVE d[k] = b[l - 1 - k]
    OBVIOUS
  <2>1. k \in 0..(m - 1) /\ k < l
    BY <1>2
  <2> QED BY <1>4, <2>1
<1> QED BY <1>2, <1>8, <1>9

-----------------------------------------------------------------------------
(***************************************************************************)
(* Recursions, as in the loops that remove elements.                        *)
(***************************************************************************)

\* Some numbers have a least.
LEMMA Least ==
    ASSUME NEW S \in SUBSET Nat, S # {}
    PROVE  \E m \in S : \A k \in S : m <= k
<1> DEFINE R == OpToRel(<, Nat)
<1>1. IsWellFoundedOn(R, Nat)
  BY NatLessThanWellFounded
<1>2. \A x, y \in Nat : x < y => <<x, y>> \in R
  BY DEF OpToRel
<1> HIDE DEF R
<1>3. PICK x \in S : \A y \in S : ~(<<y, x>> \in R)
  BY <1>1, WFMin
<1>4. \A y \in S : y \in Nat /\ x \in Nat /\ ~(y < x)
  BY <1>2, <1>3
<1> QED BY <1>3, <1>4

\* What holds of 0, and of a number after it held of the one before, holds up to n.
LEMMA UpTo ==
    ASSUME NEW n \in Nat, NEW S, 0 \in S, \A i \in 1..n : i - 1 \in S => i \in S
    PROVE  0..n \subseteq S
<1> SUFFICES ASSUME 0..n \ S # {} PROVE FALSE
  OBVIOUS
<1> DEFINE T == 0..n \ S
<1>0. T \in SUBSET Nat /\ T # {}
  OBVIOUS
<1> HIDE DEF T
<1>1. PICK m \in T : \A k \in T : m <= k
  BY <1>0, Least
<1> USE DEF T
<1>2. m \in 1..n /\ m - 1 \in 0..n
  BY <1>1
<1>3. m - 1 \in S
  BY <1>1, <1>2
<1> QED BY <1>1, <1>2, <1>3

Recurs(t, base, step, n) == t[0] = base /\ \A i \in 1..n : t[i] = step[<<t[i - 1], i>>]
\* A recursion over 0..n has values.
LEMMA Recursion ==
    ASSUME NEW n \in Nat, NEW S, NEW base \in S, NEW step \in [S \X (1..n) -> S]
    PROVE  \E t \in [0..n -> S] : Recurs(t, base, step, n)
<1> DEFINE Rec(m, t) == t \in [0..m -> S] /\ t[0] = base /\ \A i \in 1..m : t[i] = step[<<t[i - 1], i>>]
           T == {m \in 0..n : \E t : Rec(m, t)}
<1>1. 0 \in T
  <2> DEFINE t == [i \in 0..0 |-> base]
  <2>1. Rec(0, t)
    OBVIOUS
  <2>2. 0 \in 0..n
    OBVIOUS
  <2> HIDE DEF Rec, t
  <2> QED BY <2>1, <2>2
<1>2. ASSUME NEW m \in 1..n, m - 1 \in T PROVE m \in T
  <2>1. PICK t : Rec(m - 1, t)
    BY <1>2
  <2> DEFINE u == [i \in 0..m |-> IF i = m THEN step[<<t[m - 1], m>>] ELSE t[i]]
  <2>2. \A i \in 0..m : i # m => i \in 0..(m - 1)
    OBVIOUS
  <2>3. t[m - 1] \in S
    <3>1. m - 1 \in 0..(m - 1)
      OBVIOUS
    <3> QED BY <2>1, <3>1
  <2>4. step[<<t[m - 1], m>>] \in S
    BY <2>3
  <2>5. \A i \in 0..m : u[i] \in S
    BY <2>1, <2>2, <2>4
  <2>6. u \in [0..m -> S]
    BY <2>5
  <2>7. u[0] = base
    <3>1. 0 # m /\ 0 \in 0..m
      OBVIOUS
    <3> QED BY <2>1, <3>1
  <2>8. ASSUME NEW i \in 1..m PROVE u[i] = step[<<u[i - 1], i>>]
    <3>1. i - 1 \in 0..m /\ i - 1 # m /\ i \in 0..m
      OBVIOUS
    <3>2. u[i - 1] = t[i - 1]
      BY <3>1
    <3>3. CASE i = m
      BY <3>1, <3>2, <3>3
    <3>4. CASE i # m
      <4>1. i \in 1..(m - 1)
        BY <3>4
      <4>2. u[i] = t[i]
        BY <3>1, <3>4
      <4> QED BY <2>1, <3>2, <4>1, <4>2
    <3> QED BY <3>3, <3>4
  <2> HIDE DEF u
  <2>9. Rec(m, u)
    BY <2>6, <2>7, <2>8
  <2> QED BY <2>9
<1> HIDE DEF T
<1>3. 0..n \subseteq T
  BY <1>1, <1>2, UpTo
<1>4. n \in T
  BY <1>3
<1> USE DEF T
<1> QED BY <1>4 DEF Recurs

-----------------------------------------------------------------------------
(***************************************************************************)
(* Elements that are left.                                                  *)
(***************************************************************************)
Lefts(m) == [d : Block(m), n : 0..m]

\* What is left of p is q, and f says where it was
IsLeft(p, q, f) ==
    /\ q.n <= p.n /\ f \in [0..(q.n - 1) -> 0..(p.n - 1)]
    /\ \A j, k \in 0..(q.n - 1) : j < k => f[j] < f[k]
    /\ \A k \in 0..(q.n - 1) : q.d[k] = p.d[f[k]]
    /\ \A k \in p.n..(Size(p.d) - 1) : q.d[k] = p.d[k]
Chosen(f, n) == {f[k] : k \in 0..(n - 1)}
Here(p, v) == \E k \in 0..(p.n - 1) : p.d[k] = v

\* The fields of what is left.
LEMMA LeftFields ==
    ASSUME NEW m \in Nat, NEW p \in Lefts(m)
    PROVE  /\ p.d \in Block(m) /\ p.n \in 0..m /\ p.n \in Nat /\ IsBlock(p.d) /\ Size(p.d) = m
           /\ \A k \in 0..(m - 1) : p.d[k] \in Slot
<1>1. p.d \in Block(m) /\ p.n \in 0..m
  BY DEF Lefts
<1> QED BY <1>1, SizeIs, BlockIs DEF IsBlock, Block

\* A block and how many elements of it are left.
LEMMA LeftIs ==
    ASSUME NEW m \in Nat, NEW d \in Block(m), NEW n \in 0..m, NEW p, p = Left(d, n)
    PROVE  p \in Lefts(m) /\ p.d = d /\ p.n = n
BY DEF Left, Lefts

\* Nothing is taken out.
LEMMA LeftAll ==
    ASSUME NEW m \in Nat, NEW p \in Lefts(m), NEW f, f = [k \in 0..(p.n - 1) |-> k]
    PROVE  IsLeft(p, p, f) /\ Chosen(f, p.n) = 0..(p.n - 1)
<1>1. PICK n \in Nat : n = p.n
  BY LeftFields
<1>2. f \in [0..(n - 1) -> 0..(n - 1)]
  BY <1>1
<1> QED BY <1>1, <1>2 DEF IsLeft, Chosen

\* One element is taken out.
LEMMA WithoutIs ==
    ASSUME NEW m \in Nat, NEW p \in Lefts(m), NEW i \in 0..(p.n - 1), NEW q, q = Without(p, i),
           NEW f, f = [k \in 0..(p.n - 2) |-> IF k < i THEN k ELSE k + 1]
    PROVE  /\ q \in Lefts(m) /\ q.n = p.n - 1 /\ IsLeft(p, q, f)
           /\ Chosen(f, p.n - 1) = 0..(p.n - 1) \ {i}
           /\ \A k \in 0..(i - 1) : q.d[k] = p.d[k]
<1>1. PICK n \in Nat : n = p.n /\ n <= m
  BY LeftFields
<1>2. PICK b : b = p.d
  OBVIOUS
<1>3. IsBlock(b) /\ Size(b) = m /\ i \in Int /\ n - 2 \in Int /\ i \in 0..(n - 1)
  BY <1>1, <1>2, LeftFields
<1>4. PICK e : e = MoveDown(b, i, n - 2, 1)
  OBVIOUS
<1>5. PICK last \in Int : last = n - 2
  BY <1>3
<1>6. /\ IsBlock(e) /\ Size(e) = m
      /\ \A k \in 0..(m - 1) : e[k] = IF i <= k /\ k <= last THEN Read(b, k + 1) ELSE b[k]
  <2>1. e = MoveDown(b, i, last, 1)
    BY <1>4, <1>5
  <2>2. /\ IsBlock(e) /\ Size(e) = Size(b)
        /\ \A k \in 0..(Size(b) - 1) : e[k] = IF i <= k /\ k <= last THEN Read(b, k + 1) ELSE b[k]
    BY <1>3, <1>5, <2>1, MovedDown
  <2> QED BY <1>3, <2>2
<1>7. \A k \in 0..(n - 2) : e[k] = b[IF k < i THEN k ELSE k + 1]
  <2> SUFFICES ASSUME NEW k \in 0..(n - 2) PROVE e[k] = b[IF k < i THEN k ELSE k + 1]
    OBVIOUS
  <2>1. k \in 0..(m - 1) /\ k + 1 \in 0..(m - 1) /\ k <= last
    BY <1>1, <1>3, <1>5
  <2>2. Read(b, k + 1) = b[k + 1]
    BY <1>3, <2>1, ReadIs
  <2>3. k < i <=> ~(i <= k)
    BY <1>3
  <2> QED BY <1>6, <2>1, <2>2, <2>3
<1>8. e \in Block(m)
  BY <1>6, BlockIs
<1>9. q \in Lefts(m) /\ q.d = e /\ q.n = n - 1
  <2>1. n - 1 \in 0..m
    BY <1>1, <1>3
  <2>2. q = Left(e, n - 1)
    BY <1>1, <1>2, <1>4 DEF Without
  <2> QED BY <1>8, <2>1, <2>2, LeftIs
<1>10. f = [k \in 0..(n - 2) |-> IF k < i THEN k ELSE k + 1]
  BY <1>1
<1>11. f \in [0..(n - 2) -> 0..(n - 1)] /\ \A k \in 0..(n - 2) : f[k] = IF k < i THEN k ELSE k + 1
  <2>1. \A k \in 0..(n - 2) : (IF k < i THEN k ELSE k + 1) \in 0..(n - 1)
    BY <1>3
  <2> QED BY <1>10, <2>1
<1>12. \A j, k \in 0..(n - 2) : j < k => f[j] < f[k]
  BY <1>3, <1>11
<1>13. {f[k] : k \in 0..(n - 2)} = 0..(n - 1) \ {i}
  <2>1. ASSUME NEW k \in 0..(n - 2) PROVE f[k] \in 0..(n - 1) \ {i}
    BY <1>3, <1>11
  <2>2. ASSUME NEW j \in 0..(n - 1), j # i PROVE \E k \in 0..(n - 2) : f[k] = j
    <3>1. CASE j < i
      <4>1. j \in 0..(n - 2) /\ f[j] = j
        BY <1>3, <1>11, <3>1
      <4> QED BY <4>1
    <3>2. CASE ~(j < i)
      <4>1. j - 1 \in 0..(n - 2) /\ f[j - 1] = j
        BY <1>3, <1>11, <2>2, <3>2
      <4> QED BY <4>1
    <3> QED BY <3>1, <3>2
  <2>3. {f[k] : k \in 0..(n - 2)} \subseteq 0..(n - 1) \ {i}
    BY <2>1, Zenon
  <2>4. 0..(n - 1) \ {i} \subseteq {f[k] : k \in 0..(n - 2)}
    BY <2>2, Zenon
  <2> QED BY <2>3, <2>4, Zenon
<1>14. \A k \in n..(m - 1) : e[k] = b[k]
  <2> SUFFICES ASSUME NEW k \in n..(m - 1) PROVE e[k] = b[k]
    OBVIOUS
  <2>1. k \in 0..(m - 1) /\ ~(k <= last)
    BY <1>1, <1>5
  <2> QED BY <1>6, <2>1
<1>15. \A k \in 0..(i - 1) : e[k] = b[k]
  <2> SUFFICES ASSUME NEW k \in 0..(i - 1) PROVE e[k] = b[k]
    OBVIOUS
  <2>1. k \in 0..(m - 1) /\ ~(i <= k)
    BY <1>1, <1>3
  <2> QED BY <1>6, <2>1
<1>16. q.n - 1 = n - 2 /\ p.n - 1 = n - 1 /\ p.n - 2 = n - 2 /\ (n - 1) - 1 = n - 2
  BY <1>1, <1>9
<1>17. \A k \in 0..(n - 2) : q.d[k] = p.d[f[k]]
  BY <1>2, <1>7, <1>9, <1>11
<1>18. IsLeft(p, q, f)
  <2>1. q.n <= p.n /\ f \in [0..(q.n - 1) -> 0..(p.n - 1)]
    BY <1>1, <1>9, <1>11, <1>16
  <2>2. \A j, k \in 0..(q.n - 1) : j < k => f[j] < f[k]
    BY <1>12, <1>16
  <2>3. \A k \in 0..(q.n - 1) : q.d[k] = p.d[f[k]]
    BY <1>16, <1>17
  <2>4. \A k \in p.n..(Size(p.d) - 1) : q.d[k] = p.d[k]
    BY <1>1, <1>2, <1>3, <1>9, <1>14
  <2> QED BY <2>1, <2>2, <2>3, <2>4 DEF IsLeft
<1>19. Chosen(f, p.n - 1) = 0..(p.n - 1) \ {i}
  BY <1>1, <1>13, <1>16 DEF Chosen
<1> QED BY <1>1, <1>2, <1>9, <1>15, <1>18, <1>19

\* Where what is left of what is left was
Through(f, g, n) == [k \in 0..(n - 1) |-> f[g[k]]]

\* What is missing at last was missing before or is missing now
MissesOf(p, q, r, f, g, h) ==
    /\ \A k \in 0..(p.n - 1) : k \notin Chosen(h, r.n) =>
            k \notin Chosen(f, q.n) \/ \E j \in 0..(q.n - 1) : j \notin Chosen(g, r.n) /\ k = f[j]
    /\ \A k \in 0..(p.n - 1) : k \notin Chosen(f, q.n) => k \notin Chosen(h, r.n)
    /\ \A j \in 0..(q.n - 1) : j \notin Chosen(g, r.n) => f[j] \notin Chosen(h, r.n)

\* What is left of what is left.
LEMMA LeftOfLeft ==
    ASSUME NEW m \in Nat, NEW p \in Lefts(m), NEW q \in Lefts(m), NEW r \in Lefts(m), NEW f, NEW g,
           IsLeft(p, q, f), IsLeft(q, r, g), NEW h, h = Through(f, g, r.n)
    PROVE  IsLeft(p, r, h) /\ MissesOf(p, q, r, f, g, h)
<1>1. PICK a \in Nat, b \in Nat, c \in Nat : a = p.n /\ b = q.n /\ c = r.n /\ a <= m /\ b <= m
  BY LeftFields
<1>2. /\ b <= a /\ f \in [0..(b - 1) -> 0..(a - 1)]
      /\ \A j, k \in 0..(b - 1) : j < k => f[j] < f[k]
      /\ \A k \in 0..(b - 1) : q.d[k] = p.d[f[k]]
      /\ \A k \in a..(m - 1) : q.d[k] = p.d[k]
  BY <1>1, LeftFields DEF IsLeft
<1>3. /\ c <= b /\ g \in [0..(c - 1) -> 0..(b - 1)]
      /\ \A j, k \in 0..(c - 1) : j < k => g[j] < g[k]
      /\ \A k \in 0..(c - 1) : r.d[k] = q.d[g[k]]
      /\ \A k \in b..(m - 1) : r.d[k] = q.d[k]
  BY <1>1, LeftFields DEF IsLeft
<1>4. h = [k \in 0..(c - 1) |-> f[g[k]]]
  BY <1>1 DEF Through
<1>5. \A k \in 0..(c - 1) : g[k] \in 0..(b - 1) /\ h[k] = f[g[k]] /\ h[k] \in 0..(a - 1)
  BY <1>2, <1>3, <1>4
<1>6. h \in [0..(c - 1) -> 0..(a - 1)]
  BY <1>4, <1>5
<1>7. \A j, k \in 0..(c - 1) : j < k => h[j] < h[k]
  <2> SUFFICES ASSUME NEW j \in 0..(c - 1), NEW k \in 0..(c - 1), j < k PROVE h[j] < h[k]
    OBVIOUS
  <2>1. g[j] \in 0..(b - 1) /\ g[k] \in 0..(b - 1) /\ g[j] < g[k] /\ h[j] = f[g[j]] /\ h[k] = f[g[k]]
    BY <1>3, <1>5
  <2> QED BY <1>2, <2>1
<1>8. \A k \in 0..(c - 1) : r.d[k] = p.d[h[k]]
  <2> SUFFICES ASSUME NEW k \in 0..(c - 1) PROVE r.d[k] = p.d[h[k]]
    OBVIOUS
  <2>1. g[k] \in 0..(b - 1) /\ h[k] = f[g[k]] /\ r.d[k] = q.d[g[k]]
    BY <1>3, <1>5
  <2> QED BY <1>2, <2>1
<1>9. \A k \in a..(m - 1) : r.d[k] = p.d[k]
  <2> SUFFICES ASSUME NEW k \in a..(m - 1) PROVE r.d[k] = p.d[k]
    OBVIOUS
  <2>1. k \in b..(m - 1)
    BY <1>1, <1>2
  <2> QED BY <1>2, <1>3, <2>1
<1>10. IsLeft(p, r, h)
  <2>1. c <= a
    BY <1>1, <1>2, <1>3
  <2> QED BY <1>1, <1>6, <1>7, <1>8, <1>9, <2>1, LeftFields DEF IsLeft
<1>11. ASSUME NEW k \in 0..(a - 1), k \notin Chosen(h, c), k \in Chosen(f, b)
       PROVE  \E j \in 0..(b - 1) : j \notin Chosen(g, c) /\ k = f[j]
  <2>1. PICK j \in 0..(b - 1) : k = f[j]
    BY <1>11 DEF Chosen
  <2>2. j \notin Chosen(g, c)
    <3> SUFFICES ASSUME j \in Chosen(g, c) PROVE FALSE
      OBVIOUS
    <3>1. PICK i \in 0..(c - 1) : j = g[i]
      BY DEF Chosen
    <3>2. h[i] = k
      BY <1>5, <2>1, <3>1
    <3> QED BY <1>11, <3>2 DEF Chosen
  <2> QED BY <2>1, <2>2
<1>12. ASSUME NEW k \in 0..(a - 1), k \notin Chosen(f, b) PROVE k \notin Chosen(h, c)
  <2> SUFFICES ASSUME k \in Chosen(h, c) PROVE FALSE
    OBVIOUS
  <2>1. PICK i \in 0..(c - 1) : k = h[i]
    BY DEF Chosen
  <2>2. k = f[g[i]] /\ g[i] \in 0..(b - 1)
    BY <1>5, <2>1
  <2> QED BY <1>12, <2>2 DEF Chosen
<1>13. ASSUME NEW j \in 0..(b - 1), j \notin Chosen(g, c) PROVE f[j] \notin Chosen(h, c)
  <2> SUFFICES ASSUME f[j] \in Chosen(h, c) PROVE FALSE
    OBVIOUS
  <2>1. PICK i \in 0..(c - 1) : f[j] = h[i]
    BY DEF Chosen
  <2>2. f[j] = f[g[i]] /\ g[i] \in 0..(b - 1) /\ g[i] # j
    BY <1>5, <1>13, <2>1 DEF Chosen
  <2>3. j < g[i] \/ g[i] < j
    BY <2>2
  <2>4. f[j] \in Int /\ f[g[i]] \in Int
    BY <1>2, <2>2
  <2> QED BY <1>2, <2>2, <2>3, <2>4
<1> QED BY <1>1, <1>10, <1>11, <1>12, <1>13 DEF MissesOf

\* Some of the elements that were v are taken out, or there were none
Lacks(p, q, v, i) ==
    \E f : /\ IsLeft(p, q, f)
           /\ \A k \in 0..(p.n - 1) : k \notin Chosen(f, q.n) => p.d[k] = v
           /\ \/ q = p /\ \A k \in 0..(i - 1) : p.d[k] # v
              \/ q.n < p.n /\ \E k \in 0..(p.n - 1) : k \notin Chosen(f, q.n)

\* One slot more.
LEMMA LacksOne ==
    ASSUME NEW m \in Nat, NEW p \in Lefts(m), NEW q \in Lefts(m), NEW v, NEW i \in 1..p.n, Lacks(p, q, v, i - 1),
           NEW r, r = IF i <= q.n /\ q.d[i - 1] = v THEN Without(q, i - 1) ELSE q
    PROVE  r \in Lefts(m) /\ Lacks(p, r, v, i)
<1>1. PICK a \in Nat, b \in Nat : a = p.n /\ b = q.n /\ a <= m /\ b <= m
  BY LeftFields
<1>2. PICK f : /\ IsLeft(p, q, f)
               /\ \A k \in 0..(a - 1) : k \notin Chosen(f, b) => p.d[k] = v
               /\ \/ q = p /\ \A k \in 0..(i - 2) : p.d[k] # v
                  \/ b < a /\ \E k \in 0..(a - 1) : k \notin Chosen(f, b)
  <2>1. (i - 1) - 1 = i - 2
    BY <1>1
  <2> QED BY <1>1, <2>1 DEF Lacks
<1>3. CASE i <= q.n /\ q.d[i - 1] = v
  <2>1. PICK j \in Nat : j = i - 1 /\ j \in 0..(b - 1) /\ j \in 0..(q.n - 1)
    BY <1>1, <1>3
  <2>2. PICK g : g = [k \in 0..(q.n - 2) |-> IF k < j THEN k ELSE k + 1]
    OBVIOUS
  <2>3. r = Without(q, j)
    BY <1>3, <2>1
  <2>4. r \in Lefts(m) /\ r.n = q.n - 1 /\ IsLeft(q, r, g) /\ Chosen(g, q.n - 1) = 0..(q.n - 1) \ {j}
    BY <2>1, <2>2, <2>3, WithoutIs
  <2>5. r.n = b - 1 /\ Chosen(g, r.n) = 0..(b - 1) \ {j}
    BY <1>1, <2>4
  <2>6. PICK h : h = Through(f, g, r.n)
    OBVIOUS
  <2>7. /\ IsLeft(p, r, h)
        /\ \A k \in 0..(p.n - 1) : k \notin Chosen(h, r.n) =>
                k \notin Chosen(f, q.n) \/ \E l \in 0..(q.n - 1) : l \notin Chosen(g, r.n) /\ k = f[l]
        /\ \A l \in 0..(q.n - 1) : l \notin Chosen(g, r.n) => f[l] \notin Chosen(h, r.n)
    <3>1. IsLeft(p, r, h) /\ MissesOf(p, q, r, f, g, h)
      BY <1>2, <2>4, <2>6, LeftOfLeft
    <3> QED BY <3>1 DEF MissesOf
  <2>8. p.d[f[j]] = v /\ f[j] \in 0..(a - 1)
    <3>1. f \in [0..(b - 1) -> 0..(a - 1)] /\ q.d[j] = p.d[f[j]]
      BY <1>1, <1>2, <2>1 DEF IsLeft
    <3> QED BY <1>3, <2>1, <3>1
  <2>9. ASSUME NEW k \in 0..(a - 1), k \notin Chosen(h, r.n) PROVE p.d[k] = v
    <3>1. k \notin Chosen(f, b) \/ k = f[j]
      BY <1>1, <2>5, <2>7, <2>9
    <3> QED BY <1>2, <2>8, <3>1
  <2>10. f[j] \notin Chosen(h, r.n)
    BY <1>1, <2>1, <2>5, <2>7
  <2>11. b <= a
    BY <1>1, <1>2 DEF IsLeft
  <2>12. r.n < p.n
    BY <1>1, <2>5, <2>11
  <2>13. \E k \in 0..(p.n - 1) : k \notin Chosen(h, r.n)
    BY <1>1, <2>8, <2>10
  <2>14. \A k \in 0..(p.n - 1) : k \notin Chosen(h, r.n) => p.d[k] = v
    BY <1>1, <2>9
  <2> QED BY <2>4, <2>7, <2>12, <2>13, <2>14 DEF Lacks
<1>4. CASE ~(i <= q.n /\ q.d[i - 1] = v)
  <2>1. r = q
    BY <1>4
  <2>2. q = p /\ (\A k \in 0..(i - 2) : p.d[k] # v) => \A k \in 0..(i - 1) : p.d[k] # v
    <3> SUFFICES ASSUME q = p, \A k \in 0..(i - 2) : p.d[k] # v, NEW k \in 0..(i - 1) PROVE p.d[k] # v
      OBVIOUS
    <3>1. k \in 0..(i - 2) \/ k = i - 1
      BY <1>1
    <3>2. p.d[i - 1] # v
      BY <1>1, <1>4
    <3> QED BY <3>1, <3>2
  <2> QED BY <1>1, <1>2, <2>1, <2>2 DEF Lacks
<1> QED BY <1>3, <1>4

\* One pass over the slots (RemovePass).
LEMMA RemovePassIs ==
    ASSUME NEW m \in Nat, NEW p \in Lefts(m), NEW v, NEW r, r = RemovePass(p, v)
    PROVE  r \in Lefts(m) /\ Lacks(p, r, v, p.n)
<1> DEFINE Step(q, i) == IF i <= q.n /\ q.d[i - 1] = v THEN Without(q, i - 1) ELSE q
           Rec(n, t) == t = [i \in 0..n |-> IF i = 0 THEN p ELSE Step(t[i - 1], i)]
           R == CHOOSE t : Rec(p.n, t)
<1>1. r = R[p.n]
  BY DEF RemovePass
<1>2. PICK n \in Nat : n = p.n /\ n <= m
  BY LeftFields
<1>3. ASSUME NEW q \in Lefts(m), NEW i \in 1..n PROVE Step(q, i) \in Lefts(m)
  <2>1. CASE i <= q.n /\ q.d[i - 1] = v
    <3>1. PICK j \in Nat : j = i - 1 /\ j \in 0..(q.n - 1)
      BY <2>1, LeftFields
    <3> DEFINE g == [k \in 0..(q.n - 2) |-> IF k < j THEN k ELSE k + 1]
    <3>2. Without(q, j) \in Lefts(m)
      <4> HIDE DEF g
      <4>1. g = [k \in 0..(q.n - 2) |-> IF k < j THEN k ELSE k + 1]
        BY DEF g
      <4> QED BY <3>1, <4>1, WithoutIs
    <3> QED BY <2>1, <3>1, <3>2
  <2>2. CASE ~(i <= q.n /\ q.d[i - 1] = v)
    BY <2>2
  <2> QED BY <2>1, <2>2
<1>4. \A q \in Lefts(m), i \in 1..p.n : Lacks(p, q, v, i - 1) => Step(q, i) \in Lefts(m) /\ Lacks(p, Step(q, i), v, i)
  BY LacksOne
<1> HIDE DEF Step
<1>5. \E t : Rec(n, t)
  <2> DEFINE step == [x \in Lefts(m) \X (1..n) |-> Step(x[1], x[2])]
  <2>1. step \in [Lefts(m) \X (1..n) -> Lefts(m)]
    BY <1>3
  <2>2. \A q \in Lefts(m), i \in 1..n : step[<<q, i>>] = Step(q, i)
    OBVIOUS
  <2> HIDE DEF step
  <2>3. PICK t \in [0..n -> Lefts(m)] : t[0] = p /\ \A i \in 1..n : t[i] = step[<<t[i - 1], i>>]
    <3>1. \E t \in [0..n -> Lefts(m)] : Recurs(t, p, step, n)
      BY <1>2, <2>1, Recursion
    <3> QED BY <3>1 DEF Recurs
  <2>4. ASSUME NEW i \in 0..n PROVE t[i] = IF i = 0 THEN p ELSE Step(t[i - 1], i)
    <3>1. CASE i = 0
      BY <2>3, <3>1
    <3>2. CASE i # 0
      <4>1. i \in 1..n /\ i - 1 \in 0..n
        BY <3>2
      <4>2. t[i - 1] \in Lefts(m)
        BY <2>3, <4>1
      <4> QED BY <2>2, <2>3, <3>2, <4>1, <4>2
    <3> QED BY <3>1, <3>2
  <2>5. Rec(n, t)
    BY <2>3, <2>4
  <2> QED BY <2>5
<1>6. PICK t : t = R /\ Rec(n, t)
  <2>1. Rec(n, R)
    BY <1>2, <1>5
  <2> QED BY <2>1
<1>7. t[0] = p /\ \A i \in 1..n : t[i] = Step(t[i - 1], i)
  <2>1. ASSUME NEW i \in 1..n PROVE t[i] = Step(t[i - 1], i)
    <3>1. i \in 0..n /\ i # 0
      OBVIOUS
    <3> QED BY <1>6, <3>1
  <2>2. 0 \in 0..n
    OBVIOUS
  <2> QED BY <1>6, <2>1, <2>2
<1> HIDE DEF Rec, R
<1> DEFINE S == {i \in 0..n : t[i] \in Lefts(m) /\ Lacks(p, t[i], v, i)}
<1>8. 0 \in S
  <2>1. PICK f : f = [k \in 0..(p.n - 1) |-> k]
    OBVIOUS
  <2>2. IsLeft(p, p, f) /\ Chosen(f, p.n) = 0..(p.n - 1)
    BY <2>1, LeftAll
  <2>3. p.n \in Nat /\ 0..(0 - 1) = {}
    BY LeftFields
  <2>4. Lacks(p, p, v, 0)
    BY <2>2, <2>3 DEF Lacks
  <2> QED BY <1>7, <2>4
<1>9. ASSUME NEW i \in 1..n, i - 1 \in S PROVE i \in S
  <2>1. t[i - 1] \in Lefts(m) /\ Lacks(p, t[i - 1], v, i - 1) /\ t[i] = Step(t[i - 1], i) /\ i \in 1..p.n
    BY <1>2, <1>7, <1>9
  <2>2. t[i] \in Lefts(m) /\ Lacks(p, t[i], v, i)
    BY <1>4, <2>1
  <2> QED BY <2>2
<1> HIDE DEF S
<1>10. n \in S
  <2>1. 0..n \subseteq S
    BY <1>8, <1>9, UpTo
  <2> QED BY <2>1
<1> USE DEF S
<1> QED BY <1>1, <1>2, <1>6, <1>10

\* No two elements are equal
AllDiffer(p) == \A j, k \in 0..(p.n - 1) : p.d[j] = p.d[k] => j = k

\* Only elements are taken out that are among the first i to be removed; if any was
\* there then one, and if no two were equal then all
Stripped(p, q, elements, i) ==
    \E f : /\ IsLeft(p, q, f)
           /\ \A k \in 0..(p.n - 1) : k \notin Chosen(f, q.n) => \E e \in 1..i : p.d[k] = elements[e]
           /\ \/ q = p /\ \A k \in 0..(p.n - 1), e \in 1..i : p.d[k] # elements[e]
              \/ q.n < p.n
           /\ AllDiffer(p) => \A k \in 0..(q.n - 1), e \in 1..i : q.d[k] # elements[e]

\* One element more.
LEMMA StrippedOne ==
    ASSUME NEW m \in Nat, NEW p \in Lefts(m), NEW q \in Lefts(m), NEW elements, NEW i \in Nat, i > 0,
           Stripped(p, q, elements, i - 1), NEW r, r = RemovePass(q, elements[i])
    PROVE  r \in Lefts(m) /\ Stripped(p, r, elements, i)
<1>1. PICK a \in Nat, b \in Nat : a = p.n /\ b = q.n /\ a <= m /\ b <= m
  BY LeftFields
<1>2. PICK v : v = elements[i]
  OBVIOUS
<1>3. PICK f : /\ IsLeft(p, q, f)
               /\ \A k \in 0..(a - 1) : k \notin Chosen(f, b) => \E e \in 1..(i - 1) : p.d[k] = elements[e]
               /\ \/ q = p /\ \A k \in 0..(a - 1), e \in 1..(i - 1) : p.d[k] # elements[e]
                  \/ b < a
               /\ AllDiffer(p) => \A k \in 0..(b - 1), e \in 1..(i - 1) : q.d[k] # elements[e]
  BY <1>1 DEF Stripped
<1>4. r \in Lefts(m) /\ Lacks(q, r, v, q.n)
  BY <1>2, RemovePassIs
<1>5. PICK c \in Nat : c = r.n /\ c <= m
  BY <1>4, LeftFields
<1>6. PICK g : /\ IsLeft(q, r, g)
               /\ \A k \in 0..(b - 1) : k \notin Chosen(g, c) => q.d[k] = v
               /\ \/ r = q /\ \A k \in 0..(b - 1) : q.d[k] # v
                  \/ c < b /\ \E k \in 0..(b - 1) : k \notin Chosen(g, c)
  BY <1>1, <1>4, <1>5 DEF Lacks
<1>7. PICK h : h = Through(f, g, r.n)
  OBVIOUS
<1>8. /\ IsLeft(p, r, h)
      /\ \A k \in 0..(p.n - 1) : k \notin Chosen(h, r.n) =>
            k \notin Chosen(f, q.n) \/ \E j \in 0..(q.n - 1) : j \notin Chosen(g, r.n) /\ k = f[j]
  <2>1. IsLeft(p, q, f) /\ IsLeft(q, r, g) /\ r \in Lefts(m)
    BY <1>3, <1>4, <1>6
  <2>2. IsLeft(p, r, h) /\ MissesOf(p, q, r, f, g, h)
    BY <1>7, <2>1, LeftOfLeft
  <2> QED BY <2>2 DEF MissesOf
<1>9. /\ f \in [0..(b - 1) -> 0..(a - 1)] /\ \A k \in 0..(b - 1) : q.d[k] = p.d[f[k]]
      /\ b <= a /\ \A j, k \in 0..(b - 1) : j < k => f[j] < f[k]
  BY <1>1, <1>3 DEF IsLeft
<1>10. /\ g \in [0..(c - 1) -> 0..(b - 1)] /\ \A k \in 0..(c - 1) : r.d[k] = q.d[g[k]]
       /\ c <= b
  BY <1>1, <1>5, <1>6 DEF IsLeft
<1>11. ASSUME NEW k \in 0..(p.n - 1), k \notin Chosen(h, r.n) PROVE \E e \in 1..i : p.d[k] = elements[e]
  <2>1. CASE k \notin Chosen(f, q.n)
    <3>1. PICK e \in 1..(i - 1) : p.d[k] = elements[e]
      BY <1>1, <1>3, <2>1
    <3>2. e \in 1..i
      OBVIOUS
    <3> QED BY <3>1, <3>2
  <2>2. CASE \E j \in 0..(q.n - 1) : j \notin Chosen(g, r.n) /\ k = f[j]
    <3>1. PICK j \in 0..(b - 1) : j \notin Chosen(g, c) /\ k = f[j]
      BY <1>1, <1>5, <2>2
    <3>2. q.d[j] = v /\ q.d[j] = p.d[k]
      BY <1>6, <1>9, <3>1
    <3>3. i \in 1..i
      OBVIOUS
    <3> QED BY <1>2, <3>2, <3>3
  <2> QED BY <1>8, <1>11, <2>1, <2>2
<1>12. (r = p /\ \A k \in 0..(p.n - 1), e \in 1..i : p.d[k] # elements[e]) \/ r.n < p.n
  <2>1. CASE b < a
    BY <1>1, <1>5, <1>10, <2>1
  <2>2. CASE c < b
    BY <1>1, <1>5, <1>9, <2>2
  <2>3. CASE ~(b < a) /\ ~(c < b)
    <3>1. q = p /\ r = q /\ \A k \in 0..(a - 1) : p.d[k] # v
      BY <1>1, <1>3, <1>6, <2>3
    <3>2. ASSUME NEW k \in 0..(p.n - 1), NEW e \in 1..i PROVE p.d[k] # elements[e]
      <4>1. CASE e = i
        BY <1>1, <1>2, <3>1, <4>1
      <4>2. CASE e # i
        <5>1. e \in 1..(i - 1) /\ k \in 0..(a - 1)
          BY <1>1, <4>2
        <5> QED BY <1>3, <2>3, <5>1
      <4> QED BY <4>1, <4>2
    <3> QED BY <3>1, <3>2
  <2> QED BY <2>1, <2>2, <2>3
<1>13. ASSUME AllDiffer(p), NEW k \in 0..(r.n - 1), NEW e \in 1..i PROVE r.d[k] # elements[e]
  <2>1. k \in 0..(c - 1) /\ g[k] \in 0..(b - 1) /\ r.d[k] = q.d[g[k]]
    BY <1>5, <1>10
  <2>2. CASE e # i
    <3>1. e \in 1..(i - 1)
      BY <2>2
    <3> QED BY <1>3, <1>13, <2>1, <3>1
  <2>3. CASE e = i
    <3> SUFFICES ASSUME q.d[g[k]] = v PROVE FALSE
      BY <1>2, <2>1, <2>3
    <3>1. PICK j \in 0..(b - 1) : j \notin Chosen(g, c)
      BY <1>6, <2>1
    <3>2. q.d[j] = v /\ g[k] # j
      BY <1>6, <2>1, <3>1 DEF Chosen
    <3>3. p.d[f[j]] = p.d[f[g[k]]] /\ f[j] \in 0..(a - 1) /\ f[g[k]] \in 0..(a - 1)
      BY <1>9, <2>1, <3>2
    <3>4. f[j] = f[g[k]]
      BY <1>1, <1>13, <3>3 DEF AllDiffer
    <3>5. j < g[k] \/ g[k] < j
      BY <2>1, <3>2
    <3> QED BY <1>9, <2>1, <3>3, <3>4, <3>5
  <2> QED BY <2>2, <2>3
<1> QED BY <1>4, <1>8, <1>11, <1>12, <1>13 DEF Stripped

\* Elements are removed by their value (removeArrayElements).
LEMMA RemovedIs ==
    ASSUME Inv, NEW elements \in Inputs, NEW p, p = Left(data, length), NEW r, r = removeArrayElements(elements)
    PROVE  p \in Lefts(Size(data)) /\ r \in Lefts(Size(data)) /\ Stripped(p, r, elements, Len(elements))
<1> DEFINE Step(q, i) == RemovePass(q, elements[i])
           Rec(n, t) == t = [i \in 0..n |-> IF i = 0 THEN p ELSE Step(t[i - 1], i)]
           R == CHOOSE t : Rec(Len(elements), t)
<1>1. r = R[Len(elements)]
  BY DEF removeArrayElements
<1>2. PICK n \in Nat : n = Len(elements)
  BY ItemsAre
<1>3. PICK m \in Nat : m = Size(data)
  BY ArrayIs
<1>4. p \in Lefts(m) /\ p.d = data /\ p.n = length
  <2>1. data \in Block(m) /\ length \in 0..m
    BY <1>3, ArrayIs, BlockIs
  <2> QED BY <2>1, LeftIs
<1>5. \A q \in Lefts(m), i \in 1..n :
        /\ Step(q, i) \in Lefts(m)
        /\ Stripped(p, q, elements, i - 1) => Stripped(p, Step(q, i), elements, i)
  <2> SUFFICES ASSUME NEW q \in Lefts(m), NEW i \in 1..n
               PROVE  /\ Step(q, i) \in Lefts(m)
                      /\ Stripped(p, q, elements, i - 1) => Stripped(p, Step(q, i), elements, i)
    OBVIOUS
  <2>1. Step(q, i) \in Lefts(m)
    BY RemovePassIs
  <2>2. i \in Nat /\ i > 0
    OBVIOUS
  <2>3. Stripped(p, q, elements, i - 1) => Stripped(p, Step(q, i), elements, i)
    BY <1>4, <2>2, StrippedOne
  <2> QED BY <2>1, <2>3
<1> HIDE DEF Step
<1>6. \E t : Rec(n, t)
  <2> DEFINE step == [x \in Lefts(m) \X (1..n) |-> Step(x[1], x[2])]
  <2>1. step \in [Lefts(m) \X (1..n) -> Lefts(m)]
    BY <1>5
  <2>2. \A q \in Lefts(m), i \in 1..n : step[<<q, i>>] = Step(q, i)
    OBVIOUS
  <2> HIDE DEF step
  <2>3. PICK t \in [0..n -> Lefts(m)] : t[0] = p /\ \A i \in 1..n : t[i] = step[<<t[i - 1], i>>]
    <3>1. \E t \in [0..n -> Lefts(m)] : Recurs(t, p, step, n)
      BY <1>2, <1>4, <2>1, Recursion
    <3> QED BY <3>1 DEF Recurs
  <2>4. ASSUME NEW i \in 0..n PROVE t[i] = IF i = 0 THEN p ELSE Step(t[i - 1], i)
    <3>1. CASE i = 0
      BY <2>3, <3>1
    <3>2. CASE i # 0
      <4>1. i \in 1..n /\ i - 1 \in 0..n
        BY <3>2
      <4>2. t[i - 1] \in Lefts(m)
        BY <2>3, <4>1
      <4> QED BY <2>2, <2>3, <3>2, <4>1, <4>2
    <3> QED BY <3>1, <3>2
  <2>5. Rec(n, t)
    BY <2>3, <2>4
  <2> QED BY <2>5
<1>7. PICK t : t = R /\ Rec(n, t)
  <2>1. Rec(n, R)
    BY <1>2, <1>6
  <2> QED BY <2>1
<1>8. t[0] = p /\ \A i \in 1..n : t[i] = Step(t[i - 1], i)
  <2>1. ASSUME NEW i \in 1..n PROVE t[i] = Step(t[i - 1], i)
    <3>1. i \in 0..n /\ i # 0
      OBVIOUS
    <3> QED BY <1>7, <3>1
  <2>2. 0 \in 0..n
    OBVIOUS
  <2> QED BY <1>7, <2>1, <2>2
<1> HIDE DEF Rec, R
<1> DEFINE S == {i \in 0..n : t[i] \in Lefts(m) /\ Stripped(p, t[i], elements, i)}
<1>9. 0 \in S
  <2>1. PICK f : f = [k \in 0..(p.n - 1) |-> k]
    OBVIOUS
  <2>2. IsLeft(p, p, f) /\ Chosen(f, p.n) = 0..(p.n - 1)
    BY <1>4, <2>1, LeftAll
  <2>3. 1..0 = {}
    OBVIOUS
  <2>4. Stripped(p, p, elements, 0)
    BY <2>2, <2>3 DEF Stripped
  <2> QED BY <1>4, <1>8, <2>4
<1>10. ASSUME NEW i \in 1..n, i - 1 \in S PROVE i \in S
  <2>1. t[i - 1] \in Lefts(m) /\ Stripped(p, t[i - 1], elements, i - 1) /\ t[i] = Step(t[i - 1], i)
    BY <1>8, <1>10
  <2>2. t[i] \in Lefts(m) /\ Stripped(p, t[i], elements, i)
    BY <1>5, <2>1
  <2> QED BY <2>2
<1> HIDE DEF S
<1>11. n \in S
  <2>1. 0..n \subseteq S
    BY <1>2, <1>9, <1>10, UpTo
  <2> QED BY <1>2, <2>1
<1> USE DEF S
<1> QED BY <1>1, <1>2, <1>3, <1>4, <1>7, <1>11

\* What a pass has of the slots behind slot i: j is where it is
Passes(m) == [j : Nat, p : Lefts(m)]
PassStep(s, i) ==
    IF s.j >= s.p.n THEN s
    ELSE IF s.p.d[s.j] = s.p.d[i] THEN [s EXCEPT !.p = Without(@, s.j)]
    ELSE [s EXCEPT !.j = @ + 1]

\* Only elements behind slot i that are equal to its own are taken out; no slot before j is
Rid(p, q, i, j) ==
    \E f : /\ IsLeft(p, q, f) /\ i < q.n
           /\ \A k \in 0..i : f[k] = k
           /\ \A k \in 0..(p.n - 1) : k \notin Chosen(f, q.n) => k > i /\ p.d[k] = p.d[i]
           /\ \A k \in (i + 1)..(j - 1) : q.d[k] # q.d[i]

\* One slot that is taken out.
LEMMA RidOne ==
    ASSUME NEW m \in Nat, NEW p \in Lefts(m), NEW q \in Lefts(m), NEW i \in 0..(p.n - 1), NEW j \in (i + 1)..(q.n - 1),
           Rid(p, q, i, j), q.d[j] = q.d[i], NEW r, r = Without(q, j)
    PROVE  r \in Lefts(m) /\ r.n = q.n - 1 /\ Rid(p, r, i, j)
<1>1. PICK a \in Nat, b \in Nat : a = p.n /\ b = q.n /\ a <= m /\ b <= m
  BY LeftFields
<1>2. PICK f : /\ IsLeft(p, q, f) /\ i < b
               /\ \A k \in 0..i : f[k] = k
               /\ \A k \in 0..(a - 1) : k \notin Chosen(f, b) => k > i /\ p.d[k] = p.d[i]
               /\ \A k \in (i + 1)..(j - 1) : q.d[k] # q.d[i]
  BY <1>1 DEF Rid
<1>3. i \in Nat /\ j \in Nat /\ i < j /\ j \in 0..(b - 1) /\ i \in 0..(b - 1)
  BY <1>1
<1>4. PICK g : g = [k \in 0..(q.n - 2) |-> IF k < j THEN k ELSE k + 1]
  OBVIOUS
<1>5. /\ r \in Lefts(m) /\ r.n = q.n - 1 /\ IsLeft(q, r, g) /\ Chosen(g, q.n - 1) = 0..(q.n - 1) \ {j}
      /\ \A k \in 0..(j - 1) : r.d[k] = q.d[k]
  <2>1. j \in 0..(q.n - 1)
    BY <1>1, <1>3
  <2> QED BY <1>4, <2>1, WithoutIs
<1>6. r.n = b - 1 /\ Chosen(g, r.n) = 0..(b - 1) \ {j}
  BY <1>1, <1>5
<1>7. PICK h : h = Through(f, g, r.n)
  OBVIOUS
<1>8. IsLeft(p, r, h) /\ MissesOf(p, q, r, f, g, h)
  BY <1>2, <1>5, <1>7, LeftOfLeft
<1>9. /\ f \in [0..(b - 1) -> 0..(a - 1)] /\ \A k \in 0..(b - 1) : q.d[k] = p.d[f[k]]
      /\ \A k, l \in 0..(b - 1) : k < l => f[k] < f[l]
  BY <1>1, <1>2 DEF IsLeft
<1>10. i < r.n
  BY <1>1, <1>3, <1>6
<1>11. ASSUME NEW k \in 0..i PROVE h[k] = k
  <2>1. k \in 0..(q.n - 2) /\ k \in 0..(r.n - 1) /\ k < j
    BY <1>1, <1>3, <1>6
  <2>2. g[k] = k
    BY <1>4, <2>1
  <2> QED BY <1>2, <1>7, <2>1, <2>2 DEF Through
<1>12. ASSUME NEW k \in 0..(p.n - 1), k \notin Chosen(h, r.n) PROVE k > i /\ p.d[k] = p.d[i]
  <2>1. k \notin Chosen(f, b) \/ k = f[j]
    BY <1>1, <1>6, <1>8, <1>12 DEF MissesOf
  <2>2. CASE k = f[j]
    <3>1. p.d[k] = q.d[j] /\ q.d[i] = p.d[f[i]] /\ f[i] = i
      BY <1>2, <1>3, <1>9, <2>2
    <3>2. f[i] < f[j]
      BY <1>3, <1>9
    <3> QED BY <2>2, <3>1, <3>2
  <2> QED BY <1>1, <1>2, <2>1, <2>2
<1>13. ASSUME NEW k \in (i + 1)..(j - 1) PROVE r.d[k] # r.d[i]
  <2>1. k \in 0..(j - 1) /\ i \in 0..(j - 1)
    BY <1>3
  <2> QED BY <1>2, <1>5, <2>1
<1> QED BY <1>5, <1>8, <1>10, <1>11, <1>12, <1>13 DEF Rid

\* One step of a pass.
LEMMA PassStepIs ==
    ASSUME NEW m \in Nat, NEW p \in Lefts(m), NEW s \in Passes(m), NEW i \in 0..(p.n - 1), NEW left \in Int,
           s.j \in (i + 1)..s.p.n, Rid(p, s.p, i, s.j), s.j >= s.p.n \/ s.p.n - s.j <= left,
           NEW t, t = PassStep(s, i)
    PROVE  t \in Passes(m) /\ t.j \in (i + 1)..t.p.n /\ Rid(p, t.p, i, t.j) /\ (t.j >= t.p.n \/ t.p.n - t.j <= left - 1)
<1>1. PICK q \in Lefts(m), j \in Nat : q = s.p /\ j = s.j /\ s = [j |-> j, p |-> q]
  BY DEF Passes
<1>2. PICK b \in Nat : b = q.n /\ b <= m
  BY <1>1, LeftFields
<1>3. i \in Nat /\ j \in (i + 1)..b /\ Rid(p, q, i, j) /\ (j >= b \/ b - j <= left)
  BY <1>1, <1>2, LeftFields
<1>4. CASE j >= b
  <2>1. t = s
    BY <1>1, <1>2, <1>4 DEF PassStep
  <2> QED BY <1>1, <1>2, <1>3, <1>4, <2>1
<1>5. CASE j < b /\ q.d[j] = q.d[i]
  <2>1. PICK r : r = Without(q, j)
    OBVIOUS
  <2>2. ~(j >= b)
    BY <1>3, <1>5
  <2>3. t = [s EXCEPT !.p = Without(s.p, s.j)]
    BY <1>1, <1>2, <1>5, <2>2 DEF PassStep
  <2>4. t = [j |-> j, p |-> r]
    BY <1>1, <2>1, <2>3
  <2>5. j \in (i + 1)..(q.n - 1)
    BY <1>2, <1>3, <1>5
  <2>6. r \in Lefts(m) /\ r.n = q.n - 1 /\ Rid(p, r, i, j)
    BY <1>3, <1>5, <2>1, <2>5, RidOne
  <2>7. t \in Passes(m) /\ t.j = j /\ t.p = r
    BY <2>4, <2>6 DEF Passes
  <2>8. t.p.n = b - 1
    BY <1>2, <2>6, <2>7
  <2> QED BY <1>3, <1>5, <2>6, <2>7, <2>8
<1>6. CASE j < b /\ q.d[j] # q.d[i]
  <2>1. ~(j >= b)
    BY <1>3, <1>6
  <2>2. t = [s EXCEPT !.j = s.j + 1]
    BY <1>1, <1>2, <1>6, <2>1 DEF PassStep
  <2>3. t = [j |-> j + 1, p |-> q]
    BY <1>1, <2>2
  <2>4. t \in Passes(m) /\ t.j = j + 1 /\ t.p = q
    BY <2>3 DEF Passes
  <2>5. Rid(p, q, i, j + 1)
    <3>1. ASSUME NEW k \in (i + 1)..((j + 1) - 1), k \notin (i + 1)..(j - 1) PROVE q.d[k] # q.d[i]
      <4>1. k = j
        BY <1>3, <3>1
      <4> QED BY <1>6, <4>1
    <3> QED BY <1>3, <3>1 DEF Rid
  <2> QED BY <1>2, <1>3, <1>6, <2>4, <2>5
<1>7. j < b \/ j >= b
  BY <1>2, <1>3
<1> QED BY <1>4, <1>5, <1>6, <1>7

\* One pass over the slots behind slot i (UniquePass).
LEMMA UniquePassIs ==
    ASSUME NEW m \in Nat, NEW p \in Lefts(m), NEW i \in 0..(p.n - 1), NEW r, r = UniquePass(p, i)
    PROVE  r \in Lefts(m) /\ Rid(p, r, i, r.n)
<1> DEFINE first == [j |-> i + 1, p |-> p]
           Rec(n, t) == t = [k \in 0..n |-> IF k = 0 THEN first ELSE PassStep(t[k - 1], i)]
           R == CHOOSE t : Rec(p.n, t)
<1>1. r = R[p.n].p
  BY DEF UniquePass, PassStep
<1>2. PICK n \in Nat : n = p.n /\ n <= m
  BY LeftFields
<1>3. PICK one : one = first
  OBVIOUS
<1>4. one \in Passes(m) /\ one.j = i + 1 /\ one.p = p
  BY <1>3, <1>2 DEF Passes
<1> DEFINE Good(s, k) == s \in Passes(m) /\ s.j \in (i + 1)..s.p.n /\ Rid(p, s.p, i, s.j)
                         /\ (s.j >= s.p.n \/ s.p.n - s.j <= (n - i - 1) - k)
           Q == {s \in Passes(m) : s.j \in (i + 1)..s.p.n /\ Rid(p, s.p, i, s.j)}
<1>5. ASSUME NEW s, NEW k \in 1..n, Good(s, k - 1) PROVE Good(PassStep(s, i), k)
  <2>1. PICK left \in Int : left = (n - i - 1) - (k - 1)
    BY <1>2
  <2>2. PICK t : t = PassStep(s, i)
    OBVIOUS
  <2>3. s \in Passes(m) /\ s.j \in (i + 1)..s.p.n /\ Rid(p, s.p, i, s.j) /\ (s.j >= s.p.n \/ s.p.n - s.j <= left)
    BY <1>5, <2>1
  <2>4. t \in Passes(m) /\ t.j \in (i + 1)..t.p.n /\ Rid(p, t.p, i, t.j) /\ (t.j >= t.p.n \/ t.p.n - t.j <= left - 1)
    BY <2>1, <2>2, <2>3, PassStepIs
  <2>5. left - 1 = (n - i - 1) - k
    BY <1>2, <2>1
  <2> QED BY <2>2, <2>4, <2>5
<1>6. ASSUME NEW s \in Q PROVE PassStep(s, i) \in Q
  <2>1. s \in Passes(m) /\ s.j \in (i + 1)..s.p.n /\ Rid(p, s.p, i, s.j)
    BY <1>6
  <2>2. s.p \in Lefts(m) /\ s.j \in Nat
    BY <2>1 DEF Passes
  <2>3. PICK left \in Int : left = s.p.n - s.j
    BY <2>2, LeftFields
  <2>4. PICK t : t = PassStep(s, i)
    OBVIOUS
  <2>5. s.j >= s.p.n \/ s.p.n - s.j <= left
    BY <2>3
  <2>6. t \in Passes(m) /\ t.j \in (i + 1)..t.p.n /\ Rid(p, t.p, i, t.j)
    BY <2>1, <2>3, <2>4, <2>5, PassStepIs
  <2> QED BY <2>4, <2>6
<1>7. Rid(p, p, i, i + 1)
  <2>1. PICK f : f = [k \in 0..(p.n - 1) |-> k]
    OBVIOUS
  <2>2. IsLeft(p, p, f) /\ Chosen(f, p.n) = 0..(p.n - 1)
    BY <2>1, LeftAll
  <2>3. i < p.n /\ (i + 1)..((i + 1) - 1) = {} /\ \A k \in 0..i : f[k] = k
    BY <1>2, <2>1
  <2> QED BY <2>2, <2>3 DEF Rid
<1>8. one \in Q /\ Good(one, 0)
  <2>1. one.j \in (i + 1)..one.p.n
    BY <1>2, <1>4
  <2>2. one.p.n - one.j <= (n - i - 1) - 0
    BY <1>2, <1>4
  <2> QED BY <1>4, <1>7, <2>1, <2>2
<1>9. \E t : Rec(n, t)
  <2> HIDE DEF Q
  <2> DEFINE step == [x \in Q \X (1..n) |-> PassStep(x[1], i)]
  <2>1. step \in [Q \X (1..n) -> Q]
    BY <1>6
  <2>2. \A s \in Q, k \in 1..n : step[<<s, k>>] = PassStep(s, i)
    OBVIOUS
  <2> HIDE DEF step
  <2>3. PICK t \in [0..n -> Q] : t[0] = one /\ \A k \in 1..n : t[k] = step[<<t[k - 1], k>>]
    <3>1. \E t \in [0..n -> Q] : Recurs(t, one, step, n)
      BY <1>2, <1>8, <2>1, Recursion
    <3> QED BY <3>1 DEF Recurs
  <2>4. ASSUME NEW k \in 0..n PROVE t[k] = IF k = 0 THEN one ELSE PassStep(t[k - 1], i)
    <3>1. CASE k = 0
      BY <2>3, <3>1
    <3>2. CASE k # 0
      <4>1. k \in 1..n /\ k - 1 \in 0..n
        BY <3>2
      <4>2. t[k - 1] \in Q
        BY <2>3, <4>1
      <4> QED BY <2>2, <2>3, <3>2, <4>1, <4>2
    <3> QED BY <3>1, <3>2
  <2>5. Rec(n, t)
    BY <1>3, <2>3, <2>4
  <2> QED BY <2>5
<1>10. PICK t : t = R /\ Rec(n, t)
  <2>1. Rec(n, R)
    BY <1>2, <1>9
  <2> QED BY <2>1
<1>11. t[0] = one /\ \A k \in 1..n : t[k] = PassStep(t[k - 1], i)
  <2>1. ASSUME NEW k \in 1..n PROVE t[k] = PassStep(t[k - 1], i)
    <3>1. k \in 0..n /\ k # 0
      OBVIOUS
    <3> QED BY <1>10, <3>1
  <2>2. 0 \in 0..n
    OBVIOUS
  <2> QED BY <1>3, <1>10, <2>1, <2>2
<1> HIDE DEF Rec, R, Good, Q
<1> DEFINE S == {k \in 0..n : Good(t[k], k)}
<1>12. 0 \in S
  BY <1>8, <1>11
<1>13. ASSUME NEW k \in 1..n, k - 1 \in S PROVE k \in S
  <2>1. Good(t[k - 1], k - 1) /\ t[k] = PassStep(t[k - 1], i)
    BY <1>11, <1>13
  <2>2. Good(t[k], k)
    BY <1>5, <2>1
  <2> QED BY <2>2
<1> HIDE DEF S
<1>14. n \in S
  <2>1. 0..n \subseteq S
    BY <1>2, <1>12, <1>13, UpTo
  <2> QED BY <1>2, <2>1
<1>15. Good(t[n], n)
  BY <1>14 DEF S
<1>16. PICK s : s = t[n] /\ s.p = r
  BY <1>1, <1>2, <1>10
<1>17. s \in Passes(m) /\ s.j \in (i + 1)..s.p.n /\ Rid(p, s.p, i, s.j) /\ (s.j >= s.p.n \/ s.p.n - s.j <= (n - i - 1) - n)
  BY <1>15, <1>16 DEF Good
<1>18. s.p \in Lefts(m) /\ s.j \in Nat
  BY <1>17 DEF Passes
<1>19. s.j = s.p.n
  <2>1. PICK x \in Nat, y \in Nat : x = s.j /\ y = s.p.n
    BY <1>18, LeftFields
  <2>2. x <= y /\ (x >= y \/ y - x <= (n - i - 1) - n)
    BY <1>17, <2>1
  <2>3. x = y
    BY <1>2, <2>1, <2>2
  <2> QED BY <2>1, <2>3
<1> QED BY <1>16, <1>17, <1>18, <1>19

\* Every element that is taken out has an equal one before it, and the first i have no
\* equal ones behind them
Rarer(p, q, i) ==
    \E f : /\ IsLeft(p, q, f)
           /\ \A k \in 0..(p.n - 1) : k \notin Chosen(f, q.n) =>
                \E j \in 0..(q.n - 1) : f[j] < k /\ p.d[f[j]] = p.d[k]
           /\ \A j, k \in 0..(q.n - 1) : j < i /\ j < k => q.d[j] # q.d[k]

\* One element more.
LEMMA RarerOne ==
    ASSUME NEW m \in Nat, NEW p \in Lefts(m), NEW q \in Lefts(m), NEW i \in Nat, i > 0, Rarer(p, q, i - 1),
           NEW r, r = IF i <= q.n THEN UniquePass(q, i - 1) ELSE q
    PROVE  r \in Lefts(m) /\ Rarer(p, r, i)
<1>1. PICK a \in Nat, b \in Nat : a = p.n /\ b = q.n /\ a <= m /\ b <= m
  BY LeftFields
<1>2. PICK f : /\ IsLeft(p, q, f)
               /\ \A k \in 0..(a - 1) : k \notin Chosen(f, b) =>
                    \E j \in 0..(b - 1) : f[j] < k /\ p.d[f[j]] = p.d[k]
               /\ \A j, k \in 0..(b - 1) : j < i - 1 /\ j < k => q.d[j] # q.d[k]
  BY <1>1 DEF Rarer
<1>3. CASE ~(i <= q.n)
  <2>1. r = q
    BY <1>3
  <2>2. \A j, k \in 0..(b - 1) : j < i /\ j < k => q.d[j] # q.d[k]
    <3> SUFFICES ASSUME NEW j \in 0..(b - 1), NEW k \in 0..(b - 1), j < i, j < k PROVE q.d[j] # q.d[k]
      OBVIOUS
    <3>1. j < i - 1
      BY <1>1, <1>3
    <3> QED BY <1>2, <3>1
  <2> QED BY <1>1, <1>2, <2>1, <2>2 DEF Rarer
<1>4. CASE i <= q.n
  <2>1. PICK x \in Nat : x = i - 1 /\ x \in 0..(q.n - 1) /\ x \in 0..(b - 1)
    BY <1>1, <1>4
  <2>2. r \in Lefts(m) /\ Rid(q, r, x, r.n)
    <3>1. r = UniquePass(q, x)
      BY <1>4, <2>1
    <3> QED BY <2>1, <3>1, UniquePassIs
  <2>3. PICK c \in Nat : c = r.n /\ c <= m
    BY <2>2, LeftFields
  <2>4. PICK g : /\ IsLeft(q, r, g) /\ x < c
                 /\ \A k \in 0..x : g[k] = k
                 /\ \A k \in 0..(b - 1) : k \notin Chosen(g, c) => k > x /\ q.d[k] = q.d[x]
                 /\ \A k \in (x + 1)..(c - 1) : r.d[k] # r.d[x]
    BY <1>1, <2>2, <2>3 DEF Rid
  <2>5. PICK h : h = Through(f, g, r.n)
    OBVIOUS
  <2>6. IsLeft(p, r, h) /\ MissesOf(p, q, r, f, g, h)
    BY <1>2, <2>2, <2>4, <2>5, LeftOfLeft
  <2>7. /\ f \in [0..(b - 1) -> 0..(a - 1)] /\ \A k \in 0..(b - 1) : q.d[k] = p.d[f[k]]
        /\ \A k, l \in 0..(b - 1) : k < l => f[k] < f[l]
    BY <1>1, <1>2 DEF IsLeft
  <2>8. /\ g \in [0..(c - 1) -> 0..(b - 1)] /\ \A k \in 0..(c - 1) : r.d[k] = q.d[g[k]]
        /\ \A k, l \in 0..(c - 1) : k < l => g[k] < g[l]
    BY <1>1, <2>3, <2>4 DEF IsLeft
  <2>9. \A k \in 0..(c - 1) : h[k] = f[g[k]]
    BY <2>3, <2>5 DEF Through
  <2>10. x \in 0..(c - 1) /\ h[x] = f[x]
    <3>1. x \in 0..(c - 1) /\ x \in 0..x
      BY <2>3, <2>4
    <3> QED BY <2>4, <2>9, <3>1
  <2>11. ASSUME NEW k \in 0..(a - 1), NEW j \in 0..(b - 1), j \notin Chosen(g, c), f[j] <= k, p.d[f[j]] = p.d[k]
         PROVE  \E l \in 0..(c - 1) : h[l] < k /\ p.d[h[l]] = p.d[k]
    <3>1. j > x /\ q.d[j] = q.d[x]
      BY <2>4, <2>11
    <3>2. f[x] < f[j] /\ f[x] \in Int /\ f[j] \in Int
      BY <2>1, <2>7, <3>1
    <3>3. p.d[f[x]] = p.d[k]
      BY <2>1, <2>7, <2>11, <3>1
    <3>4. h[x] < k
      BY <2>10, <2>11, <3>2
    <3> QED BY <2>10, <3>3, <3>4
  <2>12. ASSUME NEW k \in 0..(p.n - 1), k \notin Chosen(h, r.n)
         PROVE  \E l \in 0..(r.n - 1) : h[l] < k /\ p.d[h[l]] = p.d[k]
    <3>1. CASE k \notin Chosen(f, b)
      <4>1. PICK j \in 0..(b - 1) : f[j] < k /\ p.d[f[j]] = p.d[k]
        BY <1>1, <1>2, <3>1
      <4>2. CASE j \in Chosen(g, c)
        <5>1. PICK l \in 0..(c - 1) : j = g[l]
          BY <4>2 DEF Chosen
        <5>2. h[l] = f[j]
          BY <2>9, <5>1
        <5> QED BY <2>3, <4>1, <5>2
      <4>3. CASE j \notin Chosen(g, c)
        <5>1. f[j] \in Int /\ f[j] <= k
          BY <2>7, <4>1
        <5> QED BY <1>1, <2>3, <2>11, <4>1, <4>3, <5>1
      <4> QED BY <4>2, <4>3
    <3>2. CASE \E j \in 0..(q.n - 1) : j \notin Chosen(g, r.n) /\ k = f[j]
      <4>1. PICK j \in 0..(b - 1) : j \notin Chosen(g, c) /\ k = f[j]
        BY <1>1, <2>3, <3>2
      <4>2. f[j] <= k /\ p.d[f[j]] = p.d[k]
        BY <4>1
      <4> QED BY <1>1, <2>3, <2>11, <4>1, <4>2
    <3> QED BY <1>1, <2>6, <2>12, <3>1, <3>2 DEF MissesOf
  <2>13. ASSUME NEW j \in 0..(r.n - 1), NEW k \in 0..(r.n - 1), j < i, j < k PROVE r.d[j] # r.d[k]
    <3>1. CASE j = x
      <4>1. k \in (x + 1)..(c - 1)
        BY <2>3, <2>13, <3>1
      <4> QED BY <2>4, <3>1, <4>1
    <3>2. CASE j # x
      <4>1. j < x /\ j \in 0..x
        BY <2>1, <2>13, <3>2
      <4>2. g[j] = j /\ g[j] < g[k] /\ g[k] \in 0..(b - 1) /\ g[j] \in 0..(b - 1)
        BY <2>3, <2>4, <2>8, <2>13, <4>1
      <4>3. q.d[j] # q.d[g[k]]
        <5>1. j \in 0..(b - 1) /\ j < i - 1 /\ j < g[k]
          BY <2>1, <4>1, <4>2
        <5> QED BY <1>2, <4>2, <5>1
      <4>4. r.d[j] = q.d[j] /\ r.d[k] = q.d[g[k]]
        BY <2>3, <2>8, <4>2
      <4> QED BY <4>3, <4>4
    <3> QED BY <3>1, <3>2
  <2> QED BY <2>2, <2>6, <2>12, <2>13 DEF Rarer
<1> QED BY <1>3, <1>4

\* Elements equal to ones before them are taken out (uniqueArray).
LEMMA UniqueIs ==
    ASSUME Inv, NEW p, p = Left(data, length), NEW r, r = uniqueArray
    PROVE  p \in Lefts(Size(data)) /\ r \in Lefts(Size(data)) /\ Rarer(p, r, length)
<1> DEFINE Step(q, i) == IF i <= q.n THEN UniquePass(q, i - 1) ELSE q
           Rec(n, t) == t = [i \in 0..n |-> IF i = 0 THEN p ELSE Step(t[i - 1], i)]
           R == CHOOSE t : Rec(length, t)
<1>1. r = R[length]
  BY DEF uniqueArray
<1>2. PICK n \in Nat : n = length
  BY ArrayIs
<1>3. PICK m \in Nat : m = Size(data)
  BY ArrayIs
<1>4. p \in Lefts(m) /\ p.d = data /\ p.n = length
  <2>1. data \in Block(m) /\ length \in 0..m
    BY <1>3, ArrayIs, BlockIs
  <2> QED BY <2>1, LeftIs
<1>5. ASSUME NEW q \in Lefts(m), NEW i \in 1..n PROVE Step(q, i) \in Lefts(m)
  <2>1. CASE i <= q.n
    <3>1. PICK x \in Nat : x = i - 1 /\ x \in 0..(q.n - 1)
      BY <2>1, LeftFields
    <3>2. UniquePass(q, x) \in Lefts(m)
      BY <3>1, UniquePassIs
    <3> QED BY <2>1, <3>1, <3>2
  <2>2. CASE ~(i <= q.n)
    BY <2>2
  <2> QED BY <2>1, <2>2
<1>6. \A q \in Lefts(m), i \in 1..n : Rarer(p, q, i - 1) => Rarer(p, Step(q, i), i)
  <2> SUFFICES ASSUME NEW q \in Lefts(m), NEW i \in 1..n, Rarer(p, q, i - 1) PROVE Rarer(p, Step(q, i), i)
    OBVIOUS
  <2>1. i \in Nat /\ i > 0
    OBVIOUS
  <2> QED BY <1>4, <2>1, RarerOne
<1> HIDE DEF Step
<1>7. \E t : Rec(n, t)
  <2> DEFINE step == [x \in Lefts(m) \X (1..n) |-> Step(x[1], x[2])]
  <2>1. step \in [Lefts(m) \X (1..n) -> Lefts(m)]
    BY <1>5
  <2>2. \A q \in Lefts(m), i \in 1..n : step[<<q, i>>] = Step(q, i)
    OBVIOUS
  <2> HIDE DEF step
  <2>3. PICK t \in [0..n -> Lefts(m)] : t[0] = p /\ \A i \in 1..n : t[i] = step[<<t[i - 1], i>>]
    <3>1. \E t \in [0..n -> Lefts(m)] : Recurs(t, p, step, n)
      BY <1>2, <1>4, <2>1, Recursion
    <3> QED BY <3>1 DEF Recurs
  <2>4. ASSUME NEW i \in 0..n PROVE t[i] = IF i = 0 THEN p ELSE Step(t[i - 1], i)
    <3>1. CASE i = 0
      BY <2>3, <3>1
    <3>2. CASE i # 0
      <4>1. i \in 1..n /\ i - 1 \in 0..n
        BY <3>2
      <4>2. t[i - 1] \in Lefts(m)
        BY <2>3, <4>1
      <4> QED BY <2>2, <2>3, <3>2, <4>1, <4>2
    <3> QED BY <3>1, <3>2
  <2>5. Rec(n, t)
    BY <2>3, <2>4
  <2> QED BY <2>5
<1>8. PICK t : t = R /\ Rec(n, t)
  <2>1. Rec(n, R)
    BY <1>2, <1>7
  <2> QED BY <2>1
<1>9. t[0] = p /\ \A i \in 1..n : t[i] = Step(t[i - 1], i)
  <2>1. ASSUME NEW i \in 1..n PROVE t[i] = Step(t[i - 1], i)
    <3>1. i \in 0..n /\ i # 0
      OBVIOUS
    <3> QED BY <1>8, <3>1
  <2>2. 0 \in 0..n
    OBVIOUS
  <2> QED BY <1>8, <2>1, <2>2
<1> HIDE DEF Rec, R
<1> DEFINE S == {i \in 0..n : t[i] \in Lefts(m) /\ Rarer(p, t[i], i)}
<1>10. 0 \in S
  <2>1. PICK f : f = [k \in 0..(p.n - 1) |-> k]
    OBVIOUS
  <2>2. IsLeft(p, p, f) /\ Chosen(f, p.n) = 0..(p.n - 1)
    BY <1>4, <2>1, LeftAll
  <2>3. \A j \in 0..(p.n - 1) : ~(j < 0)
    BY <1>2, <1>4
  <2>4. Rarer(p, p, 0)
    BY <2>2, <2>3 DEF Rarer
  <2> QED BY <1>4, <1>9, <2>4
<1>11. ASSUME NEW i \in 1..n, i - 1 \in S PROVE i \in S
  <2>1. t[i - 1] \in Lefts(m) /\ Rarer(p, t[i - 1], i - 1) /\ t[i] = Step(t[i - 1], i)
    BY <1>9, <1>11
  <2>2. t[i] \in Lefts(m) /\ Rarer(p, t[i], i)
    BY <1>5, <1>6, <2>1
  <2> QED BY <2>2
<1> HIDE DEF S
<1>12. n \in S
  <2>1. 0..n \subseteq S
    BY <1>2, <1>10, <1>11, UpTo
  <2> QED BY <1>2, <2>1
<1> USE DEF S
<1> QED BY <1>1, <1>2, <1>3, <1>4, <1>8, <1>12

\* Of the first n elements of s, t has those whose places are in T, f says in which order
PicksBy(f, s, t, n, T) ==
    /\ f \in [1..Len(t) -> 1..n]
    /\ \A j, k \in 1..Len(t) : j < k => f[j] < f[k]
    /\ \A k \in 1..Len(t) : t[k] = s[f[k]]
    /\ {f[k] : k \in 1..Len(t)} = T \cap 1..n
Picks(s, t, n, T) == t \in Seq(Slot) /\ Len(t) <= n /\ \E f : PicksBy(f, s, t, n, T)

\* Nothing of nothing.
LEMMA PicksNone ==
    ASSUME NEW s, NEW T
    PROVE  Picks(s, <<>>, 0, T)
<1> DEFINE f == [k \in 1..0 |-> 0]
<1>1. 1..0 = {} /\ Len(<<>>) = 0 /\ <<>> \in Seq(Slot)
  OBVIOUS
<1>2. f \in [1..0 -> 1..0] /\ {f[k] : k \in 1..0} = T \cap 1..0
  BY <1>1
<1>3. (\A j, k \in 1..0 : j < k => f[j] < f[k]) /\ \A k \in 1..0 : <<>>[k] = s[f[k]]
  BY <1>1
<1> HIDE DEF f
<1>4. PICK t : t = <<>>
  OBVIOUS
<1>5. PicksBy(f, s, t, 0, T)
  <2>1. Len(t) = 0 /\ \A k \in 1..0 : t[k] = s[f[k]]
    BY <1>1, <1>4
  <2> QED BY <1>2, <1>3, <2>1 DEF PicksBy
<1> QED BY <1>1, <1>4, <1>5 DEF Picks

\* An element that is not taken.
LEMMA PicksStay ==
    ASSUME NEW s, NEW t, NEW n \in Nat, n > 0, NEW T, Picks(s, t, n - 1, T), n \notin T
    PROVE  Picks(s, t, n, T)
<1>1. PICK l \in Nat : l = Len(t) /\ t \in Seq(Slot) /\ l <= n - 1
  BY DEF Picks
<1>2. PICK f \in [1..l -> 1..(n - 1)] :
        /\ \A j, k \in 1..l : j < k => f[j] < f[k]
        /\ \A k \in 1..l : t[k] = s[f[k]]
        /\ {f[k] : k \in 1..l} = T \cap 1..(n - 1)
  <2>1. PICK f : PicksBy(f, s, t, n - 1, T)
    BY DEF Picks
  <2> QED BY <1>1, <2>1 DEF PicksBy
<1>3. T \cap 1..n = T \cap 1..(n - 1)
  <2>1. \A k \in 1..n : k # n => k \in 1..(n - 1)
    OBVIOUS
  <2>2. 1..(n - 1) \subseteq 1..n
    OBVIOUS
  <2> QED BY <2>1, <2>2
<1>4. f \in [1..l -> 1..n]
  <2>1. 1..(n - 1) \subseteq 1..n
    OBVIOUS
  <2> QED BY <1>2, <2>1
<1>5. l <= n
  BY <1>1
<1>6. PicksBy(f, s, t, n, T)
  BY <1>1, <1>2, <1>3, <1>4 DEF PicksBy
<1> QED BY <1>1, <1>5, <1>6 DEF Picks

\* An element that is taken.
LEMMA PicksOne ==
    ASSUME NEW s, NEW t, NEW n \in Nat, n > 0, NEW T, Picks(s, t, n - 1, T), n \in T, s[n] \in Slot
    PROVE  Picks(s, Append(t, s[n]), n, T)
<1>1. PICK l \in Nat : l = Len(t) /\ t \in Seq(Slot) /\ l <= n - 1
  BY DEF Picks
<1>2. PICK f \in [1..l -> 1..(n - 1)] :
        /\ \A j, k \in 1..l : j < k => f[j] < f[k]
        /\ \A k \in 1..l : t[k] = s[f[k]]
        /\ {f[k] : k \in 1..l} = T \cap 1..(n - 1)
  <2>1. PICK f : PicksBy(f, s, t, n - 1, T)
    BY DEF Picks
  <2> QED BY <1>1, <2>1 DEF PicksBy
<1>3. PICK u : u = Append(t, s[n])
  OBVIOUS
<1>4. u \in Seq(Slot) /\ Len(u) = l + 1 /\ u[l + 1] = s[n] /\ \A k \in 1..l : u[k] = t[k]
  BY <1>1, <1>3
<1>5. PICK g : g = [k \in 1..(l + 1) |-> IF k = l + 1 THEN n ELSE f[k]]
  OBVIOUS
<1>6. \A k \in 1..(l + 1) : k = l + 1 \/ k \in 1..l
  OBVIOUS
<1>7. g[l + 1] = n /\ \A k \in 1..l : g[k] = f[k] /\ f[k] \in 1..(n - 1)
  <2>1. l + 1 \in 1..(l + 1) /\ \A k \in 1..l : k \in 1..(l + 1) /\ k # l + 1
    OBVIOUS
  <2> QED BY <1>2, <1>5, <2>1
<1>8. g \in [1..(l + 1) -> 1..n]
  <2>1. \A k \in 1..(l + 1) : g[k] \in 1..n
    BY <1>6, <1>7
  <2> QED BY <1>5, <2>1
<1>9. ASSUME NEW j \in 1..(l + 1), NEW k \in 1..(l + 1), j < k PROVE g[j] < g[k]
  <2>1. j \in 1..l
    BY <1>9
  <2>2. CASE k = l + 1
    BY <1>7, <2>1, <2>2
  <2>3. CASE k \in 1..l
    BY <1>2, <1>7, <1>9, <2>1, <2>3
  <2> QED BY <1>6, <2>2, <2>3
<1>10. \A k \in 1..(l + 1) : u[k] = s[g[k]]
  BY <1>2, <1>4, <1>6, <1>7
<1>11. {g[k] : k \in 1..(l + 1)} = T \cap 1..n
  <2>1. ASSUME NEW k \in 1..(l + 1) PROVE g[k] \in T \cap 1..n
    <3>1. CASE k = l + 1
      BY <1>7, <3>1
    <3>2. CASE k \in 1..l
      <4>1. f[k] \in T \cap 1..(n - 1)
        BY <1>2, <3>2
      <4> QED BY <1>7, <3>2, <4>1
    <3> QED BY <1>6, <3>1, <3>2
  <2>2. ASSUME NEW x \in T \cap 1..n PROVE \E k \in 1..(l + 1) : g[k] = x
    <3>1. CASE x = n
      <4>1. l + 1 \in 1..(l + 1)
        OBVIOUS
      <4> QED BY <1>7, <3>1, <4>1
    <3>2. CASE x # n
      <4>1. x \in T \cap 1..(n - 1)
        BY <3>2
      <4>2. PICK k \in 1..l : f[k] = x
        BY <1>2, <4>1
      <4>3. k \in 1..(l + 1)
        OBVIOUS
      <4> QED BY <1>7, <4>2, <4>3
    <3> QED BY <3>1, <3>2
  <2> QED BY <2>1, <2>2
<1>12. l + 1 <= n
  BY <1>1
<1>13. Picks(s, u, n, T)
  <2>1. PicksBy(g, s, u, n, T)
    BY <1>4, <1>8, <1>9, <1>10, <1>11 DEF PicksBy
  <2> QED BY <1>4, <1>12, <2>1 DEF Picks
<1> QED BY <1>3, <1>13

\* Elements that are not undefined (compactArray).
LEMMA CompactIs ==
    ASSUME Inv, NEW T, T = {k \in 1..length : data[k - 1] # Undefined}
    PROVE  Picks(List, compactArray, length, T)
<1> DEFINE Step(s, k) == IF data[k - 1] = Undefined THEN s ELSE Append(s, data[k - 1])
           Rec(n, t) == t = [k \in 0..n |-> IF k = 0 THEN <<>> ELSE Step(t[k - 1], k)]
           R == CHOOSE t : Rec(length, t)
<1>1. compactArray = R[length]
  BY DEF compactArray
<1>2. PICK n \in Nat : n = length /\ n <= Size(data) /\ Size(data) \in Nat
  BY ArrayIs
<1>3. PICK list : list = List
  OBVIOUS
<1>4. \A k \in 1..n : list[k] = data[k - 1] /\ data[k - 1] \in Slot
  <2> SUFFICES ASSUME NEW k \in 1..n PROVE list[k] = data[k - 1] /\ data[k - 1] \in Slot
    OBVIOUS
  <2>1. IsBlock(data) /\ 0 \in Int /\ length \in Int /\ 0 + length <= Size(data) /\ k \in 1..length
    BY <1>2, ArrayIs
  <2>2. list[k] = data[0 + k - 1]
    <3>1. PICK zero \in Int : zero = 0
      OBVIOUS
    <3>2. zero >= 0 /\ zero + length <= Size(data)
      BY <2>1, <3>1
    <3>3. Elems(data, zero, length)[k] = data[zero + k - 1]
      BY <2>1, <3>2, ElemsIs
    <3> QED BY <1>3, <3>1, <3>3 DEF List
  <2>3. 0 + k - 1 = k - 1 /\ k - 1 \in 0..(Size(data) - 1)
    BY <1>2
  <2> QED BY <2>2, <2>3, ArrayIs
<1>5. ASSUME NEW s, NEW k \in 1..n, s \in Seq(Slot) PROVE Step(s, k) \in Seq(Slot)
  <2>1. data[k - 1] \in Slot
    BY <1>4
  <2>2. Append(s, data[k - 1]) \in Seq(Slot)
    BY <1>5, <2>1
  <2> QED BY <1>5, <2>2
<1>6. ASSUME NEW s, NEW k \in 1..n, Picks(list, s, k - 1, T) PROVE Picks(list, Step(s, k), k, T)
  <2>1. k \in Nat /\ k > 0 /\ list[k] = data[k - 1] /\ list[k] \in Slot
    BY <1>4
  <2>2. k \in T <=> data[k - 1] # Undefined
    BY <1>2
  <2>3. CASE data[k - 1] = Undefined
    BY <1>6, <2>1, <2>2, <2>3, PicksStay
  <2>4. CASE data[k - 1] # Undefined
    <3>1. Picks(list, Append(s, list[k]), k, T)
      BY <1>6, <2>1, <2>2, <2>4, PicksOne
    <3> QED BY <2>1, <2>4, <3>1
  <2> QED BY <2>3, <2>4
<1> HIDE DEF Step
<1>7. \E t : Rec(n, t)
  <2> DEFINE step == [x \in Seq(Slot) \X (1..n) |-> Step(x[1], x[2])]
  <2>1. step \in [Seq(Slot) \X (1..n) -> Seq(Slot)]
    BY <1>5
  <2>2. \A q \in Seq(Slot), i \in 1..n : step[<<q, i>>] = Step(q, i)
    OBVIOUS
  <2> HIDE DEF step
  <2>3. PICK t \in [0..n -> Seq(Slot)] : t[0] = <<>> /\ \A i \in 1..n : t[i] = step[<<t[i - 1], i>>]
    <3>1. \E t \in [0..n -> Seq(Slot)] : Recurs(t, <<>>, step, n)
      BY <1>2, <2>1, NothingIs, Recursion
    <3> QED BY <3>1 DEF Recurs
  <2>4. ASSUME NEW i \in 0..n PROVE t[i] = IF i = 0 THEN <<>> ELSE Step(t[i - 1], i)
    <3>1. CASE i = 0
      BY <2>3, <3>1
    <3>2. CASE i # 0
      <4>1. i \in 1..n /\ i - 1 \in 0..n
        BY <3>2
      <4>2. t[i - 1] \in Seq(Slot)
        BY <2>3, <4>1
      <4> QED BY <2>2, <2>3, <3>2, <4>1, <4>2
    <3> QED BY <3>1, <3>2
  <2>5. Rec(n, t)
    BY <2>3, <2>4
  <2> QED BY <2>5
<1>8. PICK t : t = R /\ Rec(n, t)
  <2>1. Rec(n, R)
    BY <1>2, <1>7
  <2> QED BY <2>1
<1>9. t[0] = <<>> /\ \A i \in 1..n : t[i] = Step(t[i - 1], i)
  <2>1. ASSUME NEW i \in 1..n PROVE t[i] = Step(t[i - 1], i)
    <3>1. i \in 0..n /\ i # 0
      OBVIOUS
    <3> QED BY <1>8, <3>1
  <2>2. 0 \in 0..n
    OBVIOUS
  <2> QED BY <1>8, <2>1, <2>2
<1> HIDE DEF Rec, R
<1> DEFINE S == {i \in 0..n : Picks(list, t[i], i, T)}
<1>10. 0 \in S
  BY <1>9, PicksNone
<1>11. ASSUME NEW i \in 1..n, i - 1 \in S PROVE i \in S
  <2>1. Picks(list, t[i - 1], i - 1, T) /\ t[i] = Step(t[i - 1], i)
    BY <1>9, <1>11
  <2>2. Picks(list, t[i], i, T)
    BY <1>6, <2>1
  <2> QED BY <2>2
<1> HIDE DEF S
<1>12. n \in S
  <2>1. 0..n \subseteq S
    BY <1>2, <1>10, <1>11, UpTo
  <2> QED BY <1>2, <2>1
<1> USE DEF S
<1> QED BY <1>1, <1>2, <1>3, <1>8, <1>12

\* The first of each of the elements, of those in some (addUnique).
LEMMA UniquesIs ==
    ASSUME NEW s \in Seq(Slot), NEW some,
           NEW T, T = {k \in 1..Len(s) : s[k] \in some /\ \A m \in 1..(k - 1) : s[m] # s[k]}
    PROVE  Picks(s, Uniques(s, some), Len(s), T)
<1> DEFINE Step(t, k) == IF s[k] \in some THEN addUnique(t, s[k]) ELSE t
           Rec(n, t) == t = [k \in 0..n |-> IF k = 0 THEN <<>> ELSE Step(t[k - 1], k)]
           R == CHOOSE t : Rec(Len(s), t)
<1>1. Uniques(s, some) = R[Len(s)]
  BY DEF Uniques
<1>2. PICK n \in Nat : n = Len(s)
  OBVIOUS
<1>3. \A k \in 1..n : s[k] \in Slot
  BY <1>2
<1>4. ASSUME NEW t \in Seq(Slot), NEW k \in 1..n PROVE Step(t, k) \in Seq(Slot)
  BY <1>3 DEF addUnique
<1>5. ASSUME NEW t, NEW k \in 1..n, Picks(s, t, k - 1, T) PROVE Picks(s, Step(t, k), k, T)
  <2>1. k \in Nat /\ k > 0 /\ s[k] \in Slot /\ t \in Seq(Slot)
    BY <1>3, <1>5 DEF Picks
  <2>2. PICK f \in [1..Len(t) -> 1..(k - 1)] :
          /\ \A x \in 1..Len(t) : t[x] = s[f[x]]
          /\ {f[x] : x \in 1..Len(t)} = T \cap 1..(k - 1)
    <3>1. PICK f : PicksBy(f, s, t, k - 1, T)
      BY <1>5 DEF Picks
    <3> QED BY <3>1 DEF PicksBy
  <2>3. k \in T <=> s[k] \in some /\ \A m \in 1..(k - 1) : s[m] # s[k]
    BY <1>2
  <2>4. CASE s[k] \notin some
    BY <1>5, <2>1, <2>3, <2>4, PicksStay
  <2>5. CASE s[k] \in some /\ \E x \in 1..Len(t) : t[x] = s[k]
    <3>1. PICK x \in 1..Len(t) : t[x] = s[k]
      BY <2>5
    <3>2. f[x] \in 1..(k - 1) /\ s[f[x]] = s[k]
      BY <2>2, <3>1
    <3>3. k \notin T
      BY <2>3, <3>2
    <3>4. Step(t, k) = t
      BY <2>1, <2>5 DEF addUnique
    <3>5. Picks(s, t, k, T)
      BY <1>5, <2>1, <3>3, PicksStay
    <3> QED BY <3>4, <3>5
  <2>6. CASE s[k] \in some /\ ~\E x \in 1..Len(t) : t[x] = s[k]
    <3>1. k \in T
      <4> SUFFICES ASSUME NEW m0 \in 1..(k - 1), s[m0] = s[k] PROVE FALSE
        BY <2>3, <2>6
      <4> DEFINE M == {m \in 1..(k - 1) : s[m] = s[k]}
      <4>1. M \in SUBSET Nat /\ M # {}
        OBVIOUS
      <4> HIDE DEF M
      <4>2. PICK m \in M : \A x \in M : m <= x
        BY <4>1, Least
      <4>3. m \in 1..(k - 1) /\ s[m] = s[k] /\ m \in 1..n
        BY <4>2 DEF M
      <4>4. \A x \in 1..(m - 1) : s[x] # s[m]
        <5> SUFFICES ASSUME NEW x \in 1..(m - 1), s[x] = s[m] PROVE FALSE
          OBVIOUS
        <5>1. x \in M /\ ~(m <= x)
          BY <4>3 DEF M
        <5> QED BY <4>2, <5>1
      <4>5. m \in T \cap 1..(k - 1)
        BY <1>2, <2>6, <4>3, <4>4
      <4>6. PICK x \in 1..Len(t) : f[x] = m
        BY <2>2, <4>5
      <4> QED BY <2>2, <2>6, <4>3, <4>6
    <3>2. Step(t, k) = Append(t, s[k])
      BY <2>1, <2>6 DEF addUnique
    <3>3. Picks(s, Append(t, s[k]), k, T)
      BY <1>5, <2>1, <3>1, PicksOne
    <3> QED BY <3>2, <3>3
  <2> QED BY <2>4, <2>5, <2>6
<1> HIDE DEF Step
<1>7. \E t : Rec(n, t)
  <2> DEFINE step == [x \in Seq(Slot) \X (1..n) |-> Step(x[1], x[2])]
  <2>1. step \in [Seq(Slot) \X (1..n) -> Seq(Slot)]
    BY <1>4
  <2>2. \A q \in Seq(Slot), i \in 1..n : step[<<q, i>>] = Step(q, i)
    OBVIOUS
  <2> HIDE DEF step
  <2>3. PICK t \in [0..n -> Seq(Slot)] : t[0] = <<>> /\ \A i \in 1..n : t[i] = step[<<t[i - 1], i>>]
    <3>1. \E t \in [0..n -> Seq(Slot)] : Recurs(t, <<>>, step, n)
      BY <1>2, <2>1, NothingIs, Recursion
    <3> QED BY <3>1 DEF Recurs
  <2>4. ASSUME NEW i \in 0..n PROVE t[i] = IF i = 0 THEN <<>> ELSE Step(t[i - 1], i)
    <3>1. CASE i = 0
      BY <2>3, <3>1
    <3>2. CASE i # 0
      <4>1. i \in 1..n /\ i - 1 \in 0..n
        BY <3>2
      <4>2. t[i - 1] \in Seq(Slot)
        BY <2>3, <4>1
      <4> QED BY <2>2, <2>3, <3>2, <4>1, <4>2
    <3> QED BY <3>1, <3>2
  <2>5. Rec(n, t)
    BY <2>3, <2>4
  <2> QED BY <2>5
<1>8. PICK t : t = R /\ Rec(n, t)
  <2>1. Rec(n, R)
    BY <1>2, <1>7
  <2> QED BY <2>1
<1>9. t[0] = <<>> /\ \A i \in 1..n : t[i] = Step(t[i - 1], i)
  <2>1. ASSUME NEW i \in 1..n PROVE t[i] = Step(t[i - 1], i)
    <3>1. i \in 0..n /\ i # 0
      OBVIOUS
    <3> QED BY <1>8, <3>1
  <2>2. 0 \in 0..n
    OBVIOUS
  <2> QED BY <1>8, <2>1, <2>2
<1> HIDE DEF Rec, R
<1> DEFINE S == {i \in 0..n : Picks(s, t[i], i, T)}
<1>10. 0 \in S
  BY <1>9, PicksNone
<1>11. ASSUME NEW i \in 1..n, i - 1 \in S PROVE i \in S
  <2>1. Picks(s, t[i - 1], i - 1, T) /\ t[i] = Step(t[i - 1], i)
    BY <1>9, <1>11
  <2>2. Picks(s, t[i], i, T)
    BY <1>5, <2>1
  <2> QED BY <2>2
<1> HIDE DEF S
<1>12. n \in S
  <2>1. 0..n \subseteq S
    BY <1>2, <1>10, <1>11, UpTo
  <2> QED BY <1>2, <2>1
<1> USE DEF S
<1> QED BY <1>1, <1>2, <1>8, <1>12

\* What is left becomes the array.
LEMMA LeftBecomes ==
    ASSUME Inv, NEW p, p = Left(data, length), NEW r \in Lefts(Size(data)), NEW f, IsLeft(p, r, f)
    PROVE  CanBecome(r.d, r.n, r.n)
<1>1. PICK m \in Nat : m = Size(data)
  BY ArrayIs
<1>2. p.d = data /\ p.n = length
  BY DEF Left
<1>3. r.n \in Nat /\ r.n <= m /\ IsBlock(r.d) /\ Size(r.d) = m
  BY <1>1, LeftFields
<1>4. \A k \in length..(m - 1) : r.d[k] = data[k]
  BY <1>1, <1>2 DEF IsLeft
<1>5. ASSUME NEW k \in 0..(m - 1), k >= high PROVE r.d[k] = Undefined
  <2>1. length \in Nat /\ high \in Nat /\ length <= high
    BY ArrayIs
  <2>2. k \in length..(m - 1) /\ k \in high..(Size(data) - 1)
    BY <1>1, <1>5, <2>1
  <2>3. data[k] = Undefined
    BY <2>2, ArrayIs
  <2> QED BY <1>4, <2>2, <2>3
<1> QED BY <1>1, <1>3, <1>5 DEF CanBecome

\* Values are copied in from the start.
LEMMA CopiedFirst ==
    ASSUME NEW b, IsBlock(b), NEW s, IsSequence(s), \A k \in 1..Len(s) : s[k] \in Slot, NEW d, d = CopyIn(b, 0, s)
    PROVE  /\ IsBlock(d) /\ Size(d) = Size(b)
           /\ \A k \in 0..(Size(b) - 1) : d[k] = IF k < Len(s) THEN s[k + 1] ELSE b[k]
<1>1. PICK zero \in Int : zero = 0
  OBVIOUS
<1>2. d = CopyIn(b, zero, s)
  BY <1>1
<1>3. /\ IsBlock(d) /\ Size(d) = Size(b)
      /\ \A k \in 0..(Size(b) - 1) : d[k] = IF zero <= k /\ k < zero + Len(s) THEN s[k - zero + 1] ELSE b[k]
  BY <1>1, <1>2, CopiedIn
<1>4. Len(s) \in Nat /\ Size(b) \in Nat
  BY BlockIs DEF IsSequence
<1> QED BY <1>1, <1>3, <1>4

\* What is not undefined, and undefined for the rest of the length
Filled(some, n) == some \o [k \in 1..(n - Len(some)) |-> Undefined]

\* What is not undefined becomes the array (compactArray).
LEMMA CompactedIs ==
    ASSUME Inv, NEW some, some = compactArray,
           NEW d, d = CopyIn(data, 0, Filled(some, length))
    PROVE  /\ Len(some) \in 0..length /\ CanBecome(d, Len(some), Len(some))
           /\ \A k \in 0..(Len(some) - 1) : d[k] = some[k + 1]
<1>1. PICK T : T = {k \in 1..length : data[k - 1] # Undefined}
  OBVIOUS
<1>2. some \in Seq(Slot) /\ Len(some) <= length
  BY <1>1, CompactIs DEF Picks
<1>3. PICK l \in Nat : l = Len(some) /\ l <= length
  BY <1>2
<1>4. PICK gap \in Nat : gap = length - l
  BY <1>3, ArrayIs
<1>5. PICK rest : rest = [k \in 1..gap |-> Undefined]
  OBVIOUS
<1>6. rest \in Seq(Slot) /\ Len(rest) = gap
  <2>1. Undefined \in Slot
    BY ElementAssumption DEF Slot
  <2> QED BY <1>5, <2>1
<1>7. PICK s : s = some \o rest
  OBVIOUS
<1>8. s \in Seq(Slot) /\ Len(s) = l + gap /\ \A k \in 1..l : s[k] = some[k]
  <2>1. /\ some \o rest \in Seq(Slot) /\ Len(some \o rest) = Len(some) + Len(rest)
        /\ \A k \in 1..(Len(some) + Len(rest)) :
               (some \o rest)[k] = IF k <= Len(some) THEN some[k] ELSE rest[k - Len(some)]
    BY <1>2, <1>6, ConcatProperties
  <2>2. \A k \in 1..l : k \in 1..(Len(some) + Len(rest)) /\ k <= Len(some)
    BY <1>3, <1>4, <1>6
  <2> QED BY <1>3, <1>6, <1>7, <2>1, <2>2
<1>9. IsSequence(s) /\ \A k \in 1..Len(s) : s[k] \in Slot
  BY <1>8 DEF IsSequence
<1>10. d = CopyIn(data, 0, s)
  <2>1. s = Filled(some, length)
    BY <1>3, <1>4, <1>5, <1>7 DEF Filled
  <2> QED BY <2>1
<1>11. PICK b : b = data
  OBVIOUS
<1>12. /\ IsBlock(d) /\ Size(d) = Size(b)
       /\ \A k \in 0..(Size(b) - 1) : d[k] = IF k < Len(s) THEN s[k + 1] ELSE b[k]
  <2>1. IsBlock(b)
    BY <1>11, ArrayIs
  <2>2. d = CopyIn(b, 0, s)
    BY <1>10, <1>11
  <2> QED BY <1>9, <2>1, <2>2, CopiedFirst
<1>13. length \in Nat /\ high \in Nat /\ length <= high /\ Size(b) \in Nat /\ high <= Size(b)
  BY <1>11, ArrayIs
<1>14. CanBecome(d, l, l)
  <2>1. ASSUME NEW k \in 0..(Size(d) - 1), k >= high PROVE d[k] = Undefined
    <3>1. k \in high..(Size(data) - 1) /\ k \in 0..(Size(b) - 1) /\ ~(k < Len(s))
      BY <1>4, <1>8, <1>11, <1>12, <1>13, <2>1
    <3>2. data[k] = Undefined
      BY <3>1, ArrayIs
    <3> QED BY <1>11, <1>12, <3>1, <3>2
  <2>2. l \in 0..Size(d) /\ Size(d) >= Size(data) /\ l \in l..Size(d)
    BY <1>3, <1>11, <1>12, <1>13
  <2>3. IsBlock(d)
    BY <1>12
  <2> QED BY <2>1, <2>2, <2>3 DEF CanBecome
<1>15. ASSUME NEW k \in 0..(l - 1) PROVE d[k] = some[k + 1]
  <2>1. k < Len(s) /\ k + 1 \in 1..l
    BY <1>3, <1>4, <1>8
  <2>2. k \in 0..(Size(b) - 1)
    BY <1>3, <1>13
  <2> QED BY <1>8, <1>12, <2>1, <2>2
<1>16. l \in 0..length
  BY <1>3, <1>13
<1> QED BY <1>3, <1>14, <1>15, <1>16

-----------------------------------------------------------------------------
(***************************************************************************)
(* The methods keep the invariant.                                          *)
(***************************************************************************)

\* A block that does not change.
LEMMA Same ==
    ASSUME Inv, NEW n \in 0..length
    PROVE  CanBecome(data, n, n)
<1>1. length \in Nat /\ high \in Nat /\ length <= high /\ Size(data) \in Nat /\ high <= Size(data) /\ IsBlock(data)
  BY ArrayIs
<1>2. ASSUME NEW k \in 0..(Size(data) - 1), k >= high PROVE data[k] = Undefined
  <2>1. k \in high..(Size(data) - 1)
    BY <1>1, <1>2
  <2> QED BY <2>1, ArrayIs
<1> QED BY <1>1, <1>2 DEF CanBecome

\* Elements by their index, and length.
LEMMA IndexedOK ==
    ASSUME Inv, NEW v \in Value, NEW i \in Positions,
           set(i, v) \/ get(i) \/ deleteArrayProperty(i) \/ setArrayLength(i)
    PROVE  Inv'
<1>1. i \in Int /\ v \in Slot
  BY ArgumentAssumption DEF Slot
<1>2. length \in Nat /\ Size(data) \in Nat /\ high \in Nat
  BY ArrayIs
<1>3. CASE set(i, v)
  <2>1. CanBecome(setData(i, v), Larger(length, checkSlot(i) + 1), Larger(length, checkSlot(i) + 1))
    BY <1>1, SetIs
  <2> QED BY <1>3, <2>1, MutatesOK DEF set
<1>5. CASE get(i)
  BY <1>5, AnsweredOK DEF get
<1>6. CASE deleteArrayProperty(i)
  <2>1. CASE i \notin 0..(length - 1)
    BY <1>6, <2>1, AnsweredOK DEF deleteArrayProperty
  <2>2. CASE i \in 0..(length - 1)
    <3>1. PICK d, n : d = [data EXCEPT ![i] = Undefined] /\ n = IF i + 1 = length THEN length - 1 ELSE length
      OBVIOUS
    <3>2. CanBecome(d, n, n)
      BY <2>2, <3>1, DeletedIs
    <3>3. Mutates("delete", <<i>>, d, n, <<>>)
      BY <1>6, <2>2, <3>1 DEF deleteArrayProperty
    <3> QED BY <3>2, <3>3, MutatesOK
  <2> QED BY <2>1, <2>2
<1>7. CASE setArrayLength(i)
  <2>1. PICK g : g = growArray(data, length, i)
    OBVIOUS
  <2>2. /\ IsBlock(g) /\ Size(g) \in Nat /\ Size(g) >= Size(data) /\ Size(g) >= i
        /\ \A k \in high..(Size(g) - 1) : g[k] = Undefined
    BY <1>1, <2>1, GrownIs
  <2>3. PICK n \in Nat : n = Larger(i, 0) /\ n <= Size(g)
    BY <1>1, <2>2 DEF Larger
  <2>4. CanBecome(g, n, n)
    <3>1. ASSUME NEW k \in 0..(Size(g) - 1), k >= high PROVE g[k] = Undefined
      BY <1>2, <2>2, <3>1
    <3> QED BY <2>2, <2>3, <3>1 DEF CanBecome
  <2>5. Mutates("length", <<i>>, g, n, <<>>)
    BY <1>7, <2>1, <2>3 DEF setArrayLength
  <2> QED BY <2>4, <2>5, MutatesOK
<1> QED BY <1>3, <1>5, <1>6, <1>7

\* One more element.
LEMMA AppendOK ==
    ASSUME Inv, NEW v \in Value, append(v)
    PROVE  Inv'
<1>1. v \in Slot /\ length \in Nat
  BY ArrayIs DEF Slot
<1>2. length \in Int /\ checkSlot(length) = length
  BY <1>1 DEF checkSlot
<1>3. CanBecome(setData(length, v), Larger(length, checkSlot(length) + 1), Larger(length, checkSlot(length) + 1))
  BY <1>1, <1>2, SetIs
<1>4. Larger(length, length + 1) = length + 1
  BY <1>1 DEF Larger
<1>5. CanBecome(setData(length, v), length + 1, length + 1)
  BY <1>2, <1>3, <1>4
<1> QED BY <1>5, MutatesOK DEF append

\* No elements.
LEMMA ClearOK ==
    ASSUME Inv, clear
    PROVE  Inv'
<1>1. 0 \in 0..length
  BY ArrayIs
<1>2. CanBecome(data, 0, 0)
  BY <1>1, Same
<1> QED BY <1>2, MutatesOK DEF clear

\* The position that a method makes of its argument.
LEMMA FromEndIs ==
    ASSUME Inv, NEW i \in Int
    PROVE  /\ FromEnd(i) \in Nat /\ Smaller(FromEnd(i), length) \in 0..length
           /\ length # 0 => Smaller(FromEnd(i), length - 1) \in 0..(length - 1)
<1>1. length \in Nat
  BY ArrayIs
<1>2. FromEnd(i) \in Nat
  BY <1>1 DEF FromEnd, Larger
<1> QED BY <1>1, <1>2 DEF Smaller

\* How many elements a splice removes.
LEMMA SpliceCountIs ==
    ASSUME Inv, NEW from \in 0..(length - 1), NEW count \in Int
    PROVE  /\ spliceCount(from, count) \in 0..length
           /\ count \in 0..(length - from) => spliceCount(from, count) = count
<1>1. length \in Nat
  BY ArrayIs
<1> QED BY <1>1 DEF spliceCount, Smaller

\* Elements put in at either end.
LEMMA PutsOK ==
    ASSUME Inv, NEW items \in Inputs, push(items) \/ unshift(items)
    PROVE  Inv'
<1>2. length \in Nat /\ Size(data) \in Nat /\ high \in Nat /\ Len(items) \in Nat
  BY ArrayIs, ItemsAre
<1>3. PICK n \in Nat : n = length + Len(items)
  BY <1>2
<1>4. CASE push(items)
  <2>1. PICK d : d = CopyIn(growArray(data, length, n), length, items)
    OBVIOUS
  <2>2. CanBecome(d, n, n)
    BY <1>3, <2>1, PushedIs
  <2>3. Mutates("push", <<items>>, d, n, <<n>>)
    BY <1>3, <1>4, <2>1 DEF push
  <2> QED BY <2>2, <2>3, MutatesOK
<1>5. CASE unshift(items)
  <2>1. PICK d : d = Inserted(0, items)
    OBVIOUS
  <2>2. CanBecome(d, n, n)
    <3>1. 0 \in 0..length
      BY <1>2
    <3> QED BY <1>3, <2>1, <3>1, InsertedIs
  <2>3. Mutates("unshift", <<items>>, d, n, <<>>)
    BY <1>3, <1>5, <2>1 DEF unshift
  <2> QED BY <2>2, <2>3, MutatesOK
<1> QED BY <1>4, <1>5

\* Elements taken from either end.
LEMMA TakesOK ==
    ASSUME Inv, pop \/ shift
    PROVE  Inv'
<1>2. length \in Nat
  BY ArrayIs
<1>8. CASE pop
  <2>1. CASE length = 0
    BY <1>8, <2>1, AnsweredOK DEF pop
  <2>2. CASE length # 0
    <3>1. CanBecome(data, length - 1, length - 1)
      <4>1. length - 1 \in 0..length
        BY <1>2, <2>2
      <4> QED BY <4>1, Same
    <3> QED BY <1>8, <2>2, <3>1, MutatesOK DEF pop
  <2> QED BY <2>1, <2>2
<1>9. CASE shift
  <2>1. CASE length = 0
    BY <1>9, <2>1, AnsweredOK DEF shift
  <2>2. CASE length # 0
    <3>1. PICK d : d = MoveDown(data, 0, length - 2, 1)
      OBVIOUS
    <3>2. CanBecome(d, length - 1, length - 1)
      BY <2>2, <3>1, ShiftedIs
    <3>3. Mutates("shift", <<>>, d, length - 1, <<data[0]>>)
      BY <1>9, <2>2, <3>1 DEF shift
    <3> QED BY <3>2, <3>3, MutatesOK
  <2> QED BY <2>1, <2>2
<1> QED BY <1>8, <1>9

\* Elements put in at a position.
LEMMA ItemsOK ==
    ASSUME Inv, NEW items \in Inputs, NEW i \in Positions, NEW count \in Positions,
           insert(i, items) \/ splice(i, count, items)
    PROVE  Inv'
<1>1. i \in Int /\ count \in Int
  BY ArgumentAssumption
<1>2. length \in Nat /\ Size(data) \in Nat /\ high \in Nat /\ Len(items) \in Nat
  BY ArrayIs, ItemsAre
<1>3. PICK n \in Nat : n = length + Len(items)
  BY <1>2
<1>6. CASE insert(i, items)
  <2>1. PICK pos : pos = Smaller(FromEnd(i), length)
    OBVIOUS
  <2>2. pos \in 0..length
    BY <1>1, <2>1, FromEndIs
  <2>3. PICK d : d = Inserted(pos, items)
    OBVIOUS
  <2>4. CanBecome(d, n, n)
    BY <1>3, <2>2, <2>3, InsertedIs
  <2>5. Mutates("insert", <<i, items>>, d, n, <<>>)
    BY <1>3, <1>6, <2>1, <2>3 DEF insert
  <2> QED BY <2>4, <2>5, MutatesOK
<1>7. CASE splice(i, count, items)
  <2>1. CASE length = 0
    BY <1>7, <2>1, AnsweredOK DEF splice
  <2>2. CASE length # 0
    <3>1. PICK from : from = Smaller(FromEnd(i), length - 1)
      OBVIOUS
    <3>2. from \in 0..(length - 1)
      BY <1>1, <2>2, <3>1, FromEndIs
    <3>3. PICK removed : removed = spliceCount(from, count)
      OBVIOUS
    <3>4. removed \in 0..length
      BY <1>1, <3>2, <3>3, SpliceCountIs
    <3>5. PICK l \in Nat : l = length + Len(items) - removed
      <4>1. PICK len \in Nat, c \in Nat : len = length /\ c = Len(items)
        BY <1>2
      <4>2. removed \in 0..len
        BY <3>4, <4>1
      <4>3. len + c - removed \in Nat
        BY <4>2
      <4> QED BY <4>1, <4>3
    <3>6. PICK d : d = Spliced(from, removed, items)
      OBVIOUS
    <3>7. /\ from + Len(items) <= Larger(Size(data), l)
          /\ Reach(d, l, Larger(l, from + Len(items))) /\ frames' = Watched(frames, d, l)
      BY <1>7, <2>2, <3>1, <3>3, <3>5, <3>6 DEF splice
    <3>8. CanBecome(d, l, Larger(l, from + Len(items)))
      BY <3>2, <3>4, <3>5, <3>6, <3>7, SplicedIs
    <3>9. PICK reach : reach = Larger(l, from + Len(items))
      OBVIOUS
    <3>10. CanBecome(d, l, reach) /\ Reach(d, l, reach)
      BY <3>7, <3>8, <3>9
    <3>11. /\ IsBlock(d) /\ Size(d) >= Size(data) /\ l \in 0..Size(d) /\ reach \in l..Size(d)
           /\ \A k \in 0..(Size(d) - 1) : k >= high /\ k >= reach => d[k] = Undefined
      BY <3>10 DEF CanBecome
    <3>12. FramesOK(frames, data, length) /\ AllInReach(frames, high)
      BY ArrayIs
    <3> QED BY <3>7, <3>10, <3>11, <3>12, ArrayBecomes
  <2> QED BY <2>1, <2>2
<1> QED BY <1>6, <1>7

\* Elements removed by their value, and arrays made of others.
LEMMA OthersOK ==
    ASSUME Inv, NEW items \in Inputs,
           removeElements(items) \/ concat(items) \/ makeIntersection(items) \/ makeUnion(items)
    PROVE  Inv'
<1>1. CASE removeElements(items)
  <2>1. PICK p : p = Left(data, length)
    OBVIOUS
  <2>2. PICK r : r = removeArrayElements(items)
    OBVIOUS
  <2>3. r \in Lefts(Size(data)) /\ \E f : IsLeft(p, r, f)
    BY <2>1, <2>2, RemovedIs DEF Stripped
  <2>4. PICK d, n : d = r.d /\ n = r.n
    OBVIOUS
  <2>5. CanBecome(d, n, n)
    BY <2>1, <2>3, <2>4, LeftBecomes
  <2>6. Mutates("removeElements", <<items>>, d, n, <<>>)
    BY <1>1, <2>2, <2>4 DEF removeElements
  <2> QED BY <2>5, <2>6, MutatesOK
<1>2. CASE concat(items)
  BY <1>2, AnsweredOK DEF concat
<1>3. CASE makeIntersection(items)
  BY <1>3, AnsweredOK DEF makeIntersection
<1>4. CASE makeUnion(items)
  BY <1>4, AnsweredOK DEF makeUnion
<1> QED BY <1>1, <1>2, <1>3, <1>4

\* Elements rearranged.
LEMMA RearrangesOK ==
    ASSUME Inv, unique \/ compact \/ reverse \/ clone
    PROVE  Inv'
<1>2. CASE unique
  <2>1. PICK p : p = Left(data, length)
    OBVIOUS
  <2>2. PICK r : r = uniqueArray
    OBVIOUS
  <2>3. r \in Lefts(Size(data)) /\ \E f : IsLeft(p, r, f)
    BY <2>1, <2>2, UniqueIs DEF Rarer
  <2>4. PICK d, n : d = r.d /\ n = r.n
    OBVIOUS
  <2>5. CanBecome(d, n, n)
    BY <2>1, <2>3, <2>4, LeftBecomes
  <2>6. Mutates("unique", <<>>, d, n, <<>>)
    BY <1>2, <2>2, <2>4 DEF unique
  <2> QED BY <2>5, <2>6, MutatesOK
<1>3. CASE compact
  <2>1. PICK some : some = compactArray
    OBVIOUS
  <2>2. PICK d : d = CopyIn(data, 0, Filled(some, length))
    OBVIOUS
  <2>3. CanBecome(d, Len(some), Len(some))
    BY <2>1, <2>2, CompactedIs
  <2>4. Mutates("compact", <<>>, d, Len(some), <<>>)
    BY <1>3, <2>1, <2>2 DEF compact, Filled
  <2> QED BY <2>3, <2>4, MutatesOK
<1>4. CASE reverse
  <2>1. PICK d : d = [m \in DOMAIN data |-> IF m < length THEN data[length - 1 - m] ELSE data[m]]
    OBVIOUS
  <2>2. CanBecome(d, length, length)
    BY <2>1, ReversedIs
  <2>3. Mutates("reverse", <<>>, d, length, <<>>)
    BY <1>4, <2>1 DEF reverse
  <2> QED BY <2>2, <2>3, MutatesOK
<1>5. CASE clone
  BY <1>5, AnsweredOK DEF clone
<1> QED BY <1>2, <1>3, <1>4, <1>5

-----------------------------------------------------------------------------
(***************************************************************************)
(* Loops keep the invariant.                                                *)
(***************************************************************************)

\* The innermost frame and the others.
LEMMA TopIs ==
    ASSUME Inv, frames # <<>>
    PROVE  /\ FrameOK(Top, data, length) /\ Top \in Frame /\ InReach(Top, high)
           /\ FramesOK(Tail(frames), data, length) /\ AllInReach(Tail(frames), high) /\ Tail(frames) \in Seq(Frame)
<1>1. frames \in Seq(Frame) /\ FramesOK(frames, data, length) /\ AllInReach(frames, high)
  BY ArrayIs
<1>2. FramesOK(Tail(frames), data, length) /\ FrameOK(Head(frames), data, length)
  BY <1>1, TailOK
<1>3. AllInReach(Tail(frames), high) /\ InReach(Head(frames), high)
  BY <1>1, TailInReach
<1>4. Tail(frames) \in Seq(Frame) /\ Head(frames) \in Frame
  BY <1>1, HeadTail
<1> QED BY <1>2, <1>3, <1>4 DEF Top

\* The innermost frame changes, and nothing else.
LEMMA OnwardOK ==
    ASSUME Inv, frames # <<>>, NEW f, FrameOK(f, data, length), InReach(f, high), Onward(f),
           UNCHANGED <<data, length, high>>
    PROVE  Inv'
<1>1. FramesOK(Tail(frames), data, length) /\ AllInReach(Tail(frames), high) /\ Tail(frames) \in Seq(Frame)
  BY TopIs
<1>2. FramesOK(<<f>> \o Tail(frames), data, length)
  BY <1>1, PushedOK
<1>3. f \in Frame
  BY FrameIs
<1>4. AllInReach(<<f>> \o Tail(frames), high)
  BY <1>1, <1>3, PushedInReach
<1> QED BY <1>2, <1>4, ArrayStays DEF Onward

\* The innermost frame ends, and nothing else.
LEMMA EndOK ==
    ASSUME Inv, frames # <<>>, frames' = Tail(frames), UNCHANGED <<data, length, high>>
    PROVE  Inv'
BY TopIs, ArrayStays

\* A loop or a sort begins.
LEMMA InwardOK ==
    ASSUME Inv, NEW f, FrameOK(f, data, length), InReach(f, high), Inward(f), UNCHANGED <<data, length, high>>
    PROVE  Inv'
<1>1. FramesOK(frames, data, length) /\ AllInReach(frames, high) /\ frames \in Seq(Frame)
  BY ArrayIs
<1>2. FramesOK(<<f>> \o frames, data, length)
  BY <1>1, PushedOK
<1>3. f \in Frame
  BY FrameIs
<1>4. AllInReach(<<f>> \o frames, high)
  BY <1>1, <1>3, PushedInReach
<1> QED BY <1>2, <1>4, ArrayStays DEF Inward

\* A loop begins (getArrayIterator).
LEMMA IteratorOK ==
    ASSUME Inv, NEW kind \in {"loop", "transform"}, getArrayIterator(kind)
    PROVE  Inv'
<1>1. length \in Nat /\ Size(data) \in Nat /\ length <= Size(data)
  BY ArrayIs
<1>2. PICK f : f = Iterator(kind)
  OBVIOUS
<1>3. Defined(data, length) \in SUBSET Nat /\ \A i \in Defined(data, length) : i < length
  BY <1>1 DEF Defined
<1>4. /\ f.kind = kind /\ f.index = 0 /\ f.limit = length /\ f.calls = FALSE /\ f.taken = {}
      /\ f.kept = Defined(data, length) /\ f \in LoopFrame
  BY <1>1, <1>2, <1>3 DEF Iterator, LoopFrame
<1>5. \A i \in f.kept : ~(i < f.index)
  BY <1>3, <1>4
<1>6. IsLoop(f, data, length)
  BY <1>1, <1>3, <1>4, <1>5 DEF IsLoop
<1>7. InReach(f, high)
  BY <1>4 DEF InReach
<1> QED BY <1>2, <1>6, <1>7, InwardOK DEF getArrayIterator, FrameOK

\* What a loop is.
LEMMA TopLoop ==
    ASSUME Inv, frames # <<>>, Top.kind # "sort"
    PROVE  IsLoop(Top, data, length) /\ Top \in LoopFrame
<1>1. FrameOK(Top, data, length)
  BY TopIs
<1>2. ~IsSort(Top, data, length)
  BY SortFields DEF IsSort
<1> QED BY <1>1, <1>2 DEF FrameOK, IsLoop

\* A loop that is like another but for calls.
LEMMA LoopCalls ==
    ASSUME NEW f, NEW d, NEW n, IsLoop(f, d, n), NEW calls \in BOOLEAN, calls => f.index > 0,
           NEW g, g = [f EXCEPT !.calls = calls], NEW h
    PROVE  IsLoop(g, d, n) /\ g.kind = f.kind /\ InReach(g, h)
<1>1. f \in LoopFrame
  BY DEF IsLoop
<1>2. /\ g \in LoopFrame /\ g.limit = f.limit /\ g.index = f.index /\ g.calls = calls /\ g.taken = f.taken
      /\ g.kept = f.kept /\ g.kind = f.kind
  BY <1>1 DEF LoopFrame
<1>3. g.kind # "sort"
  BY <1>2, LoopFields
<1> QED BY <1>2, <1>3 DEF IsLoop, InReach

\* A loop gives the next slot (nextArrayKey).
LEMMA LoopNext ==
    ASSUME NEW f, NEW d, NEW n, IsLoop(f, d, n), NEW i \in f.index..(f.limit - 1),
           \A k \in f.index..(f.limit - 1) : d[k] # Undefined => i <= k,
           NEW g, g = [f EXCEPT !.index = i + 1, !.calls = TRUE, !.taken = @ \cup {i}], NEW h
    PROVE  IsLoop(g, d, n) /\ InReach(g, h)
<1>1. f \in LoopFrame
  BY DEF IsLoop
<1>2. i \in Nat /\ f.index \in Nat /\ f.limit \in Nat
  BY <1>1, LoopFields
<1>3. /\ g \in LoopFrame /\ g.limit = f.limit /\ g.index = i + 1 /\ g.calls = TRUE /\ g.taken = f.taken \cup {i}
      /\ g.kept = f.kept /\ g.kind = f.kind
  <2>1. PICK taken \in SUBSET Nat : taken = f.taken \cup {i}
    BY <1>1, <1>2, LoopFields
  <2>2. PICK index \in Nat : index = i + 1
    BY <1>2
  <2>3. g = [f EXCEPT !.index = index, !.calls = TRUE, !.taken = taken]
    BY <2>1, <2>2
  <2>4. /\ g \in LoopFrame /\ g.limit = f.limit /\ g.index = index /\ g.calls = TRUE /\ g.taken = taken
        /\ g.kept = f.kept /\ g.kind = f.kind
    BY <1>1, <2>1, <2>2, <2>3 DEF LoopFrame
  <2> QED BY <2>1, <2>2, <2>4
<1>4. ASSUME NEW k \in f.kept, k < i + 1 PROVE k \in f.taken \cup {i}
  <2>1. k \in Nat /\ k < f.limit /\ d[k] # Undefined
    <3>1. k \in Nat
      BY <1>1, LoopFields
    <3> QED BY <3>1 DEF IsLoop, Defined
  <2>2. CASE k < f.index
    BY <2>2 DEF IsLoop
  <2>3. CASE ~(k < f.index)
    <3>1. k \in f.index..(f.limit - 1)
      BY <1>2, <2>1, <2>3
    <3>2. i <= k
      BY <2>1, <3>1
    <3>3. k = i
      BY <1>2, <1>4, <2>1, <3>2
    <3> QED BY <3>3
  <2> QED BY <2>2, <2>3
<1>5. g.kind # "sort"
  BY <1>3, LoopFields
<1>6. IsLoop(g, d, n)
  BY <1>2, <1>3, <1>4 DEF IsLoop
<1> QED BY <1>5, <1>6 DEF InReach

\* The steps of loops.
LEMMA AroundOK ==
    ASSUME Inv, Around
    PROVE  Inv'
<1>1. CASE \E kind \in {"loop", "transform"} : getArrayIterator(kind)
  BY <1>1, IteratorOK
<1>2. CASE nextArrayKey
  <2>1. frames # <<>> /\ Top.kind # "sort" /\ UNCHANGED <<data, length, high>>
    BY <1>2 DEF nextArrayKey
  <2>2. PICK f : f = Top
    OBVIOUS
  <2>3. IsLoop(f, data, length)
    BY <2>1, <2>2, TopLoop
  <2>4. CASE frames' = Tail(frames)
    BY <2>1, <2>4, EndOK
  <2>5. CASE frames' # Tail(frames)
    <3>1. PICK i \in f.index..(f.limit - 1) :
             /\ data[i] # Undefined
             /\ \A k \in f.index..(f.limit - 1) : data[k] # Undefined => i <= k
             /\ Onward([f EXCEPT !.index = i + 1, !.calls = TRUE, !.taken = @ \cup {i}])
      <4>1. PICK next : next = {k \in f.index..(f.limit - 1) : data[k] # Undefined}
        OBVIOUS
      <4>2. \E i \in next :
               /\ \A k \in next : i <= k
               /\ Onward([f EXCEPT !.index = i + 1, !.calls = TRUE, !.taken = @ \cup {i}])
        BY <1>2, <2>2, <2>5, <4>1, Zenon DEF nextArrayKey
      <4> QED BY <4>1, <4>2, Zenon
    <3>2. PICK g : g = [f EXCEPT !.index = i + 1, !.calls = TRUE, !.taken = @ \cup {i}]
      OBVIOUS
    <3>3. IsLoop(g, data, length) /\ InReach(g, high)
      BY <2>3, <3>1, <3>2, LoopNext
    <3>4. FrameOK(g, data, length) /\ Onward(g)
      BY <3>1, <3>2, <3>3 DEF FrameOK
    <3> QED BY <2>1, <3>3, <3>4, OnwardOK
  <2> QED BY <2>4, <2>5
<1>3. CASE BodyEnds
  <2>1. frames # <<>> /\ Top.kind # "sort" /\ UNCHANGED <<data, length, high>> /\ Onward([Top EXCEPT !.calls = FALSE])
    BY <1>3 DEF BodyEnds
  <2>2. PICK g : g = [Top EXCEPT !.calls = FALSE]
    OBVIOUS
  <2>3. IsLoop(g, data, length) /\ InReach(g, high)
    BY <2>1, <2>2, TopLoop, LoopCalls
  <2>4. FrameOK(g, data, length) /\ Onward(g)
    BY <2>1, <2>2, <2>3 DEF FrameOK
  <2> QED BY <2>1, <2>3, <2>4, OnwardOK
<1>4. CASE Leave
  BY <1>4, EndOK DEF Leave
<1>5. ASSUME NEW v \in Value, transform(v) PROVE Inv'
  <2>1. frames # <<>> /\ Top.kind # "sort" /\ Top.calls
    BY <1>5 DEF transform
  <2>2. PICK f : f = Top
    OBVIOUS
  <2>3. IsLoop(f, data, length) /\ f \in LoopFrame
    BY <2>1, <2>2, TopLoop
  <2>4. PICK i \in Nat : i = f.index - 1
    BY <2>1, <2>2, <2>3, LoopFields DEF IsLoop
  <2>5. PICK g : g = [f EXCEPT !.calls = FALSE]
    OBVIOUS
  <2>6. IsLoop(g, data, length) /\ InReach(g, high)
    BY <2>3, <2>5, LoopCalls
  <2>7. FrameOK(g, data, length) /\ g \in Frame
    BY <2>6, FrameIs DEF FrameOK
  <2>8. PICK fs : fs = <<g>> \o Tail(frames)
    OBVIOUS
  <2>9. FramesOK(fs, data, length) /\ AllInReach(fs, high)
    <3>1. FramesOK(Tail(frames), data, length) /\ AllInReach(Tail(frames), high) /\ Tail(frames) \in Seq(Frame)
      BY <2>1, TopIs
    <3> QED BY <2>6, <2>7, <2>8, <3>1, PushedOK, PushedInReach
  <2>10. PICK d, n : d = setData(i, v) /\ n = Larger(length, i + 1)
    OBVIOUS
  <2>11. CanBecome(d, n, n)
    <3>1. i \in Int /\ v \in Slot /\ checkSlot(i) = i
      BY <2>4 DEF checkSlot, Slot
    <3>2. CanBecome(setData(i, v), Larger(length, checkSlot(i) + 1), Larger(length, checkSlot(i) + 1))
      BY <3>1, SetIs
    <3> QED BY <2>10, <3>1, <3>2
  <2>12. Become(d, n) /\ frames' = Watched(fs, data', length')
    BY <1>5, <2>2, <2>4, <2>5, <2>8, <2>10 DEF transform
  <2>13. Reach(d, n, n) /\ frames' = Watched(fs, d, n)
    BY <2>12 DEF Become, Reach
  <2>14. /\ IsBlock(d) /\ Size(d) >= Size(data) /\ n \in 0..Size(d) /\ n \in n..Size(d)
         /\ \A k \in 0..(Size(d) - 1) : k >= high /\ k >= n => d[k] = Undefined
    BY <2>11 DEF CanBecome
  <2> QED BY <2>9, <2>13, <2>14, ArrayBecomes
<1> QED BY <1>1, <1>2, <1>3, <1>4, <1>5 DEF Around

-----------------------------------------------------------------------------
(***************************************************************************)
(* Slots that change places.                                                *)
(***************************************************************************)
Opposite(a, b, k) == IF k = a THEN b ELSE IF k = b THEN a ELSE k

\* A block in which two slots have changed places
Swapped(d, e, a, b) ==
    IsBlock(e) /\ Size(e) = Size(d) /\ \A k \in 0..(Size(d) - 1) : e[k] = d[Opposite(a, b, k)]

\* Two slots change places, one after the other.
LEMMA SwapIs ==
    ASSUME NEW d, IsBlock(d), NEW a \in 0..(Size(d) - 1), NEW b \in 0..(Size(d) - 1), NEW v, v = d[a], NEW w, w = d[b],
           NEW e, e = Put(Put(d, a, w), b, v)
    PROVE  Swapped(d, e, a, b)
<1>1. v \in Slot /\ w \in Slot /\ Size(d) \in Nat
  BY BlockIs
<1>2. PICK g : g = Put(d, a, w)
  OBVIOUS
<1>3. IsBlock(g) /\ Size(g) = Size(d) /\ \A k \in 0..(Size(d) - 1) : g[k] = IF k = a THEN w ELSE d[k]
  BY <1>1, <1>2, SlotSet
<1>4. IsBlock(e) /\ Size(e) = Size(g) /\ \A k \in 0..(Size(g) - 1) : e[k] = IF k = b THEN v ELSE g[k]
  <2>1. b \in 0..(Size(g) - 1) /\ e = Put(g, b, v)
    BY <1>2, <1>3
  <2> QED BY <1>1, <1>3, <2>1, SlotSet
<1>5. ASSUME NEW k \in 0..(Size(d) - 1) PROVE e[k] = d[Opposite(a, b, k)]
  BY <1>3, <1>4 DEF Opposite
<1> QED BY <1>3, <1>4, <1>5 DEF Swapped

\* Nothing changes when a slot changes places with itself.
LEMMA SwapSame ==
    ASSUME NEW d, IsBlock(d), NEW a
    PROVE  Swapped(d, d, a, a)
BY DEF Swapped, Opposite

\* What slots hold that have changed places.
LEMMA SwapHolds ==
    ASSUME NEW d, NEW n \in Nat, NEW e, NEW a \in 0..(n - 1), NEW b \in 0..(n - 1), Swapped(d, e, a, b), n <= Size(d), Size(d) \in Nat
    PROVE  /\ e[a] = d[b] /\ e[b] = d[a] /\ \A k \in 0..(n - 1) : k # a /\ k # b => e[k] = d[k]
           /\ \A k \in Size(d)..(Size(d) - 1) : e[k] = d[k]
           /\ \A k \in n..(Size(d) - 1) : e[k] = d[k]
BY DEF Swapped, Opposite

\* The places are exchanged one to one.
LEMMA OppositeIs ==
    ASSUME NEW p \in Int, NEW r \in Int, NEW a \in p..r, NEW b \in p..r, NEW k \in Int
    PROVE  /\ Opposite(a, b, k) \in Int /\ Opposite(a, b, Opposite(a, b, k)) = k
           /\ k \in p..r => Opposite(a, b, k) \in p..r
           /\ k \notin p..r => Opposite(a, b, k) = k
BY DEF Opposite

\* A sequence of n elements in which two have changed places
Exchanged(s, t, n, a, b) == DOMAIN s = 1..n /\ DOMAIN t = 1..n /\ \A k \in 1..n : t[k] = s[Opposite(a, b, k)]

\* Sequences have the same elements as often when two of them have changed places.
LEMMA TimesSwapped ==
    ASSUME NEW n \in Nat, NEW s, NEW t, NEW a \in 1..n, NEW b \in 1..n, Exchanged(s, t, n, a, b), NEW v
    PROVE  Times(v, t) = Times(v, s)
<1> USE DEF Exchanged
<1>1. PICK A, B : A = {k \in 1..n : t[k] = v} /\ B = {k \in 1..n : s[k] = v}
  OBVIOUS
<1>2. IsFiniteSet(A)
  <2>1. IsFiniteSet(1..n)
    BY FS_Interval
  <2> QED BY <1>1, <2>1, FS_Subset
<1>3. PICK g : g = [k \in A |-> Opposite(a, b, k)]
  OBVIOUS
<1>4. \A k \in 1..n : Opposite(a, b, k) \in 1..n /\ Opposite(a, b, Opposite(a, b, k)) = k
  BY DEF Opposite
<1>5. \A k \in A : g[k] \in B
  BY <1>1, <1>3, <1>4
<1>6. g \in [A -> B]
  BY <1>3, <1>5
<1>7. ASSUME NEW k \in A, NEW m \in A, g[k] = g[m] PROVE k = m
  BY <1>1, <1>3, <1>4, <1>7
<1>8. ASSUME NEW m \in B PROVE \E k \in A : g[k] = m
  <2>1. PICK k : k = Opposite(a, b, m)
    OBVIOUS
  <2>2. k \in 1..n /\ Opposite(a, b, k) = m
    BY <1>1, <1>4, <2>1
  <2>3. k \in A
    BY <1>1, <2>2
  <2> QED BY <1>3, <2>2, <2>3
<1>9. g \in Bijection(A, B)
  <2>1. g \in Injection(A, B)
    BY <1>6, <1>7 DEF Injection, IsInjective
  <2>2. g \in Surjection(A, B)
    BY <1>6, <1>8 DEF Surjection
  <2> QED BY <2>1, <2>2 DEF Bijection
<1>10. Cardinality(B) = Cardinality(A)
  <2>1. ExistsBijection(A, B)
    BY <1>9 DEF ExistsBijection
  <2> QED BY <1>2, <2>1, FS_Bijection
<1> QED BY <1>1, <1>10 DEF Times

\* So has the array.
LEMMA TimesKept ==
    ASSUME NEW d, IsBlock(d), NEW n \in 0..Size(d), NEW a \in 0..(n - 1), NEW b \in 0..(n - 1),
           NEW e, Swapped(d, e, a, b), NEW v
    PROVE  Times(v, Elems(e, 0, n)) = Times(v, Elems(d, 0, n))
<1>1. PICK m \in Nat : m = n
  BY BlockIs
<1>2. Size(d) \in Nat /\ m <= Size(d) /\ IsBlock(e) /\ Size(e) = Size(d)
  BY <1>1, BlockIs DEF Swapped
<1>3. PICK s, t : s = Elems(d, 0, n) /\ t = Elems(e, 0, n)
  OBVIOUS
<1>4. DOMAIN s = 1..m /\ DOMAIN t = 1..m
  BY <1>1, <1>3 DEF Elems
<1>5. \A k \in 1..m : s[k] = d[k - 1]
  <2> SUFFICES ASSUME NEW k \in 1..m PROVE s[k] = d[k - 1]
    OBVIOUS
  <2>1. s[k] = Read(d, k - 1)
    BY <1>1, <1>3 DEF Elems
  <2>2. k - 1 \in 0..(Size(d) - 1)
    BY <1>2
  <2> QED BY <2>1, <2>2, ReadIs
<1>6. \A k \in 1..m : t[k] = e[k - 1]
  <2> SUFFICES ASSUME NEW k \in 1..m PROVE t[k] = e[k - 1]
    OBVIOUS
  <2>1. t[k] = Read(e, k - 1)
    BY <1>1, <1>3 DEF Elems
  <2>2. k - 1 \in 0..(Size(e) - 1)
    BY <1>2
  <2> QED BY <1>2, <2>1, <2>2, ReadIs
<1>7. PICK x \in 1..m, y \in 1..m : x = a + 1 /\ y = b + 1
  BY <1>1
<1>8. ASSUME NEW k \in 1..m PROVE t[k] = s[Opposite(x, y, k)]
  <2>1. k - 1 \in 0..(Size(d) - 1)
    BY <1>2
  <2>2. e[k - 1] = d[Opposite(a, b, k - 1)]
    BY <2>1 DEF Swapped
  <2>3. t[k] = e[k - 1]
    BY <1>6
  <2>4. PICK o \in 1..m : o = Opposite(x, y, k)
    BY DEF Opposite
  <2>5. a = x - 1 /\ b = y - 1 /\ x \in Int /\ y \in Int
    BY <1>1, <1>7
  <2>6. Opposite(a, b, k - 1) = o - 1
    BY <2>4, <2>5 DEF Opposite
  <2>7. s[o] = d[o - 1]
    BY <1>5, <2>4
  <2>8. d[Opposite(a, b, k - 1)] = d[o - 1]
    BY <2>6
  <2>9. t[k] = s[o]
    BY <2>2, <2>3, <2>7, <2>8
  <2> QED BY <2>4, <2>9
<1>9. \A k \in 1..m : t[k] = s[Opposite(x, y, k)]
  BY <1>8
<1>10. Times(v, t) = Times(v, s)
  <2>1. m \in Nat /\ x \in 1..m /\ y \in 1..m
    BY <1>7
  <2>2. Exchanged(s, t, m, x, y)
    BY <1>4, <1>9 DEF Exchanged
  <2> QED BY <2>1, <2>2, TimesSwapped
<1> QED BY <1>3, <1>10

-----------------------------------------------------------------------------
(***************************************************************************)
(* The order of elements.                                                   *)
(***************************************************************************)

\* Of two elements one may come first.
LEMMA BeforeEither ==
    ASSUME NEW direction \in Int, NEW u \in Slot, NEW v \in Slot
    PROVE  Before(direction, u, v) \/ Before(direction, v, u)
<1>1. rank[u] \in Int /\ rank[v] \in Int
  BY ElementAssumption DEF Slot
<1>2. PICK x \in Int, y \in Int : x = rank[u] * direction /\ y = rank[v] * direction
  BY <1>1
<1> QED BY <1>2 DEF Before

\* What comes before others comes before what these come before.
LEMMA BeforeOn ==
    ASSUME NEW direction \in Int, NEW u \in Slot, NEW v \in Slot, NEW w \in Slot,
           Before(direction, u, v), Before(direction, v, w)
    PROVE  Before(direction, u, w)
<1>1. rank[u] \in Int /\ rank[v] \in Int /\ rank[w] \in Int
  BY ElementAssumption DEF Slot
<1>2. PICK x \in Int, y \in Int, z \in Int : x = rank[u] * direction /\ y = rank[v] * direction /\ z = rank[w] * direction
  BY <1>1
<1> QED BY <1>2 DEF Before

\* What the function of a sort tells when it tells the order.
LEMMA OrderIs ==
    ASSUME NEW direction \in Int, NEW v \in Slot, NEW w \in Slot
    PROVE  Order(v, w) \in Int /\ (Order(v, w) * direction > 0 <=> ~Before(direction, v, w))
<1>1. PICK x \in Int, y \in Int : x = rank[v] /\ y = rank[w]
  BY ElementAssumption DEF Slot
<1>2. PICK z \in Int : z = x - y
  OBVIOUS
<1>3. z * direction = x * direction - y * direction /\ x * direction \in Int /\ y * direction \in Int
  BY <1>2
<1>4. Before(direction, v, w) <=> ~(z * direction > 0)
  BY <1>1, <1>3 DEF Before
<1>5. Order(v, w) = IF z > 0 THEN 1 ELSE IF z < 0 THEN -1 ELSE 0
  BY <1>1, <1>2 DEF Order, Sign
<1>6. CASE z > 0
  <2>1. z * direction > 0 <=> direction > 0
    BY <1>6
  <2> QED BY <1>4, <1>5, <1>6, <2>1
<1>7. CASE z < 0
  <2>1. z * direction > 0 <=> direction < 0
    BY <1>7
  <2> QED BY <1>4, <1>5, <1>7, <2>1
<1>8. CASE z = 0
  BY <1>4, <1>5, <1>8
<1> QED BY <1>6, <1>7, <1>8

\* Elements of which one is outside of the part stay in order when slots of the part
\* change places.
LEMMA PairsOutside ==
    ASSUME NEW d, NEW n \in Nat, n <= Size(d), Size(d) \in Nat, NEW f \in SortFrame, f.part # <<>>, f.part[1].r < n,
           InOrder(f, d, n), NEW a \in f.part[1].p..f.part[1].r, NEW b \in f.part[1].p..f.part[1].r,
           NEW e, Swapped(d, e, a, b), NEW k \in 0..(n - 1), NEW m \in 0..(n - 1), k < m, ~Has(f.part[1], k, m)
    PROVE  Before(f.direction, e[k], e[m]) \/ \E q \in 1..Len(f.todo) : Has(f.todo[q], k, m)
<1>1. PICK p \in Nat, r \in Int : p = f.part[1].p /\ r = f.part[1].r
  BY PartIs
<1>2. PICK k1, m1 : k1 = Opposite(a, b, k) /\ m1 = Opposite(a, b, m)
  OBVIOUS
<1>3. /\ k1 \in Int /\ (k \in p..r => k1 \in p..r) /\ (k \notin p..r => k1 = k)
      /\ m1 \in Int /\ (m \in p..r => m1 \in p..r) /\ (m \notin p..r => m1 = m)
  <2>1. a \in p..r /\ b \in p..r
    BY <1>1
  <2>2. p \in Int /\ r \in Int /\ k \in Int /\ m \in Int
    BY <1>1
  <2> QED BY <1>2, <2>1, <2>2 DEF Opposite
<1>4. ~(p <= k /\ m <= r) /\ r < n
  BY <1>1 DEF Has
<1>5. k1 \in 0..(n - 1) /\ m1 \in 0..(n - 1) /\ k1 < m1 /\ ~(p <= k1 /\ m1 <= r)
  BY <1>3, <1>4
<1>6. e[k] = d[k1] /\ e[m] = d[m1]
  <2>1. k \in 0..(Size(d) - 1) /\ m \in 0..(Size(d) - 1)
    OBVIOUS
  <2> QED BY <1>2, <2>1 DEF Swapped
<1>7. Before(f.direction, d[k1], d[m1]) \/ Together(f, k1, m1)
  BY <1>5 DEF InOrder
<1>8. CASE Before(f.direction, d[k1], d[m1])
  BY <1>6, <1>8
<1>9. CASE Together(f, k1, m1)
  <2>1. ~Has(f.part[1], k1, m1)
    BY <1>1, <1>5 DEF Has
  <2>2. PICK q \in 1..Len(f.todo) : Has(f.todo[q], k1, m1)
    BY <1>9, <2>1 DEF Together
  <2>3. PICK tp \in Nat, tr \in Int : tp = f.todo[q].p /\ tr = f.todo[q].r
    BY TodoIs
  <2>4. tp <= k1 /\ m1 <= tr
    BY <2>2, <2>3 DEF Has
  <2>5. r < tp \/ tr < p
    BY <1>1, <2>3 DEF InOrder, Apart
  <2>6. k1 = k /\ m1 = m
    BY <1>3, <1>5, <2>4, <2>5
  <2> QED BY <2>2, <2>6
<1> QED BY <1>7, <1>8, <1>9

\* A partition compares an element with the pivot, and what comes before it changes
\* places with the first that does not (partition).
LEMMA ComparedInOrder ==
    ASSUME NEW d, IsBlock(d), NEW n \in Nat, n <= Size(d), NEW f \in SortFrame, f.part # <<>>,
           NEW t, t = f.part[1], InPart(t, n), t.i < t.r, InOrder(f, d, n),
           NEW a, NEW b, b = t.i, a = IF Before(f.direction, t.x, d[b]) THEN b ELSE t.j + 1,
           NEW e, Swapped(d, e, a, b),
           NEW g \in SortFrame, g.todo = f.todo, g.direction = f.direction, g.part # <<>>,
           NEW u, u = g.part[1], u.p = t.p, u.r = t.r, u.x = t.x, u.i = t.i + 1,
           u.j = IF Before(f.direction, t.x, d[b]) THEN t.j ELSE t.j + 1
    PROVE  InOrder(g, e, n)
<1>0. PICK front \in BOOLEAN : front <=> ~Before(f.direction, t.x, d[b])
  <2>1. CASE Before(f.direction, t.x, d[b])
    BY <2>1
  <2>2. CASE ~Before(f.direction, t.x, d[b])
    BY <2>2
  <2> QED BY <2>1, <2>2
<1>1. PICK p \in Nat, r \in Int, i \in Nat, j \in Int : p = t.p /\ r = t.r /\ i = t.i /\ j = t.j
  BY PartIs
<1>2. p <= i /\ p - 1 <= j /\ j < i /\ i < r /\ r < n /\ Size(d) \in Nat
  BY <1>1, BlockIs DEF InPart
<1>16. a = IF front THEN j + 1 ELSE i
  <2>1. CASE front
    BY <1>0, <1>1, <2>1
  <2>2. CASE ~front
    BY <1>0, <1>1, <2>2
  <2> QED BY <2>1, <2>2
<1>3. PICK x, dir : x = t.x /\ dir = f.direction
  OBVIOUS
<1>4. a \in p..r /\ b \in p..r /\ a \in 0..(n - 1) /\ b \in 0..(n - 1) /\ b = i
  <2>1. b = i
    BY <1>1
  <2>2. a = j + 1 \/ a = i
    BY <1>1
  <2> QED BY <1>2, <2>1, <2>2
<1>5. e[a] = d[b] /\ e[b] = d[a] /\ \A k \in 0..(n - 1) : k # a /\ k # b => e[k] = d[k]
  BY <1>2, <1>4, SwapHolds
<1>6. /\ \A k \in p..j : ~Before(dir, x, d[k])
      /\ \A k \in (j + 1)..(i - 1) : Before(dir, x, d[k])
  BY <1>1, <1>3 DEF InOrder
<1>7. PICK j2 \in Int : j2 = u.j /\ j2 = IF front THEN j + 1 ELSE j
  BY <1>0, <1>1
<1>8. ASSUME NEW k \in p..j2 PROVE ~Before(dir, x, e[k])
  <2>1. CASE front /\ k = j + 1
    <3>1. k = a
      BY <1>0, <1>1, <2>1
    <3>2. ~Before(dir, x, d[b])
      BY <1>0, <1>3, <2>1
    <3> QED BY <1>5, <3>1, <3>2
  <2>2. CASE ~(front /\ k = j + 1)
    <3>1. k \in p..j
      BY <1>7, <2>2
    <3>2. k \in 0..(n - 1) /\ k # a /\ k # b
      BY <1>2, <1>4, <1>16, <2>2, <3>1
    <3> QED BY <1>5, <1>6, <3>1, <3>2
  <2> QED BY <2>1, <2>2
<1>9. ASSUME NEW k \in (j2 + 1)..i PROVE Before(dir, x, e[k])
  <2>1. CASE k = i
    <3>1. CASE front
      <4>1. a \in (j + 1)..(i - 1)
        <5>1. a = j + 1 /\ j2 = j + 1
          BY <1>7, <1>16, <3>1
        <5>2. j + 1 <= i - 1
          BY <1>2, <2>1, <1>9, <5>1
        <5> QED BY <5>1, <5>2
      <4> QED BY <1>4, <1>5, <1>6, <2>1, <4>1
    <3>2. CASE ~front
      <4>1. Before(dir, x, d[b])
        BY <1>0, <1>3, <3>2
      <4>2. a = b
        BY <1>0, <3>2
      <4> QED BY <1>4, <1>5, <2>1, <4>1, <4>2
    <3> QED BY <3>1, <3>2
  <2>2. CASE k # i
    <3>1. k \in (j + 1)..(i - 1) /\ k # b
      BY <1>0, <1>4, <1>7, <2>2
    <3>2. k # a
      <4>1. CASE front
        BY <1>7, <1>16, <4>1
      <4>2. CASE ~front
        BY <1>16, <2>2, <4>2
      <4> QED BY <1>0, <4>1, <4>2
    <3>3. k \in 0..(n - 1)
      BY <1>2, <3>1
    <3> QED BY <1>5, <1>6, <3>1, <3>2, <3>3
  <2> QED BY <2>1, <2>2
<1>10. ASSUME NEW k \in 0..(n - 1), NEW m \in 0..(n - 1), k < m
       PROVE  Before(dir, e[k], e[m]) \/ Together(g, k, m)
  <2>1. CASE Has(t, k, m)
    BY <2>1 DEF Has, Together
  <2>2. CASE ~Has(t, k, m)
    <3>1. a \in f.part[1].p..f.part[1].r /\ b \in f.part[1].p..f.part[1].r /\ f.part[1].r < n
      BY <1>1, <1>2, <1>4
    <3>2. Before(f.direction, e[k], e[m]) \/ \E q \in 1..Len(f.todo) : Has(f.todo[q], k, m)
      BY <1>2, <1>10, <2>2, <3>1, PairsOutside
    <3> QED BY <1>3, <3>2 DEF Together
  <2> QED BY <2>1, <2>2
<1>11. \A k, m \in 1..Len(g.todo) : k # m => Apart(g.todo[k], g.todo[m])
  BY DEF InOrder
<1>12. \A m \in 1..Len(g.todo) : Apart(u, g.todo[m])
  BY DEF InOrder, Apart
<1>13. \A k \in u.p..u.j : ~Before(g.direction, u.x, e[k])
  BY <1>1, <1>3, <1>7, <1>8
<1>14. \A k \in (u.j + 1)..(u.i - 1) : Before(g.direction, u.x, e[k])
  <2>1. u.i - 1 = i /\ u.j + 1 = j2 + 1
    BY <1>1, <1>7
  <2> QED BY <1>3, <1>9, <2>1
<1>15. \A k, m \in 0..(n - 1) : k < m => Before(g.direction, e[k], e[m]) \/ Together(g, k, m)
  BY <1>3, <1>10
<1> QED BY <1>11, <1>12, <1>13, <1>14, <1>15 DEF InOrder

\* Which slots a partition compares next and exchanges
Exchanges(f, d, n, a, b) ==
    /\ f.part # <<>> /\ InPart(f.part[1], n) /\ f.part[1].i < f.part[1].r /\ b = f.part[1].i
    /\ a = IF Before(f.direction, f.part[1].x, d[b]) THEN b ELSE f.part[1].j + 1

\* How the partition goes on
GoesOn(f, g, d, b) ==
    /\ g.todo = f.todo /\ g.direction = f.direction /\ g.part # <<>>
    /\ g.part[1].p = f.part[1].p /\ g.part[1].r = f.part[1].r /\ g.part[1].x = f.part[1].x
    /\ g.part[1].i = f.part[1].i + 1
    /\ g.part[1].j = IF Before(f.direction, f.part[1].x, d[b]) THEN f.part[1].j ELSE f.part[1].j + 1

\* The same in short.
LEMMA ExchangesInOrder ==
    ASSUME NEW d, IsBlock(d), NEW n \in Nat, n <= Size(d), NEW f \in SortFrame, InOrder(f, d, n),
           NEW a, NEW b, Exchanges(f, d, n, a, b), NEW e, Swapped(d, e, a, b), NEW g \in SortFrame, GoesOn(f, g, d, b)
    PROVE  InOrder(g, e, n)
<1>1. PICK t, u : t = f.part[1] /\ u = g.part[1]
  OBVIOUS
<1>2. f.part # <<>> /\ InPart(t, n) /\ t.i < t.r /\ b = t.i /\ a = IF Before(f.direction, t.x, d[b]) THEN b ELSE t.j + 1
  BY <1>1 DEF Exchanges
<1>3. /\ g.todo = f.todo /\ g.direction = f.direction /\ g.part # <<>> /\ u.p = t.p /\ u.r = t.r /\ u.x = t.x
      /\ u.i = t.i + 1 /\ u.j = IF Before(f.direction, t.x, d[b]) THEN t.j ELSE t.j + 1
  BY <1>1 DEF GoesOn
<1> QED BY <1>1, <1>2, <1>3, ComparedInOrder

\* The pivot goes between the two parts (partition).
LEMMA PartitionInOrder ==
    ASSUME NEW d, IsBlock(d), NEW n \in Nat, n <= Size(d), NEW f \in SortFrame, f.part # <<>>,
           NEW t, t = f.part[1], InPart(t, n), t.i = t.r, InOrder(f, d, n),
           NEW b, b = t.r, t.x = d[b], NEW a, a = t.j + 1,
           NEW e, Swapped(d, e, a, b),
           NEW g \in SortFrame, g.direction = f.direction, g.part = <<>>,
           g.todo = <<Span(t.p, t.j), Span(t.j + 2, t.r)>> \o f.todo
    PROVE  InOrder(g, e, n)
<1>1. PICK p \in Nat, r \in Int, j \in Int : p = t.p /\ r = t.r /\ j = t.j
  BY PartIs
<1>2. p - 1 <= j /\ j < r /\ r < n /\ Size(d) \in Nat
  BY <1>1, BlockIs DEF InPart
<1>3. PICK x, dir : x = t.x /\ dir = f.direction /\ dir \in Int
  BY SortFields
<1>4. a = j + 1 /\ b = r /\ a \in p..r /\ b \in p..r /\ a \in 0..(n - 1) /\ b \in 0..(n - 1)
  <2>1. b = r
    BY <1>1
  <2>2. a = j + 1
    BY <1>1
  <2> QED BY <1>2, <2>1, <2>2
<1>5. e[a] = x /\ e[b] = d[a] /\ \A k \in 0..(n - 1) : k # a /\ k # b => e[k] = d[k]
  <2>1. e[a] = d[b] /\ e[b] = d[a] /\ \A k \in 0..(n - 1) : k # a /\ k # b => e[k] = d[k]
    <3>1. a \in 0..(Size(d) - 1) /\ b \in 0..(Size(d) - 1) /\ \A k \in 0..(n - 1) : k \in 0..(Size(d) - 1)
      BY <1>2, <1>4
    <3> QED BY <3>1 DEF Swapped, Opposite
  <2> QED BY <1>3, <2>1
<1>6. /\ \A k \in p..j : ~Before(dir, x, d[k])
      /\ \A k \in (j + 1)..(r - 1) : Before(dir, x, d[k])
  BY <1>1, <1>3 DEF InOrder
<1>7. x \in Slot /\ \A k \in 0..(n - 1) : e[k] \in Slot
  <2>1. IsBlock(e) /\ Size(e) = Size(d)
    BY DEF Swapped
  <2>2. \A k \in 0..(Size(e) - 1) : e[k] \in Slot
    BY <2>1, BlockIs
  <2>3. \A k \in 0..(n - 1) : k \in 0..(Size(e) - 1)
    BY <1>2, <2>1
  <2> QED BY <1>4, <1>5, <2>2, <2>3
<1>8. ASSUME NEW k \in p..j PROVE Before(dir, e[k], x)
  <2>1. k \in 0..(n - 1) /\ k # a /\ k # b
    BY <1>2, <1>4
  <2>2. e[k] \in Slot /\ ~Before(dir, x, e[k])
    BY <1>5, <1>6, <1>7, <2>1
  <2> QED BY <1>3, <1>7, <2>2, BeforeEither
<1>9. ASSUME NEW k \in (j + 2)..r PROVE Before(dir, x, e[k])
  <2>1. CASE k = r
    <3>1. a \in (j + 1)..(r - 1)
      BY <1>4, <2>1
    <3> QED BY <1>4, <1>5, <1>6, <2>1, <3>1
  <2>2. CASE k # r
    <3>1. k \in (j + 1)..(r - 1) /\ k \in 0..(n - 1) /\ k # a /\ k # b
      BY <1>2, <1>4, <2>2
    <3> QED BY <1>5, <1>6, <3>1
  <2> QED BY <2>1, <2>2
<1>10. PICK l \in Nat : l = Len(f.todo)
  BY SortFields
<1>11. /\ Len(g.todo) = l + 2 /\ g.todo[1] = Span(p, j) /\ g.todo[2] = Span(j + 2, r)
       /\ \A m \in 1..l : g.todo[m + 2] = f.todo[m]
  <2>1. f.todo \in Seq(Ranges)
    BY SortFields
  <2>2. PICK v, w : v = Span(p, j) /\ w = Span(j + 2, r)
    OBVIOUS
  <2>3. g.todo = <<v, w>> \o f.todo
    BY <1>1, <2>2
  <2> QED BY <1>10, <2>1, <2>2, <2>3
<1>12. ASSUME NEW m \in 3..(l + 2) PROVE \E q \in 1..l : q = m - 2 /\ g.todo[m] = f.todo[q]
  <2>1. m - 2 \in 1..l /\ (m - 2) + 2 = m
    OBVIOUS
  <2> QED BY <1>11, <2>1
<1>13. ASSUME NEW q \in 1..l PROVE Apart(Span(p, j), f.todo[q]) /\ Apart(Span(j + 2, r), f.todo[q])
  <2>1. PICK tp \in Nat, tr \in Int : tp = f.todo[q].p /\ tr = f.todo[q].r
    BY <1>10, TodoIs
  <2>2. r < tp \/ tr < p
    BY <1>1, <1>10, <2>1 DEF InOrder, Apart
  <2>3. Apart(Span(p, j), f.todo[q]) <=> j < tp \/ tr < p
    BY <2>1 DEF Apart, Span
  <2>4. Apart(Span(j + 2, r), f.todo[q]) <=> r < tp \/ tr < j + 2
    BY <2>1 DEF Apart, Span
  <2>5. (j < tp \/ tr < p) /\ (r < tp \/ tr < j + 2)
    <3>1. p \in Int /\ r \in Int /\ j \in Int /\ p - 1 <= j /\ j < r
      BY <1>1, <1>2
    <3>2. tp \in Int /\ tr \in Int
      BY <2>1
    <3> QED BY <2>2, <3>1, <3>2
  <2> QED BY <2>3, <2>4, <2>5
<1>14. Apart(Span(p, j), Span(j + 2, r))
  BY DEF Apart, Span
<1>15. \A k, m \in 1..l : k # m => Apart(f.todo[k], f.todo[m])
  BY <1>10 DEF InOrder
<1>16. ASSUME NEW k \in 1..(l + 2), NEW m \in 1..(l + 2), k < m PROVE Apart(g.todo[k], g.todo[m])
  <2>1. CASE m <= 2
    <3>1. k = 1 /\ m = 2
      BY <1>16, <2>1
    <3> QED BY <1>11, <1>14, <3>1
  <2>2. CASE m > 2
    <3>1. PICK q \in 1..l : q = m - 2 /\ g.todo[m] = f.todo[q]
      <4>1. m \in 3..(l + 2)
        BY <2>2
      <4> QED BY <1>12, <4>1
    <3>2. CASE k <= 2
      <4>1. k = 1 \/ k = 2
        BY <3>2
      <4> QED BY <1>11, <1>13, <3>1, <4>1
    <3>3. CASE k > 2
      <4>1. PICK s \in 1..l : s = k - 2 /\ g.todo[k] = f.todo[s]
        <5>1. k \in 3..(l + 2)
          BY <3>3
        <5> QED BY <1>12, <5>1
      <4>2. s # q
        BY <1>16, <3>1, <4>1
      <4>3. Apart(f.todo[s], f.todo[q])
        BY <1>15, <3>1, <4>1, <4>2
      <4> QED BY <3>1, <4>1, <4>3
    <3>4. k <= 2 \/ k > 2
      BY <1>10
    <3> QED BY <3>2, <3>3, <3>4, Zenon
  <2>3. m <= 2 \/ m > 2
    BY <1>10
  <2> QED BY <2>1, <2>2, <2>3, Zenon
<1>17. \A k, m \in 1..Len(g.todo) : k # m => Apart(g.todo[k], g.todo[m])
  <2> SUFFICES ASSUME NEW k \in 1..Len(g.todo), NEW m \in 1..Len(g.todo), k # m PROVE Apart(g.todo[k], g.todo[m])
    OBVIOUS
  <2>1. k \in 1..(l + 2) /\ m \in 1..(l + 2)
    BY <1>11
  <2>2. CASE k < m
    BY <1>16, <2>1, <2>2
  <2>3. CASE m < k
    <3>1. Apart(g.todo[m], g.todo[k])
      BY <1>16, <2>1, <2>3
    <3> QED BY <3>1 DEF Apart
  <2> QED BY <2>1, <2>2, <2>3
<1>18. ASSUME NEW k \in 0..(n - 1), NEW m \in 0..(n - 1), k < m
       PROVE  Before(dir, e[k], e[m]) \/ Together(g, k, m)
  <2>1. CASE Has(t, k, m)
    <3>1. p <= k /\ m <= r
      BY <1>1, <2>1 DEF Has
    <3>2. CASE m <= j
      <4>1. Has(g.todo[1], k, m) /\ 1 \in 1..Len(g.todo)
        BY <1>11, <3>1, <3>2 DEF Has, Span
      <4> QED BY <4>1 DEF Together
    <3>3. CASE k >= j + 2
      <4>1. Has(g.todo[2], k, m) /\ 2 \in 1..Len(g.todo)
        BY <1>11, <3>1, <3>3 DEF Has, Span
      <4> QED BY <4>1 DEF Together
    <3>4. CASE k <= j + 1 /\ m >= j + 1
      <4>1. Before(dir, x, x)
        BY <1>3, <1>7, BeforeEither
      <4>2. Before(dir, e[k], x)
        <5>1. CASE k = j + 1
          BY <1>4, <1>5, <4>1, <5>1
        <5>2. CASE k # j + 1
          <6>1. k \in p..j
            BY <3>1, <3>4, <5>2
          <6> QED BY <1>8, <6>1
        <5> QED BY <5>1, <5>2
      <4>3. Before(dir, x, e[m])
        <5>1. CASE m = j + 1
          BY <1>4, <1>5, <4>1, <5>1
        <5>2. CASE m # j + 1
          <6>1. m \in (j + 2)..r
            BY <3>1, <3>4, <5>2
          <6> QED BY <1>9, <6>1
        <5> QED BY <5>1, <5>2
      <4> QED BY <1>3, <1>7, <4>2, <4>3, BeforeOn
    <3> QED BY <1>18, <3>2, <3>3, <3>4
  <2>2. CASE ~Has(t, k, m)
    <3>1. a \in f.part[1].p..f.part[1].r /\ b \in f.part[1].p..f.part[1].r /\ f.part[1].r < n
      BY <1>1, <1>2, <1>4
    <3>2. Before(f.direction, e[k], e[m]) \/ \E q \in 1..Len(f.todo) : Has(f.todo[q], k, m)
      BY <1>2, <1>18, <2>2, <3>1, PairsOutside
    <3>3. ASSUME NEW q \in 1..Len(f.todo), Has(f.todo[q], k, m) PROVE Together(g, k, m)
      <4>1. q + 2 \in 1..Len(g.todo) /\ g.todo[q + 2] = f.todo[q]
        BY <1>10, <1>11
      <4> QED BY <3>3, <4>1 DEF Together
    <3> QED BY <1>3, <3>2, <3>3
  <2> QED BY <2>1, <2>2
<1> QED BY <1>3, <1>17, <1>18 DEF InOrder

-----------------------------------------------------------------------------
(***************************************************************************)
(* Sorts keep the invariant.                                                *)
(***************************************************************************)

\* What a sort is.
LEMMA TopSort ==
    ASSUME Inv, frames # <<>>, Top.kind = "sort"
    PROVE  IsSort(Top, data, length) /\ Top \in SortFrame
<1>1. FrameOK(Top, data, length)
  BY TopIs
<1>2. ~IsLoop(Top, data, length)
  BY LoopFields DEF IsLoop
<1> QED BY <1>1, <1>2 DEF FrameOK, IsSort

\* The innermost frame goes on after two slots have changed places.
LEMMA ExchangeOK ==
    ASSUME Inv, frames # <<>>, NEW a \in 0..(high - 1), NEW b \in 0..(high - 1), NEW e, IsBlock(e), Size(e) = Size(data),
           \A k \in high..(Size(data) - 1) : e[k] = data[k],
           NEW g, IsSort(g, e, length), InReach(g, high), Become(e, length),
           frames' = <<g>> \o Watched(Tail(frames), e, length)
    PROVE  Inv'
<1>1. PICK d, n, h : d = data /\ n = length /\ h = high
  OBVIOUS
<1>2. /\ h \in Nat /\ n \in Nat /\ n <= h /\ BlockOK(d, n, h) /\ Size(d) \in Nat /\ h <= Size(d)
      /\ \A k \in h..(Size(d) - 1) : d[k] = Undefined
  BY <1>1, ArrayIs
<1>3. PICK ts, fs : ts = Tail(frames) /\ fs = Watched(ts, e, n)
  OBVIOUS
<1>4. FramesOK(ts, d, n) /\ AllInReach(ts, h) /\ ts \in Seq(Frame)
  BY <1>1, <1>3, TopIs
<1>5. FramesOK(fs, e, n)
  <2>1. Size(e) >= Size(data) /\ length \in 0..Size(e) /\ BlockOK(data, length, high) /\ FramesOK(ts, data, length)
    BY <1>1, <1>2, <1>4
  <2>2. FramesOK(Watched(ts, e, length), e, length)
    BY <2>1, WatchedOK
  <2> QED BY <1>1, <1>3, <2>2
<1>6. AllInReach(fs, h)
  <2>1. h \in Int /\ h <= h
    BY <1>2
  <2> QED BY <1>3, <1>4, <2>1, WatchedInReach
<1>7. fs \in Seq(Frame)
  BY <1>5 DEF FramesOK
<1>8. PICK gs : gs = <<g>> \o fs
  OBVIOUS
<1>9. FrameOK(g, e, n)
  BY <1>1 DEF FrameOK
<1>10. FramesOK(gs, e, n) /\ AllInReach(gs, h)
  <2>1. g \in Frame /\ InReach(g, h)
    BY <1>1, <1>9, FrameIs
  <2> QED BY <1>5, <1>6, <1>7, <1>8, <1>9, <2>1, PushedOK, PushedInReach
<1>11. data' = e /\ length' = n /\ high' = h /\ frames' = gs
  <2>1. data' = e /\ length' = n /\ high' = Larger(h, n)
    BY <1>1 DEF Become, Reach
  <2>2. Larger(h, n) = h
    BY <1>2 DEF Larger
  <2> QED BY <1>1, <1>3, <1>8, <2>1, <2>2
<1>12. BlockOK(e, n, h)
  <2>1. \A k \in h..(Size(e) - 1) : e[k] = Undefined
    BY <1>1, <1>2
  <2> QED BY <1>1, <1>2, <2>1 DEF BlockOK
<1> QED BY <1>10, <1>11, <1>12 DEF Inv

\* One frame more than none.
LEMMA OneIs ==
    ASSUME NEW S, NEW s \in S
    PROVE  <<s>> \in Seq(S) /\ Len(<<s>>) = 1 /\ <<s>>[1] = s /\ <<s>> # <<>> /\ Head(<<s>>) = s
OBVIOUS

\* A sort begins (ejsSortArray).
LEMMA SortBegins ==
    ASSUME Inv, NEW compare \in BOOLEAN, NEW direction \in Directions, ejsSortArray(compare, direction)
    PROVE  Inv'
<1>1. /\ length \in Nat /\ high \in Nat /\ length <= high /\ Size(data) \in Nat /\ length <= Size(data) /\ IsBlock(data)
      /\ FramesOK(frames, data, length) /\ AllInReach(frames, high)
  BY ArrayIs
<1>2. CASE UNCHANGED frames
  <2>1. UNCHANGED <<data, length, high>>
    BY DEF ejsSortArray
  <2> QED BY <1>1, <1>2, <2>1, ArrayStays
<1>3. CASE ~UNCHANGED frames
  <2>1. PICK n \in Nat : n = length
    BY <1>1
  <2>2. PICK span, s : span = Span(0, n - 1) /\ s = Elems(data, 0, n)
    OBVIOUS
  <2>3. PICK f : f = [kind |-> "sort", compare |-> compare, direction |-> direction, calls |-> FALSE,
                      todo |-> <<span>>, part |-> <<>>, start |-> s, alone |-> TRUE, honest |-> TRUE]
    OBVIOUS
  <2>4. n > 1 /\ Inward(f) /\ UNCHANGED <<data, length, high>>
    BY <1>3, <2>1, <2>2, <2>3 DEF ejsSortArray, List
  <2>5. span \in Ranges /\ span.p = 0 /\ span.r = n - 1
    BY <2>2 DEF Ranges, Span
  <2>6. <<span>> \in Seq(Ranges) /\ Len(<<span>>) = 1 /\ <<span>>[1] = span
    BY <2>5, OneIs
  <2>7. s \in Seq(Slot)
    <3>1. 0 \in Int /\ n \in Int
      BY <2>1
    <3> QED BY <1>1, <2>2, <3>1, ElemsIs
  <2>8. direction \in Int
    BY ElementAssumption
  <2>9. PICK todo : todo = <<span>>
    OBVIOUS
  <2>10. PICK none : none = <<>>
    OBVIOUS
  <2>11. none \in Seq(Parts) /\ todo \in Seq(Ranges)
    BY <2>6, <2>9, <2>10
  <2>12. f = [kind |-> "sort", compare |-> compare, direction |-> direction, calls |-> FALSE,
              todo |-> todo, part |-> none, start |-> s, alone |-> TRUE, honest |-> TRUE]
    BY <2>3, <2>9, <2>10
  <2>13. f \in SortFrame
    BY <2>7, <2>8, <2>11, <2>12 DEF SortFrame
  <2>14. /\ f.kind = "sort" /\ f.direction = direction /\ f.todo = todo /\ f.part = none /\ f.start = s /\ f.calls = FALSE
    BY <2>12
  <2>15. Len(f.todo) = 1 /\ f.todo[1] = span /\ f.part = <<>>
    BY <2>6, <2>9, <2>10, <2>14
  <2>16. \A m \in 1..Len(f.todo) : f.todo[m] = span /\ m = 1
    BY <2>15
  <2>17. InOrder(f, data, length)
    <3>1. ASSUME NEW i \in 0..(n - 1), NEW j \in 0..(n - 1) PROVE Together(f, i, j)
      <4>1. Has(f.todo[1], i, j) /\ 1 \in 1..Len(f.todo)
        BY <2>5, <2>15 DEF Has
      <4> QED BY <4>1 DEF Together
    <3>2. \A k, m \in 1..Len(f.todo) : k = m
      BY <2>16
    <3> QED BY <2>1, <2>15, <3>1, <3>2 DEF InOrder
  <2>18. IsAlone(f, data, length)
    <3>1. \A m \in 1..Len(f.todo) : f.todo[m].r < length
      BY <2>1, <2>5, <2>16
    <3> QED BY <2>1, <2>2, <2>14, <2>15, <2>17, <3>1 DEF IsAlone
  <2>19. \A m \in 1..Len(f.todo) : f.todo[m].r < Size(data) /\ f.todo[m].r < high
    BY <1>1, <2>1, <2>5, <2>16
  <2>20. IsSort(f, data, length)
    BY <2>13, <2>14, <2>15, <2>18, <2>19 DEF IsSort
  <2>21. InReach(f, high)
    BY <2>15, <2>19 DEF InReach
  <2> QED BY <2>4, <2>20, <2>21, InwardOK DEF FrameOK
<1> QED BY <1>2, <1>3

\* A sort goes on to a range (quickSort).
LEMMA RangeInOrder ==
    ASSUME NEW d, NEW n \in Nat, NEW f \in SortFrame, f.part = <<>>, f.todo # <<>>, InOrder(f, d, n),
           NEW t, t = f.todo[1],
           NEW g \in SortFrame, g.direction = f.direction, Len(g.todo) = Len(f.todo) - 1,
           \A m \in 1..Len(g.todo) : g.todo[m] = f.todo[m + 1],
           t.p < t.r => g.part # <<>>, ~(t.p < t.r) => g.part = <<>>,
           NEW u, u = g.part[1], t.p < t.r => u.p = t.p /\ u.r = t.r /\ u.i = t.p /\ u.j = t.p - 1
    PROVE  InOrder(g, d, n)
<1>1. PICK l \in Nat : l = Len(g.todo) /\ Len(f.todo) = l + 1
  BY SortFields
<1>2. PICK p \in Nat, r \in Int : p = t.p /\ r = t.r
  <2>1. 1 \in 1..Len(f.todo)
    BY <1>1
  <2> QED BY <2>1, TodoIs
<1>3. \A m \in 1..l : m + 1 \in 1..Len(f.todo) /\ 1 \in 1..Len(f.todo) /\ m + 1 # 1
  BY <1>1
<1>4. \A k, m \in 1..Len(g.todo) : k # m => Apart(g.todo[k], g.todo[m])
  <2> SUFFICES ASSUME NEW k \in 1..Len(g.todo), NEW m \in 1..Len(g.todo), k # m PROVE Apart(g.todo[k], g.todo[m])
    OBVIOUS
  <2>1. k + 1 \in 1..Len(f.todo) /\ m + 1 \in 1..Len(f.todo) /\ k + 1 # m + 1
    BY <1>1
  <2>2. Apart(f.todo[k + 1], f.todo[m + 1])
    BY <2>1 DEF InOrder
  <2> QED BY <2>2
<1>5. ASSUME NEW m \in 1..Len(g.todo), p < r PROVE Apart(u, g.todo[m])
  <2>1. Apart(f.todo[1], f.todo[m + 1])
    BY <1>1, <1>3 DEF InOrder
  <2>2. Apart(t, g.todo[m])
    BY <2>1
  <2> QED BY <1>2, <1>5, <2>2 DEF Apart
<1>6. ASSUME NEW k \in 0..(n - 1), NEW m \in 0..(n - 1), k < m PROVE Before(g.direction, d[k], d[m]) \/ Together(g, k, m)
  <2>1. Before(f.direction, d[k], d[m]) \/ Together(f, k, m)
    BY <1>6 DEF InOrder
  <2>2. CASE Together(f, k, m)
    <3>1. PICK q \in 1..Len(f.todo) : Has(f.todo[q], k, m)
      BY <2>2 DEF Together
    <3>2. CASE q = 1
      <4>1. p <= k /\ m <= r
        BY <1>2, <3>1, <3>2 DEF Has
      <4>2. p < r
        BY <1>2, <1>6, <4>1
      <4>3. Has(u, k, m) /\ g.part # <<>>
        BY <1>2, <4>1, <4>2 DEF Has
      <4> QED BY <4>3 DEF Together
    <3>3. CASE q # 1
      <4>1. q - 1 \in 1..Len(g.todo) /\ (q - 1) + 1 = q
        BY <1>1, <3>3
      <4>2. g.todo[q - 1] = f.todo[q]
        BY <4>1
      <4> QED BY <3>1, <4>1, <4>2 DEF Together
    <3> QED BY <3>2, <3>3
  <2> QED BY <2>1, <2>2
<1>7. CASE p < r
  <2>1. u.p = p /\ u.i = p /\ u.j = p - 1
    BY <1>2, <1>7
  <2>2. (\A k \in u.p..u.j : FALSE) /\ (\A k \in (u.j + 1)..(u.i - 1) : FALSE)
    BY <2>1
  <2>3. \A m \in 1..Len(g.todo) : Apart(g.part[1], g.todo[m])
    BY <1>5, <1>7
  <2> QED BY <1>4, <1>6, <2>2, <2>3 DEF InOrder
<1>8. CASE ~(p < r)
  <2>1. g.part = <<>>
    BY <1>2, <1>8
  <2> QED BY <1>4, <1>6, <2>1 DEF InOrder
<1> QED BY <1>7, <1>8

\* The same, as a step.
LEMMA QuickSortOK ==
    ASSUME Inv, quickSort
    PROVE  Inv'
<1>1. frames # <<>> /\ Top.kind = "sort" /\ ~Top.calls /\ Top.part = <<>> /\ Top.todo # <<>> /\ UNCHANGED <<data, length, high>>
  BY DEF quickSort, Sorting
<1>2. PICK f : f = Top
  OBVIOUS
<1>3. IsSort(f, data, length) /\ f \in SortFrame /\ InReach(f, high)
  BY <1>1, <1>2, TopSort, TopIs
<1>4. f.todo \in Seq(Ranges) /\ Len(f.todo) \in Nat /\ f.part = <<>> /\ f.todo # <<>>
  BY <1>1, <1>2, <1>3, SortFields
<1>5. PICK t, rest : t = Head(f.todo) /\ rest = Tail(f.todo)
  OBVIOUS
<1>6. /\ t = f.todo[1] /\ t \in Ranges /\ rest \in Seq(Ranges) /\ Len(rest) = Len(f.todo) - 1 /\ Len(rest) \in Nat
      /\ \A m \in 1..Len(rest) : rest[m] = f.todo[m + 1]
  BY <1>4, <1>5
<1>7. PICK p \in Nat, r \in Int : p = t.p /\ r = t.r
  BY <1>6 DEF Ranges
<1>8. PICK u : u = [p |-> p, r |-> r, x |-> data[r], i |-> p, j |-> p - 1]
  OBVIOUS
<1>9. PICK part : part = IF p < r THEN <<u>> ELSE <<>>
  OBVIOUS
<1>10. PICK g : g = [f EXCEPT !.todo = rest, !.part = part]
  OBVIOUS
<1>11. Onward(g)
  BY <1>2, <1>5, <1>7, <1>8, <1>9, <1>10 DEF quickSort
<1>12. 1 \in 1..Len(f.todo) /\ r < Size(data) /\ r < high
  <2>1. 1 \in 1..Len(f.todo)
    BY <1>4
  <2>2. t.r < Size(data)
    BY <1>3, <1>6, <2>1 DEF IsSort
  <2>3. t.r < high
    BY <1>1, <1>2, <1>3, <1>6, <2>1 DEF InReach
  <2> QED BY <1>7, <2>1, <2>2, <2>3
<1>13. p < r => u \in Parts
  <2> SUFFICES ASSUME p < r PROVE u \in Parts
    OBVIOUS
  <2>1. data[r] \in Slot
    <3>1. r \in 0..(Size(data) - 1)
      <4>1. Size(data) \in Nat
        BY ArrayIs
      <4> QED BY <1>7, <1>12, <4>1
    <3> QED BY <3>1, ArrayIs
  <2>2. p - 1 \in Int
    BY <1>7
  <2> QED BY <1>7, <1>8, <2>1, <2>2 DEF Parts
<1>14. part \in Seq(Parts) /\ (p < r => part # <<>> /\ Len(part) = 1 /\ part[1] = u) /\ (~(p < r) => part = <<>>)
  <2>1. CASE p < r
    BY <1>9, <1>13, <2>1, OneIs
  <2>2. CASE ~(p < r)
    BY <1>9, <2>2, NothingIs
  <2> QED BY <2>1, <2>2
<1>15. IsMade(g, f, f.calls, rest, part, f.start, f.alone, f.honest)
  BY <1>3, <1>6, <1>10, <1>14, RangeBegun
<1>16. /\ g \in SortFrame /\ g.kind = "sort" /\ g.direction = f.direction /\ g.calls = FALSE /\ g.todo = rest /\ g.part = part
       /\ g.start = f.start /\ g.alone = f.alone /\ g.honest = f.honest
  BY <1>1, <1>2, <1>15 DEF IsMade
<1>17. u.p = p /\ u.r = r /\ u.i = p /\ u.j = p - 1 /\ u.x = data[r]
  BY <1>8
<1>18. ASSUME NEW m \in 1..Len(rest) PROVE m + 1 \in 1..Len(f.todo) /\ g.todo[m] = f.todo[m + 1]
  BY <1>6, <1>16
<1>19. f.alone => IsAlone(g, data, length)
  <2> SUFFICES ASSUME f.alone PROVE IsAlone(g, data, length)
    OBVIOUS
  <2>1. IsAlone(f, data, length)
    BY <1>3 DEF IsSort
  <2>2. \A v \in Slot : Times(v, Elems(data, 0, length)) = Times(v, g.start)
    BY <1>16, <2>1 DEF IsAlone
  <2>3. \A m \in 1..Len(g.todo) : g.todo[m].r < length
    BY <1>16, <1>18, <2>1 DEF IsAlone
  <2>4. g.part # <<>> => g.part[1].r < length /\ g.part[1].x = data[g.part[1].r]
    <3>1. t.r < length
      BY <1>6, <1>12, <2>1 DEF IsAlone
    <3> QED BY <1>7, <1>14, <1>16, <1>17, <3>1
  <2>5. g.honest => InOrder(g, data, length)
    <3> SUFFICES ASSUME g.honest PROVE InOrder(g, data, length)
      OBVIOUS
    <3>1. InOrder(f, data, length)
      BY <1>16, <2>1 DEF IsAlone
    <3>2. length \in Nat
      BY ArrayIs
    <3>3. PICK w : w = g.part[1]
      OBVIOUS
    <3>4. t.p < t.r => w.p = t.p /\ w.r = t.r /\ w.i = t.p /\ w.j = t.p - 1
      BY <1>7, <1>14, <1>16, <1>17, <3>3
    <3>5. (t.p < t.r => g.part # <<>>) /\ (~(t.p < t.r) => g.part = <<>>)
      BY <1>7, <1>14, <1>16
    <3>6. Len(g.todo) = Len(f.todo) - 1 /\ \A m \in 1..Len(g.todo) : g.todo[m] = f.todo[m + 1]
      BY <1>6, <1>16
    <3> QED BY <1>3, <1>4, <1>6, <1>16, <3>1, <3>2, <3>3, <3>4, <3>5, <3>6, RangeInOrder
  <2> QED BY <2>2, <2>3, <2>4, <2>5 DEF IsAlone
<1>20. g.part # <<>> => Len(g.part) = 1 /\ InPart(g.part[1], Size(data)) /\ g.part[1].r < high
  BY <1>7, <1>12, <1>14, <1>16, <1>17 DEF InPart
<1>21. \A m \in 1..Len(g.todo) : g.todo[m].r < Size(data) /\ g.todo[m].r < high
  BY <1>1, <1>2, <1>3, <1>16, <1>18 DEF IsSort, InReach
<1>22. IsSort(g, data, length)
  BY <1>16, <1>19, <1>20, <1>21 DEF IsSort
<1>23. InReach(g, high)
  BY <1>20, <1>21 DEF InReach
<1> QED BY <1>1, <1>11, <1>22, <1>23, OnwardOK DEF FrameOK

\* A partition that is under way, in the block and below what has held elements.
LEMMA PartingIs ==
    ASSUME Inv, frames # <<>>, Top.kind = "sort", Top.part # <<>>, NEW f, f = Top, NEW t, t = f.part[1]
    PROVE  /\ IsSort(f, data, length) /\ f \in SortFrame /\ f.part # <<>> /\ Len(f.part) = 1 /\ P = t
           /\ t.p \in Nat /\ t.r \in Int /\ t.x \in Slot /\ t.i \in Nat /\ t.j \in Int /\ t \in Parts
           /\ t.p <= t.i /\ t.p - 1 <= t.j /\ t.j < t.i /\ t.i <= t.r /\ t.r < Size(data) /\ t.r < high
           /\ \A m \in 1..Len(f.todo) : f.todo[m].r < Size(data) /\ f.todo[m].r < high
<1>1. IsSort(f, data, length) /\ f \in SortFrame /\ f.part # <<>> /\ InReach(f, high) /\ f.kind = "sort"
  BY TopSort, TopIs
<1>2. /\ t.p \in Nat /\ t.r \in Int /\ t.x \in Slot /\ t.i \in Nat /\ t.j \in Int /\ t \in Parts /\ Head(f.part) = t
  BY <1>1, PartIs
<1>3. Len(f.part) = 1 /\ InPart(t, Size(data)) /\ t.r < high
  BY <1>1 DEF IsSort, InReach
<1>4. \A m \in 1..Len(f.todo) : f.todo[m].r < Size(data) /\ f.todo[m].r < high
  BY <1>1 DEF IsSort, InReach
<1> QED BY <1>1, <1>2, <1>3, <1>4 DEF InPart, P

\* A partition with other indexes
MovedTo(t, i, j) == [t EXCEPT !.i = i, !.j = j]

\* What it is.
LEMMA PartMade ==
    ASSUME NEW t \in Parts, NEW i \in Nat, NEW j \in Int
    PROVE  /\ MovedTo(t, i, j) \in Parts /\ MovedTo(t, i, j).p = t.p /\ MovedTo(t, i, j).r = t.r
           /\ MovedTo(t, i, j).x = t.x /\ MovedTo(t, i, j).i = i /\ MovedTo(t, i, j).j = j
BY DEF Parts, MovedTo

\* A comparison (partition).
LEMMA ComparedOK ==
    ASSUME Inv, frames # <<>>, Top.kind = "sort", Top.part # <<>>, P.i < P.r, NEW order, Compared(order)
    PROVE  Inv'
<1>1. PICK f, t : f = Top /\ t = f.part[1]
  OBVIOUS
<1>2. /\ IsSort(f, data, length) /\ f \in SortFrame /\ f.part # <<>> /\ Len(f.part) = 1 /\ P = t
      /\ t.p \in Nat /\ t.r \in Int /\ t.x \in Slot /\ t.i \in Nat /\ t.j \in Int /\ t \in Parts
      /\ t.p <= t.i /\ t.p - 1 <= t.j /\ t.j < t.i /\ t.i <= t.r /\ t.r < Size(data) /\ t.r < high
      /\ \A m \in 1..Len(f.todo) : f.todo[m].r < Size(data) /\ f.todo[m].r < high
  BY <1>1, PartingIs
<1>3. PICK p \in Nat, r \in Nat, i \in Nat, j \in Int :
         p = t.p /\ r = t.r /\ i = t.i /\ j = t.j /\ p <= i /\ p - 1 <= j /\ j < i /\ i < r /\ r < high /\ r < Size(data)
  BY <1>2
<1>4. /\ length \in Nat /\ high \in Nat /\ Size(data) \in Nat /\ IsBlock(data) /\ length <= Size(data) /\ high <= Size(data)
      /\ length <= high
  BY ArrayIs
<1>5. PICK front \in BOOLEAN : front <=> order * f.direction > 0
  <2>1. CASE order * f.direction > 0
    BY <2>1
  <2>2. CASE ~(order * f.direction > 0)
    BY <2>2
  <2> QED BY <2>1, <2>2
<1>6. PICK a \in Nat : a = (IF front THEN j + 1 ELSE i) /\ a <= i
  BY <1>3
<1>7. PICK e : e = IF front THEN [data EXCEPT ![j + 1] = data[i], ![i] = data[j + 1]] ELSE data
  OBVIOUS
<1>8. a \in 0..(Size(data) - 1) /\ i \in 0..(Size(data) - 1) /\ a \in 0..(high - 1) /\ i \in 0..(high - 1)
  BY <1>3, <1>4, <1>6
<1>9. Swapped(data, e, a, i)
  <2>1. CASE front
    <3>1. PICK v, w : v = data[a] /\ w = data[i]
      OBVIOUS
    <3>2. e = Put(Put(data, a, w), i, v)
      BY <1>6, <1>7, <2>1, <3>1 DEF Put
    <3> QED BY <1>4, <1>8, <3>1, <3>2, SwapIs
  <2>2. CASE ~front
    BY <1>4, <1>6, <1>7, <2>2, SwapSame
  <2> QED BY <2>1, <2>2
<1>10. PICK i2 \in Nat, j2 \in Int : i2 = i + 1 /\ j2 = IF front THEN j + 1 ELSE j
  BY <1>3
<1>11. PICK u : u = [t EXCEPT !.i = @ + 1, !.j = IF front THEN @ + 1 ELSE @]
  OBVIOUS
<1>12. PICK honest : honest = (order = Order(getArrayProperty(r), getArrayProperty(i)))
  OBVIOUS
<1>13. PICK told \in BOOLEAN : told = (f.honest /\ honest)
  OBVIOUS
<1>14. PICK part : part = <<u>>
  OBVIOUS
<1>15. PICK g : g = [f EXCEPT !.calls = FALSE, !.part = part, !.honest = told]
  OBVIOUS
<1>16. Become(e, length) /\ frames' = <<g>> \o Watched(Tail(frames), e, length)
  BY <1>1, <1>2, <1>3, <1>5, <1>7, <1>11, <1>12, <1>13, <1>14, <1>15 DEF Compared
<1>17. u \in Parts /\ u.p = p /\ u.r = r /\ u.x = t.x /\ u.i = i + 1 /\ u.j = (IF front THEN j + 1 ELSE j)
  <2>1. t.i + 1 = i2 /\ (IF front THEN t.j + 1 ELSE t.j) = j2
    BY <1>3, <1>10
  <2>2. u = MovedTo(t, i2, j2)
    BY <1>11, <2>1 DEF MovedTo
  <2>3. u \in Parts /\ u.p = t.p /\ u.r = t.r /\ u.x = t.x /\ u.i = i2 /\ u.j = j2
    <3>1. t \in Parts
      BY <1>2
    <3>2. i2 \in Nat /\ j2 \in Int
      BY <1>10
    <3>3. /\ MovedTo(t, i2, j2) \in Parts /\ MovedTo(t, i2, j2).p = t.p /\ MovedTo(t, i2, j2).r = t.r
          /\ MovedTo(t, i2, j2).x = t.x /\ MovedTo(t, i2, j2).i = i2 /\ MovedTo(t, i2, j2).j = j2
      BY <3>1, <3>2, PartMade, Zenon
    <3> QED BY <2>2, <3>3, Zenon
  <2> QED BY <1>3, <1>10, <2>3
<1>18. part \in Seq(Parts) /\ part # <<>> /\ Len(part) = 1 /\ part[1] = u
  BY <1>14, <1>17, OneIs
<1>19. IsMade(g, f, FALSE, f.todo, part, f.start, f.alone, told)
  BY <1>2, <1>15, <1>18, PartMoved
<1>20. /\ g \in SortFrame /\ g.kind = "sort" /\ g.direction = f.direction /\ g.calls = FALSE /\ g.todo = f.todo
       /\ g.part = part /\ g.start = f.start /\ g.alone = f.alone /\ g.honest = told
  BY <1>19 DEF IsMade
<1>21. IsBlock(e) /\ Size(e) = Size(data) /\ \A k \in 0..(Size(data) - 1) : k # a /\ k # i => e[k] = data[k]
  BY <1>9 DEF Swapped, Opposite
<1>22. f.alone => IsAlone(g, e, length)
  <2> SUFFICES ASSUME f.alone PROVE IsAlone(g, e, length)
    OBVIOUS
  <2>1. IsAlone(f, data, length)
    BY <1>2 DEF IsSort
  <2>2. r < length /\ t.x = data[r]
    BY <1>1, <1>2, <1>3, <2>1 DEF IsAlone
  <2>3. a \in 0..(length - 1) /\ i \in 0..(length - 1) /\ length \in 0..Size(data)
    BY <1>3, <1>4, <1>6, <2>2
  <2>4. ASSUME NEW v \in Slot PROVE Times(v, Elems(e, 0, length)) = Times(v, g.start)
    <3>1. Times(v, Elems(e, 0, length)) = Times(v, Elems(data, 0, length))
      BY <1>4, <1>9, <2>3, TimesKept
    <3> QED BY <1>20, <2>1, <3>1 DEF IsAlone
  <2>5. \A m \in 1..Len(g.todo) : g.todo[m].r < length
    BY <1>20, <2>1 DEF IsAlone
  <2>6. g.part[1].r < length /\ g.part[1].x = e[g.part[1].r]
    <3>1. e[r] = data[r]
      <4>1. r \in 0..(Size(data) - 1) /\ r # a /\ r # i
        BY <1>3, <1>4, <1>6
      <4> QED BY <1>21, <4>1
    <3> QED BY <1>17, <1>18, <1>20, <2>2, <3>1
  <2>7. g.honest => InOrder(g, e, length)
    <3> SUFFICES ASSUME g.honest PROVE InOrder(g, e, length)
      OBVIOUS
    <3>1. InOrder(f, data, length) /\ honest
      BY <1>13, <1>20, <2>1 DEF IsAlone
    <3>2. getArrayProperty(r) = t.x /\ getArrayProperty(i) = data[i]
      BY <1>3, <1>4, <2>2, <2>3 DEF getArrayProperty
    <3>3. order = Order(t.x, data[i])
      BY <1>12, <3>1, <3>2
    <3>4. data[i] \in Slot /\ f.direction \in Int
      BY <1>2, <1>8, ArrayIs, SortFields
    <3>5. front <=> ~Before(f.direction, t.x, data[i])
      BY <1>2, <1>5, <3>3, <3>4, OrderIs
    <3>6. InPart(t, length)
      BY <1>2, <1>3, <2>2 DEF InPart
    <3>7. t.i < t.r /\ i = t.i
      BY <1>3
    <3>8. a = IF Before(f.direction, t.x, data[i]) THEN i ELSE t.j + 1
      BY <1>3, <1>6, <3>5
    <3>9. g.part # <<>> /\ u = g.part[1] /\ u.p = t.p /\ u.r = t.r /\ u.x = t.x /\ u.i = t.i + 1
      BY <1>3, <1>17, <1>18, <1>20
    <3>10. u.j = IF Before(f.direction, t.x, data[i]) THEN t.j ELSE t.j + 1
      BY <1>3, <1>17, <3>5
    <3>11. Exchanges(f, data, length, a, i)
      BY <1>1, <1>2, <3>6, <3>7, <3>8 DEF Exchanges
    <3>12. GoesOn(f, g, data, i)
      BY <1>1, <1>20, <3>9, <3>10 DEF GoesOn
    <3> QED BY <1>2, <1>4, <1>9, <1>20, <3>1, <3>11, <3>12, ExchangesInOrder
  <2> QED BY <2>4, <2>5, <2>6, <2>7 DEF IsAlone
<1>23. InPart(u, Size(data)) /\ u.r < high
  BY <1>3, <1>17 DEF InPart
<1>24. IsSort(g, e, length)
  BY <1>2, <1>18, <1>20, <1>21, <1>22, <1>23 DEF IsSort
<1>25. InReach(g, high)
  BY <1>2, <1>18, <1>20, <1>23 DEF InReach
<1>26. \A k \in high..(Size(data) - 1) : e[k] = data[k]
  <2> SUFFICES ASSUME NEW k \in high..(Size(data) - 1) PROVE e[k] = data[k]
    OBVIOUS
  <2>1. k \in 0..(Size(data) - 1) /\ k # a /\ k # i
    BY <1>4, <1>8
  <2> QED BY <1>21, <2>1
<1> QED BY <1>8, <1>16, <1>21, <1>24, <1>25, <1>26, ExchangeOK

\* The end of a partition (partition).
LEMMA PartitionOK ==
    ASSUME Inv, partition
    PROVE  Inv'
<1>0. frames # <<>> /\ Top.kind = "sort" /\ ~Top.calls /\ Top.part # <<>> /\ P.i = P.r
  BY DEF partition, Parting, Sorting
<1>1. PICK f, t : f = Top /\ t = f.part[1]
  OBVIOUS
<1>2. /\ IsSort(f, data, length) /\ f \in SortFrame /\ f.part # <<>> /\ Len(f.part) = 1 /\ P = t
      /\ t.p \in Nat /\ t.r \in Int /\ t.x \in Slot /\ t.i \in Nat /\ t.j \in Int /\ t \in Parts
      /\ t.p <= t.i /\ t.p - 1 <= t.j /\ t.j < t.i /\ t.i <= t.r /\ t.r < Size(data) /\ t.r < high
      /\ \A m \in 1..Len(f.todo) : f.todo[m].r < Size(data) /\ f.todo[m].r < high
  BY <1>0, <1>1, PartingIs
<1>3. PICK p \in Nat, r \in Nat, j \in Int :
         p = t.p /\ r = t.r /\ t.i = r /\ j = t.j /\ p <= r /\ p - 1 <= j /\ j < r /\ r < high /\ r < Size(data)
  BY <1>0, <1>2
<1>4. /\ length \in Nat /\ high \in Nat /\ Size(data) \in Nat /\ IsBlock(data) /\ length <= Size(data) /\ high <= Size(data)
      /\ length <= high
  BY ArrayIs
<1>5. PICK a \in Nat : a = j + 1 /\ a <= r
  BY <1>3
<1>6. a \in 0..(Size(data) - 1) /\ r \in 0..(Size(data) - 1) /\ a \in 0..(high - 1) /\ r \in 0..(high - 1)
  BY <1>3, <1>4, <1>5
<1>7. PICK w, c, e : w = data[a] /\ c = Put(data, r, w) /\ e = Put(c, a, t.x)
  OBVIOUS
<1>8. w \in Slot
  BY <1>6, <1>7, ArrayIs
<1>9. IsBlock(c) /\ Size(c) = Size(data) /\ \A k \in 0..(Size(data) - 1) : c[k] = IF k = r THEN w ELSE data[k]
  BY <1>4, <1>6, <1>7, <1>8, SlotSet
<1>10. IsBlock(e) /\ Size(e) = Size(data) /\ \A k \in 0..(Size(data) - 1) : e[k] = IF k = a THEN t.x ELSE c[k]
  <2>1. a \in 0..(Size(c) - 1) /\ e = Put(c, a, t.x) /\ t.x \in Slot
    BY <1>2, <1>6, <1>7, <1>9
  <2>2. IsBlock(e) /\ Size(e) = Size(c) /\ \A k \in 0..(Size(c) - 1) : e[k] = IF k = a THEN t.x ELSE c[k]
    BY <1>9, <2>1, SlotSet
  <2> QED BY <1>9, <2>2
<1>11. PICK v1, v2 : v1 = Span(p, j) /\ v2 = Span(j + 2, r)
  OBVIOUS
<1>12. v1 \in Ranges /\ v2 \in Ranges /\ v1.r = j /\ v2.r = r
  BY <1>3, <1>11 DEF Span, Ranges
<1>13. PICK todo : todo = <<v1, v2>> \o f.todo
  OBVIOUS
<1>14. PICK l \in Nat : l = Len(f.todo)
  BY <1>2, SortFields
<1>15. /\ todo \in Seq(Ranges) /\ Len(todo) = l + 2 /\ todo[1] = v1 /\ todo[2] = v2
       /\ \A m \in 3..(l + 2) : todo[m] = f.todo[m - 2]
  <2>1. f.todo \in Seq(Ranges)
    BY <1>2, SortFields
  <2> QED BY <1>12, <1>13, <1>14, <2>1
<1>16. ASSUME NEW m \in 1..(l + 2), NEW h \in Int, r < h, \A q \in 1..l : f.todo[q].r < h PROVE todo[m].r < h
  <2>1. CASE m = 1
    BY <1>3, <1>12, <1>15, <1>16, <2>1
  <2>2. CASE m = 2
    BY <1>12, <1>15, <1>16, <2>2
  <2>3. CASE m # 1 /\ m # 2
    <3>1. m \in 3..(l + 2) /\ m - 2 \in 1..l
      BY <1>14, <2>3
    <3> QED BY <1>15, <1>16, <3>1
  <2> QED BY <2>1, <2>2, <2>3
<1>17. PICK g : g = [f EXCEPT !.part = <<>>, !.todo = todo]
  OBVIOUS
<1>18. Become(e, length) /\ frames' = <<g>> \o Watched(Tail(frames), e, length)
  BY <1>1, <1>2, <1>3, <1>5, <1>7, <1>11, <1>13, <1>17 DEF partition, Put
<1>19. IsMade(g, f, f.calls, todo, <<>>, f.start, f.alone, f.honest)
  BY <1>2, <1>15, <1>17, PartEnded
<1>20. /\ g \in SortFrame /\ g.kind = "sort" /\ g.direction = f.direction /\ g.calls = FALSE /\ g.todo = todo
       /\ g.part = <<>> /\ g.start = f.start /\ g.alone = f.alone /\ g.honest = f.honest
  BY <1>0, <1>1, <1>19 DEF IsMade
<1>21. f.alone => IsAlone(g, e, length)
  <2> SUFFICES ASSUME f.alone PROVE IsAlone(g, e, length)
    OBVIOUS
  <2>1. IsAlone(f, data, length)
    BY <1>2 DEF IsSort
  <2>2. r < length /\ t.x = data[r]
    BY <1>1, <1>2, <1>3, <2>1 DEF IsAlone
  <2>3. a \in 0..(length - 1) /\ r \in 0..(length - 1) /\ length \in 0..Size(data)
    BY <1>3, <1>4, <1>5, <2>2
  <2>4. Swapped(data, e, a, r)
    <3>1. ASSUME NEW k \in 0..(Size(data) - 1) PROVE e[k] = data[Opposite(a, r, k)]
      <4>1. e[k] = IF k = a THEN data[r] ELSE IF k = r THEN data[a] ELSE data[k]
        BY <1>7, <1>9, <1>10, <2>2
      <4> QED BY <4>1 DEF Opposite
    <3> QED BY <1>10, <3>1 DEF Swapped
  <2>5. ASSUME NEW v \in Slot PROVE Times(v, Elems(e, 0, length)) = Times(v, g.start)
    <3>1. Times(v, Elems(e, 0, length)) = Times(v, Elems(data, 0, length))
      BY <1>4, <2>3, <2>4, TimesKept
    <3> QED BY <1>20, <2>1, <3>1 DEF IsAlone
  <2>6. \A m \in 1..Len(g.todo) : g.todo[m].r < length
    <3>1. \A q \in 1..l : f.todo[q].r < length
      BY <1>14, <2>1 DEF IsAlone
    <3>2. length \in Int
      BY <1>4
    <3> QED BY <1>15, <1>16, <1>20, <2>2, <3>1, <3>2
  <2>7. g.honest => InOrder(g, e, length)
    <3> SUFFICES ASSUME g.honest PROVE InOrder(g, e, length)
      OBVIOUS
    <3>1. InOrder(f, data, length)
      BY <1>20, <2>1 DEF IsAlone
    <3>2. InPart(t, length) /\ t.i = t.r
      BY <1>2, <1>3, <2>2 DEF InPart
    <3>3. r = t.r /\ t.x = data[r] /\ a = t.j + 1
      BY <1>3, <1>5, <2>2
    <3>4. g.todo = <<Span(t.p, t.j), Span(t.j + 2, t.r)>> \o f.todo
      BY <1>3, <1>11, <1>13, <1>20
    <3>5. PICK n \in Nat, b \in Nat : n = length /\ n <= Size(data) /\ b = t.r
      BY <1>3, <1>4
    <3>6. IsBlock(data) /\ f \in SortFrame /\ f.part # <<>> /\ t = f.part[1]
      BY <1>1, <1>2, <1>4
    <3>7. InPart(t, n) /\ t.i = t.r /\ InOrder(f, data, n) /\ t.x = data[b] /\ a = t.j + 1 /\ Swapped(data, e, a, b)
      BY <2>4, <3>1, <3>2, <3>3, <3>5
    <3>8. g \in SortFrame /\ g.direction = f.direction /\ g.part = <<>>
      BY <1>20
    <3>9. InOrder(g, e, n)
      BY <3>4, <3>5, <3>6, <3>7, <3>8, PartitionInOrder
    <3> QED BY <3>5, <3>9
  <2> QED BY <1>20, <2>5, <2>6, <2>7 DEF IsAlone
<1>22. \A m \in 1..Len(g.todo) : g.todo[m].r < Size(e) /\ g.todo[m].r < high
  <2>1. (\A q \in 1..l : f.todo[q].r < Size(data)) /\ (\A q \in 1..l : f.todo[q].r < high)
    BY <1>2, <1>14
  <2>2. Size(data) \in Int /\ high \in Int
    BY <1>4
  <2>3. \A m \in 1..(l + 2) : todo[m].r < Size(data)
    BY <1>3, <1>16, <2>1, <2>2
  <2>4. \A m \in 1..(l + 2) : todo[m].r < high
    BY <1>3, <1>16, <2>1, <2>2
  <2> QED BY <1>10, <1>15, <1>20, <2>3, <2>4
<1>23. IsSort(g, e, length) /\ InReach(g, high)
  BY <1>20, <1>21, <1>22 DEF IsSort, InReach
<1>24. \A k \in high..(Size(data) - 1) : e[k] = data[k]
  <2> SUFFICES ASSUME NEW k \in high..(Size(data) - 1) PROVE e[k] = data[k]
    OBVIOUS
  <2>1. k \in 0..(Size(data) - 1) /\ k # a /\ k # r
    BY <1>4, <1>6
  <2> QED BY <1>9, <1>10, <2>1
<1> QED BY <1>0, <1>6, <1>10, <1>18, <1>23, <1>24, ExchangeOK

\* The compare function is called, and may fail; and a sort returns.
LEMMA SortsOK ==
    ASSUME Inv, Sorts
    PROVE  Inv'
<1>1. CASE \E compare \in BOOLEAN, direction \in Directions : ejsSortArray(compare, direction)
  BY <1>1, SortBegins
<1>2. CASE quickSort
  BY <1>2, QuickSortOK
<1>3. CASE compareText
  <2>1. frames # <<>> /\ Top.kind = "sort" /\ Top.part # <<>> /\ P.i < P.r /\ Compared(Order(P.x, data[P.i]))
    BY <1>3 DEF compareText, Parting, Sorting
  <2> QED BY <2>1, ComparedOK
<1>4. CASE compareCalls
  <2>1. /\ frames # <<>> /\ Top.kind = "sort" /\ Top.part # <<>> /\ P.i < P.r /\ UNCHANGED <<data, length, high>>
        /\ Onward([Top EXCEPT !.calls = TRUE])
    BY <1>4 DEF compareCalls, Parting, Sorting
  <2>2. PICK f, t : f = Top /\ t = f.part[1]
    OBVIOUS
  <2>3. IsSort(f, data, length) /\ f \in SortFrame /\ P = t /\ f.part # <<>> /\ Len(f.part) = 1
    BY <2>1, <2>2, PartingIs
  <2>4. PICK g : g = [f EXCEPT !.calls = TRUE]
    OBVIOUS
  <2>5. IsMade(g, f, TRUE, f.todo, f.part, f.start, f.alone, f.honest)
    BY <2>3, <2>4, CallsSet
  <2>6. /\ g \in SortFrame /\ g.kind = "sort" /\ g.direction = f.direction /\ g.calls = TRUE /\ g.todo = f.todo
        /\ g.part = f.part /\ g.start = f.start /\ g.alone = f.alone /\ g.honest = f.honest
    BY <2>5 DEF IsMade
  <2>7. f.alone => IsAlone(g, data, length)
    BY <2>3, <2>6 DEF IsSort, IsAlone, InOrder, Together
  <2>8. g.part[1].i < g.part[1].r
    BY <2>1, <2>2, <2>3, <2>6
  <2>9. IsSort(g, data, length)
    BY <2>3, <2>6, <2>7, <2>8 DEF IsSort
  <2>10. InReach(f, high) /\ f.kind = "sort"
    BY <2>1, <2>2, TopIs
  <2>11. InReach(g, high)
    BY <2>6, <2>10 DEF InReach
  <2> QED BY <2>1, <2>2, <2>4, <2>9, <2>11, OnwardOK DEF FrameOK
<1>5. CASE partition
  BY <1>5, PartitionOK
<1>6. CASE SortReturns
  <2>1. frames # <<>> /\ frames' = Tail(frames) /\ UNCHANGED <<data, length, high>>
    BY <1>6 DEF SortReturns, Sorting
  <2> QED BY <2>1, EndOK
<1>7. CASE compareFails
  <2>1. frames # <<>> /\ Top.kind = "sort" /\ Top.calls /\ UNCHANGED <<data, length, high>>
    BY <1>7 DEF compareFails
  <2>2. PICK f, t : f = Top /\ t = f.part[1]
    OBVIOUS
  <2>3. Top.part # <<>>
    BY <2>1, TopSort DEF IsSort
  <2>4. /\ IsSort(f, data, length) /\ f \in SortFrame /\ P = t
        /\ t.p \in Nat /\ t.r \in Int /\ t.p <= t.i /\ t.i <= t.r /\ t.i \in Nat /\ t.r < Size(data) /\ t.r < high
        /\ \A m \in 1..Len(f.todo) : f.todo[m].r < Size(data) /\ f.todo[m].r < high
    BY <2>1, <2>2, <2>3, PartingIs
  <2>5. PICK p \in Nat, r \in Nat : p = t.p /\ r = t.r /\ r < Size(data) /\ r < high
    BY <2>4
  <2>6. PICK v1, v2 : v1 = Span(p, -1) /\ v2 = Span(1, r)
    OBVIOUS
  <2>7. v1 \in Ranges /\ v2 \in Ranges /\ v1.r = -1 /\ v2.r = r
    BY <2>5, <2>6 DEF Span, Ranges
  <2>8. PICK todo : todo = <<v1, v2>> \o f.todo
    OBVIOUS
  <2>9. PICK l \in Nat : l = Len(f.todo)
    BY <2>4, SortFields
  <2>10. /\ todo \in Seq(Ranges) /\ Len(todo) = l + 2 /\ todo[1] = v1 /\ todo[2] = v2
         /\ \A m \in 3..(l + 2) : todo[m] = f.todo[m - 2]
    <3>1. f.todo \in Seq(Ranges)
      BY <2>4, SortFields
    <3> QED BY <2>7, <2>8, <2>9, <3>1
  <2>11. ASSUME NEW m \in 1..(l + 2), NEW h \in Nat, r < h, \A q \in 1..l : f.todo[q].r < h PROVE todo[m].r < h
    <3>1. CASE m = 1
      BY <2>7, <2>10, <3>1
    <3>2. CASE m = 2
      BY <2>7, <2>10, <2>11, <3>2
    <3>3. CASE m # 1 /\ m # 2
      <4>1. m \in 3..(l + 2) /\ m - 2 \in 1..l
        BY <2>9, <3>3
      <4> QED BY <2>10, <2>11, <4>1
    <3> QED BY <3>1, <3>2, <3>3
  <2>12. PICK g : g = [f EXCEPT !.calls = FALSE, !.part = <<>>, !.honest = FALSE, !.todo = todo]
    OBVIOUS
  <2>13. Onward(g)
    BY <1>7, <2>2, <2>4, <2>5, <2>6, <2>8, <2>12 DEF compareFails
  <2>14. IsMade(g, f, FALSE, todo, <<>>, f.start, f.alone, FALSE)
    BY <2>4, <2>10, <2>12, PartFailed
  <2>15. /\ g \in SortFrame /\ g.kind = "sort" /\ g.calls = FALSE /\ g.todo = todo
         /\ g.part = <<>> /\ g.start = f.start /\ g.alone = f.alone /\ g.honest = FALSE
    BY <2>14 DEF IsMade
  <2>16. Size(data) \in Nat /\ high \in Nat /\ length \in Nat
    BY ArrayIs
  <2>17. f.alone => IsAlone(g, data, length)
    <3> SUFFICES ASSUME f.alone PROVE IsAlone(g, data, length)
      OBVIOUS
    <3>1. IsAlone(f, data, length)
      BY <2>4 DEF IsSort
    <3>2. r < length
      BY <2>2, <2>3, <2>5, <3>1 DEF IsAlone
    <3>3. \A q \in 1..l : f.todo[q].r < length
      BY <2>9, <3>1 DEF IsAlone
    <3>4. \A m \in 1..Len(g.todo) : g.todo[m].r < length
      BY <2>10, <2>11, <2>15, <2>16, <3>2, <3>3
    <3> QED BY <2>15, <3>1, <3>4 DEF IsAlone
  <2>18. \A m \in 1..Len(g.todo) : g.todo[m].r < Size(data) /\ g.todo[m].r < high
    <3>1. (\A q \in 1..l : f.todo[q].r < Size(data)) /\ (\A q \in 1..l : f.todo[q].r < high)
      BY <2>4, <2>9
    <3>2. \A m \in 1..(l + 2) : todo[m].r < Size(data)
      BY <2>5, <2>11, <2>16, <3>1
    <3>3. \A m \in 1..(l + 2) : todo[m].r < high
      BY <2>5, <2>11, <2>16, <3>1
    <3> QED BY <2>10, <2>15, <3>2, <3>3
  <2>19. IsSort(g, data, length) /\ InReach(g, high)
    BY <2>15, <2>17, <2>18 DEF IsSort, InReach
  <2> QED BY <2>1, <2>13, <2>19, OnwardOK DEF FrameOK
<1>8. ASSUME NEW order \in {-1, 0, 1}, compareEnds(order) PROVE Inv'
  <2>1. frames # <<>> /\ Top.kind = "sort" /\ Top.calls /\ Compared(order)
    BY <1>8 DEF compareEnds
  <2>2. PICK f, t : f = Top /\ t = f.part[1]
    OBVIOUS
  <2>3. Top.part # <<>> /\ t.i < t.r
    BY <2>1, <2>2, TopSort DEF IsSort
  <2>4. P = t
    BY <2>1, <2>2, <2>3, PartingIs
  <2> QED BY <2>1, <2>3, <2>4, ComparedOK
<1> QED BY <1>1, <1>2, <1>3, <1>4, <1>5, <1>6, <1>7, <1>8 DEF Sorts

-----------------------------------------------------------------------------
(***************************************************************************)
(* The invariant holds.                                                     *)
(***************************************************************************)

\* A new array holds the values it is made of, in blocks of its own.
LEMMA InitInv ==
    ASSUME Init
    PROVE  Inv
<1>1. PICK s \in Inputs : data = CopyIn(growArray(<<>>, 0, Len(s)), 0, s) /\ length = Len(s) /\ high = length
  BY DEF Init
<1>2. IsSequence(s) /\ Len(s) \in Nat /\ \A k \in 1..Len(s) : s[k] \in Slot
  BY ItemsAre
<1>3. PICK n \in Nat : n = Len(s)
  BY <1>2
<1>4. PICK d : d = <<>>
  OBVIOUS
<1>5. IsBlock(d) /\ Size(d) = 0
  <2>1. d = [k \in 0..(0 - 1) |-> d[k]]
    BY <1>4
  <2>2. \A k \in 0..(0 - 1) : d[k] \in Slot
    OBVIOUS
  <2> QED BY <2>1, <2>2, BlockOf
<1>6. PICK zero \in Nat : zero = 0
  OBVIOUS
<1>7. PICK g : g = growArray(d, zero, n)
  OBVIOUS
<1>8. /\ IsBlock(g) /\ Size(g) >= n
      /\ \A k \in zero..(Size(g) - 1) : g[k] = Undefined \/ (k < Size(d) /\ g[k] = d[k])
  <2>1. zero \in 0..Size(d) /\ n \in Int
    BY <1>5, <1>6
  <2> QED BY <1>5, <1>7, <2>1, Grows
<1>9. PICK b : b = data
  OBVIOUS
<1>10. b = CopyIn(g, 0, s)
  BY <1>1, <1>3, <1>4, <1>6, <1>7, <1>9
<1>11. IsBlock(b) /\ Size(b) = Size(g) /\ \A k \in 0..(Size(g) - 1) : b[k] = IF k < Len(s) THEN s[k + 1] ELSE g[k]
  BY <1>2, <1>8, <1>10, CopiedFirst
<1>12. Size(g) \in Nat
  BY <1>8, BlockIs
<1>13. ASSUME NEW k \in n..(Size(g) - 1) PROVE b[k] = Undefined
  <2>1. k \in 0..(Size(g) - 1) /\ k \in zero..(Size(g) - 1) /\ ~(k < Len(s)) /\ ~(k < Size(d))
    BY <1>3, <1>5, <1>6
  <2> QED BY <1>8, <1>11, <2>1
<1>14. BlockOK(b, n, n)
  BY <1>8, <1>11, <1>12, <1>13 DEF BlockOK
<1>15. FramesOK(<<>>, b, n) /\ AllInReach(<<>>, n)
  BY DEF FramesOK, AllInReach
<1>16. frames = <<>> /\ length = n /\ high = n /\ data = b
  BY <1>1, <1>3, <1>9 DEF Init
<1> QED BY <1>14, <1>15, <1>16 DEF Inv

\* Every step keeps the invariant.
LEMMA NextInv ==
    ASSUME Inv, [Next]_vars
    PROVE  Inv'
<1>1. CASE Taken
  <2>1. UNCHANGED <<data, length, frames, high>>
    BY <1>1 DEF Taken
  <2> QED BY <2>1, ArrayIs, ArrayStays
<1>2. CASE Methods
  <2>1. CASE \E v \in Value, i \in Positions : set(i, v) \/ indexOf(v, i) \/ lastIndexOf(v, i)
    <3>1. PICK v \in Value, i \in Positions : set(i, v) \/ indexOf(v, i) \/ lastIndexOf(v, i)
      BY <2>1
    <3>2. CASE set(i, v)
      BY <3>1, <3>2, IndexedOK
    <3>3. CASE indexOf(v, i)
      BY <3>3, AnsweredOK DEF indexOf
    <3>4. CASE lastIndexOf(v, i)
      BY <3>4, AnsweredOK DEF lastIndexOf
    <3> QED BY <3>1, <3>2, <3>3, <3>4
  <2>2. CASE \E v \in Value : append(v)
    BY <2>2, AppendOK
  <2>3. CASE \E i \in Positions : get(i) \/ deleteArrayProperty(i) \/ setArrayLength(i)
    <3>1. Undefined \in Value
      BY ElementAssumption
    <3> QED BY <2>3, <3>1, IndexedOK
  <2>4. ASSUME NEW items \in Inputs,
               push(items) \/ unshift(items) \/ removeElements(items) \/ concat(items) \/ makeIntersection(items) \/ makeUnion(items)
        PROVE  Inv'
    <3>1. CASE push(items)
      BY <3>1, PutsOK
    <3>2. CASE unshift(items)
      BY <3>2, PutsOK
    <3>3. CASE ~(push(items) \/ unshift(items))
      BY <2>4, <3>3, OthersOK
    <3> QED BY <3>1, <3>2, <3>3
  <2>5. ASSUME NEW items \in Inputs, NEW i \in Positions, insert(i, items) \/ \E count \in Positions : splice(i, count, items)
        PROVE  Inv'
    BY <2>5, ItemsOK
  <2>6. CASE \E start, end, step \in Positions : slice(start, end, step)
    BY <2>6, AnsweredOK DEF slice
  <2>7. CASE clear
    BY <2>7, ClearOK
  <2>8. CASE pop \/ shift
    BY <2>8, TakesOK
  <2>9. CASE unique \/ compact \/ reverse \/ clone
    BY <2>9, RearrangesOK
  <2> QED BY <1>2, <2>1, <2>2, <2>3, <2>4, <2>5, <2>6, <2>7, <2>8, <2>9 DEF Methods
<1>3. CASE Around
  BY <1>3, AroundOK
<1>4. CASE Sorts
  BY <1>4, SortsOK
<1>5. CASE UNCHANGED vars
  <2>1. UNCHANGED <<data, length, frames, high>>
    BY <1>5 DEF vars
  <2> QED BY <2>1, ArrayIs, ArrayStays
<1> QED BY <1>1, <1>2, <1>3, <1>4, <1>5 DEF Next
-----------------------------------------------------------------------------
(***************************************************************************)
(* What the invariant says.                                                 *)
(***************************************************************************)

\* Every variable has its type.
LEMMA InvTyped ==
    ASSUME Inv
    PROVE  TypeOK
<1>1. data \in Block(Size(data)) /\ length \in 0..Size(data) /\ high \in length..Size(data)
  BY BlockIs DEF Inv, BlockOK
<1>2. ASSUME NEW k \in DOMAIN frames PROVE frames[k].kind \in {"loop", "transform", "sort"}
  <2>1. k \in 1..Len(frames) /\ frames[k] \in Frame
    BY <1>2 DEF Inv, FramesOK
  <2> QED BY <2>1 DEF Frame, LoopFrame, SortFrame
<1> QED BY <1>1, <1>2 DEF TypeOK

\* A frame is a loop or a sort, by its kind.
LEMMA KindIs ==
    ASSUME Inv, NEW k \in DOMAIN frames, NEW f, f = frames[k]
    PROVE  /\ f.kind = "sort" => IsSort(f, data, length) /\ f \in SortFrame
           /\ f.kind # "sort" => IsLoop(f, data, length) /\ f \in LoopFrame
<1>1. frames \in Seq(Frame) /\ \A m \in 1..Len(frames) : FrameOK(frames[m], data, length)
  BY DEF Inv, FramesOK
<1>2. FrameOK(f, data, length)
  BY <1>1
<1>3. IsLoop(f, data, length) => f \in LoopFrame /\ f.kind # "sort"
  BY DEF IsLoop, LoopFrame
<1>4. IsSort(f, data, length) => f \in SortFrame /\ f.kind = "sort"
  BY DEF IsSort, SortFrame
<1> QED BY <1>2, <1>3, <1>4 DEF FrameOK

\* Loops and sorts under way have no slots but those of the block.
LEMMA InvInBlock ==
    ASSUME Inv
    PROVE  StaysInBlock
<1> SUFFICES ASSUME NEW k \in DOMAIN frames
             PROVE  IF frames[k].kind = "sort"
                    THEN /\ \A m \in DOMAIN frames[k].todo : frames[k].todo[m].p >= 0 /\ frames[k].todo[m].r < Size(data)
                         /\ \A m \in DOMAIN frames[k].part :
                                LET t == frames[k].part[m]
                                IN  0 <= t.p /\ t.p <= t.i /\ t.j < t.i /\ t.i <= t.r /\ t.r < Size(data) /\ t.p - 1 <= t.j
                    ELSE frames[k].limit <= Size(data)
  BY DEF StaysInBlock
<1>1. PICK f : f = frames[k]
  OBVIOUS
<1>2. CASE f.kind # "sort"
  <2>1. f.limit <= Size(data)
    BY <1>1, <1>2, KindIs DEF IsLoop
  <2> QED BY <1>1, <1>2, <2>1
<1>3. CASE f.kind = "sort"
  <2>1. IsSort(f, data, length) /\ f \in SortFrame
    BY <1>1, <1>3, KindIs
  <2>2. f.todo \in Seq(Ranges) /\ f.part \in Seq(Parts)
    BY <2>1, SortFields
  <2>3. ASSUME NEW m \in DOMAIN f.todo PROVE f.todo[m].p >= 0 /\ f.todo[m].r < Size(data)
    <3>1. m \in 1..Len(f.todo) /\ f.todo[m] \in Ranges
      BY <2>2
    <3> QED BY <2>1, <3>1 DEF IsSort, Ranges
  <2>4. ASSUME NEW m \in DOMAIN f.part, NEW t, t = f.part[m]
        PROVE  0 <= t.p /\ t.p <= t.i /\ t.j < t.i /\ t.i <= t.r /\ t.r < Size(data) /\ t.p - 1 <= t.j
    <3>1. m \in 1..Len(f.part) /\ t \in Parts
      BY <2>2, <2>4
    <3>2. f.part # <<>>
      BY <3>1
    <3>3. Len(f.part) = 1 /\ InPart(f.part[1], Size(data))
      BY <2>1, <3>2 DEF IsSort
    <3>4. m = 1
      BY <3>1, <3>3
    <3>5. t.p \in Nat
      BY <3>1 DEF Parts
    <3> QED BY <2>4, <3>3, <3>4, <3>5 DEF InPart
  <2> QED BY <1>1, <1>3, <2>3, <2>4
<1> QED BY <1>2, <1>3

\* A loop has given what it has passed and has kept.
LEMMA InvMissesNothing ==
    ASSUME Inv
    PROVE  LoopsMissNothing
<1> SUFFICES ASSUME NEW k \in DOMAIN frames, frames[k].kind # "sort"
             PROVE  frames[k].kept \cap 0..(frames[k].index - 1) \subseteq frames[k].taken
  BY DEF LoopsMissNothing
<1>1. PICK f : f = frames[k]
  OBVIOUS
<1>2. IsLoop(f, data, length) /\ f \in LoopFrame
  BY <1>1, KindIs
<1>3. f.index \in Nat
  BY <1>2 DEF LoopFrame
<1>4. ASSUME NEW i \in f.kept \cap 0..(f.index - 1) PROVE i \in f.taken
  <2>1. i < f.index
    BY <1>3
  <2> QED BY <1>2, <2>1 DEF IsLoop
<1> QED BY <1>1, <1>4

\* Elements that may stand in an order differ by no more than it allows.
LEMMA BeforeIs ==
    ASSUME NEW direction \in Int, NEW v \in Slot, NEW w \in Slot, Before(direction, v, w)
    PROVE  (rank[w] - rank[v]) * direction >= 0
<1>1. PICK a \in Int, b \in Int : a = rank[v] /\ b = rank[w]
  BY ElementAssumption DEF Slot
<1>2. a * direction <= b * direction
  BY <1>1 DEF Before
<1>3. (b - a) * direction = b * direction - a * direction
  BY <1>1
<1>4. a * direction \in Int /\ b * direction \in Int
  BY <1>1
<1>5. (b - a) * direction >= 0
  BY <1>2, <1>3, <1>4
<1> QED BY <1>1, <1>5

\* A sort that is alone with the array has its elements, in their order when it is done.
LEMMA InvSortKeeps ==
    ASSUME Inv
    PROVE  SortKeeps
<1> SUFFICES ASSUME NEW k \in DOMAIN frames, frames[k].kind = "sort" /\ frames[k].alone
             PROVE  /\ \A v \in Slot : Times(v, List) = Times(v, frames[k].start)
                    /\ frames[k].todo = <<>> /\ frames[k].part = <<>> /\ frames[k].honest /\ frames[k].direction # 0 =>
                           Ordered(List, frames[k].direction)
  BY DEF SortKeeps
<1>1. PICK f : f = frames[k]
  OBVIOUS
<1>2. IsSort(f, data, length) /\ f \in SortFrame
  BY <1>1, KindIs
<1>3. IsAlone(f, data, length)
  BY <1>1, <1>2 DEF IsSort
<1>4. \A v \in Slot : Times(v, List) = Times(v, f.start)
  BY <1>3 DEF IsAlone, List
<1>5. ASSUME f.todo = <<>>, f.part = <<>>, f.honest PROVE Ordered(List, f.direction)
  <2>1. PICK direction \in Int : direction = f.direction
    BY <1>2, SortFields
  <2>2. PICK n \in Nat : n = length
    BY ArrayIs
  <2>3. InOrder(f, data, n)
    BY <1>3, <1>5, <2>2 DEF IsAlone
  <2>4. \A i, j \in 0..(n - 1) : ~Together(f, i, j)
    BY <1>5 DEF Together
  <2>5. \A i, j \in 0..(n - 1) : i < j => Before(direction, data[i], data[j])
    BY <2>1, <2>3, <2>4 DEF InOrder
  <2>6. PICK s : s = List
    OBVIOUS
  <2>7. Len(s) = n /\ \A m \in 1..n : s[m] = data[m - 1]
    <3>1. s = Elems(data, 0, n)
      BY <2>2, <2>6 DEF List
    <3>2. IsBlock(data) /\ n <= Size(data)
      BY <2>2, ArrayIs
    <3>3. PICK zero \in Int : zero = 0
      OBVIOUS
    <3>4. s = Elems(data, zero, n)
      BY <3>1, <3>3
    <3>5. Len(Elems(data, zero, n)) = n
      BY <3>2, ElemsIs
    <3>6. zero >= 0 /\ zero + n <= Size(data)
      BY <3>2, <3>3
    <3>7. \A m \in 1..n : Elems(data, zero, n)[m] = data[zero + m - 1]
      BY <3>2, <3>6, ElemsIs
    <3>8. \A m \in 1..n : zero + m - 1 = m - 1
      BY <3>3
    <3> QED BY <3>4, <3>5, <3>7, <3>8
  <2>8. ASSUME NEW m \in 1..(Len(s) - 1) PROVE (rank[s[m + 1]] - rank[s[m]]) * direction >= 0
    <3>1. m \in 1..n /\ m + 1 \in 1..n /\ m - 1 \in 0..(n - 1) /\ m \in 0..(n - 1) /\ m - 1 < m /\ (m + 1) - 1 = m
      BY <2>7
    <3>2. s[m] = data[m - 1] /\ s[m + 1] = data[m]
      BY <2>7, <3>1
    <3>3. Before(direction, data[m - 1], data[m])
      BY <2>5, <3>1
    <3>4. data[m - 1] \in Slot /\ data[m] \in Slot
      <4>1. m - 1 \in 0..(Size(data) - 1) /\ m \in 0..(Size(data) - 1)
        BY <2>2, <3>1, ArrayIs
      <4> QED BY <4>1, ArrayIs
    <3> QED BY <3>2, <3>3, <3>4, BeforeIs
  <2> QED BY <2>1, <2>6, <2>8 DEF Ordered
<1> QED BY <1>1, <1>4, <1>5

-----------------------------------------------------------------------------
(***************************************************************************)
(* The list that an array is to a script.                                   *)
(***************************************************************************)
\* Lists of the same elements are the same.
LEMMA SameList ==
    ASSUME NEW s \in Seq(Slot), NEW t \in Seq(Slot), Len(s) = Len(t), \A k \in 1..Len(s) : s[k] = t[k]
    PROVE  s = t
<1>1. PICK n \in Nat : n = Len(s) /\ n = Len(t)
  OBVIOUS
<1>2. s = [k \in 1..n |-> s[k]] /\ t = [k \in 1..n |-> t[k]]
  BY <1>1
<1>3. [k \in 1..n |-> s[k]] = [k \in 1..n |-> t[k]]
  BY <1>1
<1> QED BY <1>2, <1>3

\* A part of a list.
LEMMA PartOf ==
    ASSUME NEW s \in Seq(Slot), NEW a \in Int, a >= 1, NEW b \in Int, b >= a - 1, b <= Len(s)
    PROVE  /\ SubSeq(s, a, b) \in Seq(Slot) /\ Len(SubSeq(s, a, b)) = b - a + 1
           /\ \A k \in 1..(b - a + 1) : SubSeq(s, a, b)[k] = s[a + k - 1]
<1>1. PICK n \in Nat : n = b - a + 1
  OBVIOUS
<1>2. \A k \in 1..n : a + k - 1 \in 1..Len(s)
  BY <1>1
<1>3. PICK t : t = [k \in 1..n |-> s[a + k - 1]]
  OBVIOUS
<1>4. t \in [1..n -> Slot]
  BY <1>2, <1>3
<1>5. t \in Seq(Slot) /\ Len(t) = n
  BY <1>4
<1>6. SubSeq(s, a, b) = t
  BY <1>1, <1>3
<1> QED BY <1>1, <1>3, <1>5, <1>6

\* One list behind another.
LEMMA Joined ==
    ASSUME NEW s \in Seq(Slot), NEW t \in Seq(Slot)
    PROVE  /\ s \o t \in Seq(Slot) /\ Len(s \o t) = Len(s) + Len(t)
           /\ \A k \in 1..Len(s) : (s \o t)[k] = s[k]
           /\ \A k \in (Len(s) + 1)..(Len(s) + Len(t)) : (s \o t)[k] = t[k - Len(s)]
OBVIOUS

\* The list of a block and a length.
LEMMA ListOf ==
    ASSUME NEW d, IsBlock(d), NEW n \in 0..Size(d)
    PROVE  /\ Elems(d, 0, n) \in Seq(Slot) /\ Len(Elems(d, 0, n)) = n /\ DOMAIN Elems(d, 0, n) = 1..n
           /\ \A k \in 1..n : Elems(d, 0, n)[k] = d[k - 1]
<1>1. Size(d) \in Nat
  BY BlockIs
<1>2. PICK zero \in Int : zero = 0
  OBVIOUS
<1>3. n \in Int /\ n \in Nat /\ zero >= 0 /\ zero + n <= Size(d)
  BY <1>1, <1>2
<1>4. PICK e : e = Elems(d, zero, n)
  OBVIOUS
<1>5. e \in Seq(Slot) /\ Len(e) = (IF n < 0 THEN 0 ELSE n) /\ \A k \in 1..n : e[k] = d[zero + k - 1]
  BY <1>3, <1>4, ElemsIs
<1>6. Len(e) = n /\ DOMAIN e = 1..n /\ \A k \in 1..n : e[k] = d[k - 1]
  BY <1>2, <1>3, <1>5
<1> QED BY <1>2, <1>4, <1>5, <1>6

\* The list that the array is.
LEMMA ListNow ==
    ASSUME Inv
    PROVE  /\ List \in Seq(Slot) /\ Len(List) = length /\ DOMAIN List = 1..length /\ length \in Nat
           /\ \A k \in 1..length : List[k] = data[k - 1]
<1>1. IsBlock(data) /\ length \in 0..Size(data) /\ length \in Nat
  BY ArrayIs
<1> QED BY <1>1, ListOf DEF List

\* The list that it becomes.
LEMMA ListNext ==
    ASSUME NEW d, NEW n, NEW reach, CanBecome(d, n, reach), Reach(d, n, reach)
    PROVE  /\ List' = Elems(d, 0, n) /\ List' \in Seq(Slot) /\ Len(List') = n /\ DOMAIN List' = 1..n /\ n \in Nat
           /\ \A k \in 1..n : List'[k] = d[k - 1]
           /\ high' = Larger(high, reach)
<1>1. data' = d /\ length' = n /\ high' = Larger(high, reach)
  BY DEF Reach
<1>2. List' = Elems(d, 0, n)
  BY <1>1 DEF List
<1>3. IsBlock(d) /\ n \in 0..Size(d) /\ n \in Nat
  BY BlockIs DEF CanBecome
<1>4. PICK e : e = Elems(d, 0, n)
  OBVIOUS
<1>5. e \in Seq(Slot) /\ Len(e) = n /\ DOMAIN e = 1..n /\ \A k \in 1..n : e[k] = d[k - 1]
  BY <1>3, <1>4, ListOf
<1> QED BY <1>1, <1>2, <1>3, <1>4, <1>5

\* A method that changes the array, as it is meant.
LEMMA MutatesMeant ==
    ASSUME Inv, NEW op, NEW args, NEW gives, NEW d, NEW n, Mutates(op, args, d, n, gives), CanBecome(d, n, n),
           op # "splice", Meaning!Silent \/ Meaning!Reading \/ Meaning!Changing
    PROVE  Meaning!ListNext
<1>1. Reach(d, n, n) /\ call'.op = op
  BY DEF Mutates, Become, Call
<1>2. PICK m : m = Len(List')
  OBVIOUS
<1>3. m = n /\ high' = Larger(high, m)
  BY <1>1, <1>2, ListNext
<1>4. high' = Meaning!Greater(high, Len(List'))
  BY <1>2, <1>3 DEF Larger, Meaning!Greater
<1>5. ~Meaning!Overcounts
  BY <1>1 DEF Meaning!Overcounts
<1> QED BY <1>4, <1>5 DEF Meaning!ListNext

\* A method that only answers.
LEMMA AnsweredMeant ==
    ASSUME Inv, NEW op, NEW args, NEW gives, Answered(op, args, gives),
           Meaning!Silent \/ Meaning!Reading \/ Meaning!Changing, ~Meaning!Overcounts
    PROVE  Meaning!ListNext
<1>1. List' = List /\ high' = high
  BY DEF Answered, List
<1>2. Len(List) = length /\ length \in Nat /\ high \in Nat /\ length <= high
  BY ListNow, ArrayIs
<1>3. PICK m : m = Len(List')
  OBVIOUS
<1>4. m = length
  BY <1>1, <1>2, <1>3
<1>5. high' = Meaning!Greater(high, Len(List'))
  BY <1>1, <1>2, <1>3, <1>4 DEF Meaning!Greater
<1> QED BY <1>5 DEF Meaning!ListNext

\* Its list is what it was.
LEMMA AnsweredStays ==
    ASSUME NEW op, NEW args, NEW gives, Answered(op, args, gives)
    PROVE  Meaning!Stays /\ call'.op = op /\ call'.args = args /\ call'.gives = gives
BY DEF Answered, Call, List, Meaning!Stays

\* A list of which one element is replaced.
LEMMA ElementSet ==
    ASSUME NEW s \in Seq(Slot), NEW i \in 1..Len(s), NEW v \in Slot, NEW t, t = [s EXCEPT ![i] = v]
    PROVE  /\ t \in Seq(Slot) /\ Len(t) = Len(s) /\ DOMAIN t = 1..Len(s)
           /\ \A k \in 1..Len(s) : t[k] = IF k = i THEN v ELSE s[k]
<1>1. PICK n \in Nat : n = Len(s)
  OBVIOUS
<1>2. s \in [1..n -> Slot]
  BY <1>1
<1>3. t \in [1..n -> Slot] /\ \A k \in 1..n : t[k] = IF k = i THEN v ELSE s[k]
  BY <1>1, <1>2
<1>4. t \in Seq(Slot) /\ Len(t) = n /\ DOMAIN t = 1..n
  BY <1>3
<1> QED BY <1>1, <1>3, <1>4

\* The call and the list of a method that changes the array.
LEMMA Changed ==
    ASSUME Inv, NEW op, NEW args, NEW gives, NEW d, NEW n, Mutates(op, args, d, n, gives), CanBecome(d, n, n)
    PROVE  /\ List' \in Seq(Slot) /\ Len(List') = n /\ n \in Nat /\ DOMAIN List' = 1..n
           /\ \A k \in 1..n : List'[k] = d[k - 1]
           /\ call'.op = op /\ call'.args = args /\ call'.gives = gives
<1>1. Reach(d, n, n) /\ call'.op = op /\ call'.args = args /\ call'.gives = gives
  BY DEF Mutates, Become, Call
<1> QED BY <1>1, ListNext

\* Elements are given by their index, and undefined behind the end (getArrayProperty).
LEMMA GetMeant ==
    ASSUME Inv, NEW i \in Int, get(i)
    PROVE  Meaning!ListNext
<1>1. PICK gives : gives = <<getArrayProperty(i)>> /\ Answered("get", <<i>>, gives)
  BY DEF get
<1>2. Meaning!Stays /\ call'.op = "get" /\ call'.args = <<i>> /\ call'.gives = gives
  BY <1>1, AnsweredStays
<1>3. Len(List) = length /\ length \in Nat /\ \A k \in 1..length : List[k] = data[k - 1]
  BY ListNow
<1>4. getArrayProperty(i) = IF i \in 0..(Len(List) - 1) THEN List[i + 1] ELSE Undefined
  BY <1>3 DEF getArrayProperty
<1>5. Meaning!Items(1) = i
  BY <1>2 DEF Meaning!Items
<1>6. Meaning!Reading
  BY <1>1, <1>2, <1>4, <1>5 DEF Meaning!Reading, Meaning!Gives
<1>7. ~Meaning!Overcounts
  BY <1>2 DEF Meaning!Overcounts
<1> QED BY <1>1, <1>6, <1>7, AnsweredMeant

\* An element is put behind the others (appendArray).
LEMMA AppendMeant ==
    ASSUME Inv, NEW v \in Value, append(v)
    PROVE  Meaning!ListNext
<1>1. PICK d : d = setData(length, v) /\ Mutates("append", <<v>>, d, length + 1, <<>>)
  BY DEF append
<1>2. length \in Nat /\ v \in Slot
  BY ArrayIs DEF Slot
<1>3. checkSlot(length) = length
  BY <1>2 DEF checkSlot
<1>4. Larger(length, length + 1) = length + 1
  BY <1>2 DEF Larger
<1>5. CanBecome(d, length + 1, length + 1) /\ d[length] = v /\ \A k \in 0..(length - 1) : d[k] = data[k]
  BY <1>1, <1>2, <1>3, <1>4, SetIs
<1>6. PICK M : M = List'
  OBVIOUS
<1>7. /\ M \in Seq(Slot) /\ Len(M) = length + 1 /\ \A k \in 1..(length + 1) : M[k] = d[k - 1]
      /\ call'.op = "append" /\ call'.args = <<v>>
  BY <1>1, <1>5, <1>6, Changed
<1>8. List \in Seq(Slot) /\ Len(List) = length /\ \A k \in 1..length : List[k] = data[k - 1]
  BY ListNow
<1>9. PICK N : N = Append(List, v)
  OBVIOUS
<1>10. N \in Seq(Slot) /\ Len(N) = length + 1 /\ N[length + 1] = v /\ \A k \in 1..length : N[k] = List[k]
  BY <1>2, <1>8, <1>9
<1>11. ASSUME NEW k \in 1..(length + 1) PROVE M[k] = N[k]
  <2>1. PICK m \in 0..length : m = k - 1
    BY <1>2
  <2>2. M[k] = d[m]
    BY <1>7, <2>1
  <2>3. CASE k = length + 1
    BY <1>2, <1>5, <1>10, <2>1, <2>2, <2>3
  <2>4. CASE k # length + 1
    <3>1. k \in 1..length /\ m \in 0..(length - 1)
      BY <1>2, <2>1, <2>4
    <3>2. N[k] = data[m] /\ d[m] = data[m]
      BY <1>5, <1>8, <1>10, <2>1, <3>1
    <3> QED BY <2>2, <3>2
  <2> QED BY <2>3, <2>4
<1>12. M = N
  BY <1>7, <1>10, <1>11, SameList
<1>13. Meaning!Items(1) = v
  BY <1>7 DEF Meaning!Items
<1>14. Meaning!Changing
  BY <1>6, <1>7, <1>9, <1>12, <1>13 DEF Meaning!Changing
<1> QED BY <1>1, <1>5, <1>14, MutatesMeant

\* An element that is stored, by a script or by transform.
LEMMA StoresMeant ==
    ASSUME Inv, NEW i \in Int, NEW v \in Slot, NEW d, d = setData(i, v), NEW n, n = Larger(length, checkSlot(i) + 1),
           Become(d, n), call'.op = "set", call'.args = <<i, v>>
    PROVE  Meaning!ListNext
<1>1. PICK j : j = checkSlot(i)
  OBVIOUS
<1>2. /\ j \in Nat /\ n = Larger(length, j + 1) /\ CanBecome(d, n, n) /\ d[j] = v
      /\ \A k \in 0..(length - 1) : k # j => d[k] = data[k]
      /\ \A k \in high..(n - 1) : k # j => d[k] = Undefined
  BY <1>1, SetIs
<1>3. PICK M : M = List'
  OBVIOUS
<1>4. PICK L : L = List
  OBVIOUS
<1>5. /\ M \in Seq(Slot) /\ Len(M) = n /\ n \in Nat /\ DOMAIN M = 1..n /\ \A k \in 1..n : M[k] = d[k - 1]
      /\ high' = Larger(high, n)
  BY <1>2, <1>3, ListNext DEF Become
<1>6. /\ L \in Seq(Slot) /\ Len(L) = length /\ DOMAIN L = 1..length /\ length \in Nat /\ high \in Nat
      /\ \A k \in 1..length : L[k] = data[k - 1]
  BY <1>4, ListNow, ArrayIs
<1>7. n >= length /\ n >= j + 1 /\ (n = length \/ n = j + 1) /\ n = Meaning!Greater(length, j + 1)
      /\ n = Meaning!Greater(j + 1, length)
  BY <1>2, <1>6 DEF Larger, Meaning!Greater
<1>8. j + 1 = IF i < 0 THEN Len(L) + 1 ELSE i + 1
  BY <1>1, <1>6 DEF checkSlot
<1>9. PICK w : w = IF j + 1 <= Len(L) THEN L[j + 1] ELSE Undefined
  OBVIOUS
<1>10. Undefined \in Slot
  BY ElementAssumption DEF Slot
<1>11. w \in Slot
  BY <1>2, <1>6, <1>9, <1>10
<1>12. PICK S : S = [M EXCEPT ![j + 1] = w]
  OBVIOUS
<1>13. /\ S \in Seq(Slot) /\ Len(S) = n /\ DOMAIN S = 1..n
       /\ \A k \in 1..n : S[k] = IF k = j + 1 THEN w ELSE M[k]
  <2>1. PICK i1 \in 1..Len(M) : i1 = j + 1
    BY <1>2, <1>5, <1>7
  <2>2. S = [M EXCEPT ![i1] = w]
    BY <1>12, <2>1
  <2> QED BY <1>5, <1>11, <2>1, <2>2, ElementSet
<1>14. ASSUME NEW k \in 1..length PROVE S[k] = L[k]
  <2>1. CASE k = j + 1
    BY <1>6, <1>7, <1>9, <1>13, <2>1
  <2>2. CASE k # j + 1
    <3>1. PICK m \in 0..(length - 1) : m = k - 1
      BY <1>6
    <3>2. m # j
      BY <1>2, <2>2, <3>1
    <3>3. d[m] = data[m]
      BY <1>2, <3>2
    <3> QED BY <1>5, <1>6, <1>7, <1>13, <2>2, <3>1, <3>3
  <2> QED BY <2>1, <2>2
<1>15. ASSUME NEW k \in 1..n, k > length, k > high PROVE S[k] = Undefined
  <2>1. CASE k = j + 1
    BY <1>6, <1>7, <1>9, <1>13, <1>15, <2>1
  <2>2. CASE k # j + 1
    <3>1. PICK m \in high..(n - 1) : m = k - 1
      BY <1>5, <1>6, <1>15
    <3>2. m # j
      BY <1>2, <2>2, <3>1
    <3>3. d[m] = Undefined
      BY <1>2, <3>2
    <3> QED BY <1>5, <1>13, <2>2, <3>1, <3>3
  <2> QED BY <2>1, <2>2
<1>16. SubSeq(S, 1, length) \in Seq(Slot) /\ Len(SubSeq(S, 1, length)) = length
       /\ \A k \in 1..length : SubSeq(S, 1, length)[k] = S[k]
  <2>1. length >= 1 - 1 /\ length <= Len(S) /\ length - 1 + 1 = length
    BY <1>6, <1>7, <1>13
  <2>2. /\ SubSeq(S, 1, length) \in Seq(Slot) /\ Len(SubSeq(S, 1, length)) = length - 1 + 1
        /\ \A k \in 1..(length - 1 + 1) : SubSeq(S, 1, length)[k] = S[1 + k - 1]
    BY <1>6, <1>13, <2>1, PartOf
  <2> QED BY <1>6, <2>1, <2>2
<1>17. SubSeq(L, 1, length) = L
  BY <1>6
<1>18. SubSeq(S, 1, length) = L
  BY <1>6, <1>14, <1>16, SameList
<1>19. M[j + 1] = v
  BY <1>2, <1>5, <1>7
<1>20. Meaning!Grown(S, j + 1)
  BY <1>4, <1>6, <1>7, <1>13, <1>15, <1>17, <1>18 DEF Meaning!Grown, Meaning!Before
<1>21. Meaning!Set(i, v)
  BY <1>3, <1>4, <1>5, <1>6, <1>7, <1>8, <1>9, <1>12, <1>19, <1>20 DEF Meaning!Set
<1>22. Meaning!Items(1) = i /\ Meaning!Items(2) = v
  BY DEF Meaning!Items
<1>23. Meaning!Changing
  BY <1>21, <1>22 DEF Meaning!Changing
<1>24. high' = Meaning!Greater(high, Len(List'))
  BY <1>3, <1>5, <1>6 DEF Meaning!Greater, Larger
<1>25. ~Meaning!Overcounts
  BY DEF Meaning!Overcounts
<1> QED BY <1>23, <1>24, <1>25 DEF Meaning!ListNext

\* An element is stored (setArrayProperty).
LEMMA SetMeant ==
    ASSUME Inv, NEW i \in Int, NEW v \in Value, set(i, v)
    PROVE  Meaning!ListNext
<1>1. /\ Become(setData(i, v), Larger(length, checkSlot(i) + 1))
      /\ call'.op = "set" /\ call'.args = <<i, v>>
  BY DEF set, Mutates, Call
<1>2. v \in Slot
  BY DEF Slot
<1> QED BY <1>1, <1>2, StoresMeant

\* transform stores what its function gives.
LEMMA TransformMeant ==
    ASSUME Inv, NEW v \in Value, transform(v)
    PROVE  Meaning!ListNext
<1>1. PICK i : i = Top.index - 1
  OBVIOUS
<1>2. /\ Become(setData(i, v), Larger(length, i + 1))
      /\ call'.op = "set" /\ call'.args = <<i, v>>
      /\ frames # <<>> /\ Top.kind = "transform" /\ Top.calls
  BY <1>1 DEF transform
<1>3. IsLoop(Top, data, length)
  BY <1>2, TopLoop
<1>4. i \in Int /\ i >= 0
  BY <1>1, <1>2, <1>3, LoopFields DEF IsLoop
<1>5. checkSlot(i) = i /\ v \in Slot
  BY <1>4 DEF checkSlot, Slot
<1> QED BY <1>2, <1>4, <1>5, StoresMeant

\* The list is empty when the length is 0.
LEMMA EmptyIs ==
    ASSUME Inv
    PROVE  List = <<>> <=> length = 0
BY ListNow

\* The first elements of the list.
LEMMA FirstOnes ==
    ASSUME Inv, NEW n \in 0..length, NEW M \in Seq(Slot), Len(M) = n, \A k \in 1..n : M[k] = data[k - 1]
    PROVE  M = SubSeq(List, 1, n)
<1>1. PICK L : L = List
  OBVIOUS
<1>2. L \in Seq(Slot) /\ Len(L) = length /\ length \in Nat /\ \A k \in 1..length : L[k] = data[k - 1]
  BY <1>1, ListNow
<1>3. n >= 1 - 1 /\ n <= Len(L) /\ n - 1 + 1 = n /\ n \in Int
  BY <1>2
<1>4. PICK N : N = SubSeq(L, 1, n)
  OBVIOUS
<1>5. N \in Seq(Slot) /\ Len(N) = n /\ \A k \in 1..n : N[k] = L[1 + k - 1]
  <2>1. /\ SubSeq(L, 1, n) \in Seq(Slot) /\ Len(SubSeq(L, 1, n)) = n - 1 + 1
        /\ \A k \in 1..(n - 1 + 1) : SubSeq(L, 1, n)[k] = L[1 + k - 1]
    BY <1>2, <1>3, PartOf
  <2> QED BY <1>3, <1>4, <2>1
<1>6. ASSUME NEW k \in 1..n PROVE M[k] = N[k]
  <2>1. k \in 1..length /\ 1 + k - 1 = k
    BY <1>2
  <2> QED BY <1>2, <1>5, <2>1
<1> QED BY <1>1, <1>4, <1>5, <1>6, SameList

\* An element becomes undefined, the last one goes (deleteArrayProperty).
LEMMA DeleteMeant ==
    ASSUME Inv, NEW i \in Int, deleteArrayProperty(i)
    PROVE  Meaning!ListNext
<1>1. PICK L : L = List
  OBVIOUS
<1>2. L \in Seq(Slot) /\ Len(L) = length /\ length \in Nat /\ \A k \in 1..length : L[k] = data[k - 1]
  BY <1>1, ListNow
<1>3. CASE i \notin 0..(length - 1)
  <2>1. Answered("delete", <<i>>, <<>>)
    BY <1>3 DEF deleteArrayProperty
  <2>2. Meaning!Stays /\ call'.op = "delete" /\ call'.args = <<i>>
    BY <2>1, AnsweredStays
  <2>3. Meaning!Items(1) = i
    BY <2>2 DEF Meaning!Items
  <2>4. Meaning!Delete(i)
    BY <1>1, <1>2, <1>3, <2>2 DEF Meaning!Delete
  <2>5. Meaning!Changing /\ ~Meaning!Overcounts
    BY <2>2, <2>3, <2>4 DEF Meaning!Changing, Meaning!Overcounts
  <2> QED BY <2>1, <2>5, AnsweredMeant
<1>4. CASE i \in 0..(length - 1)
  <2>1. PICK d : d = [data EXCEPT ![i] = Undefined]
    OBVIOUS
  <2>2. PICK n : n = IF i + 1 = length THEN length - 1 ELSE length
    OBVIOUS
  <2>3. Mutates("delete", <<i>>, d, n, <<>>)
    BY <1>4, <2>1, <2>2 DEF deleteArrayProperty
  <2>4. CanBecome(d, n, n) /\ \A k \in 0..(length - 1) : d[k] = IF k = i THEN Undefined ELSE data[k]
    BY <1>4, <2>1, <2>2, DeletedIs
  <2>5. PICK M : M = List'
    OBVIOUS
  <2>6. /\ M \in Seq(Slot) /\ Len(M) = n /\ n \in Nat /\ \A k \in 1..n : M[k] = d[k - 1]
        /\ call'.op = "delete" /\ call'.args = <<i>>
    BY <2>3, <2>4, <2>5, Changed
  <2>7. n <= length /\ (i + 1 = length => n = i)
    BY <1>2, <1>4, <2>2
  <2>8. ASSUME NEW k \in 1..n PROVE M[k] = IF k = i + 1 THEN Undefined ELSE data[k - 1]
    <3>1. PICK m \in 0..(length - 1) : m = k - 1
      BY <1>2, <2>6, <2>7
    <3>2. M[k] = d[m] /\ d[m] = IF m = i THEN Undefined ELSE data[m]
      BY <2>4, <2>6, <3>1
    <3> QED BY <1>4, <3>1, <3>2
  <2>9. M = IF i + 1 = Len(L) THEN SubSeq(L, 1, i) ELSE [L EXCEPT ![i + 1] = Undefined]
    <3>1. CASE i + 1 = length
      <4>1. i \in 0..length /\ Len(M) = i /\ \A k \in 1..i : M[k] = data[k - 1]
        BY <1>2, <1>4, <2>6, <2>7, <2>8, <3>1
      <4> QED BY <1>1, <1>2, <2>6, <3>1, <4>1, FirstOnes
    <3>2. CASE i + 1 # length
      <4>1. PICK j \in 1..Len(L) : j = i + 1
        BY <1>2, <1>4
      <4>2. PICK N : N = [L EXCEPT ![j] = Undefined]
        OBVIOUS
      <4>3. Undefined \in Slot
        BY ElementAssumption DEF Slot
      <4>4. N \in Seq(Slot) /\ Len(N) = Len(L) /\ \A k \in 1..Len(L) : N[k] = IF k = j THEN Undefined ELSE L[k]
        BY <1>2, <4>2, <4>3, ElementSet
      <4>5. n = length
        BY <2>2, <3>2
      <4>6. \A k \in 1..Len(M) : M[k] = N[k]
        BY <1>2, <2>6, <2>8, <4>1, <4>4, <4>5
      <4>7. M = N
        BY <1>2, <2>6, <4>4, <4>5, <4>6, SameList
      <4> QED BY <1>2, <3>2, <4>1, <4>2, <4>7
    <3> QED BY <3>1, <3>2
  <2>10. Meaning!Items(1) = i
    BY <2>6 DEF Meaning!Items
  <2>11. Meaning!Delete(i)
    BY <1>1, <1>2, <1>4, <2>5, <2>9 DEF Meaning!Delete, Meaning!Before
  <2>12. Meaning!Changing
    BY <2>6, <2>10, <2>11 DEF Meaning!Changing
  <2> QED BY <2>3, <2>4, <2>12, MutatesMeant
<1> QED BY <1>3, <1>4

\* The first part of a list.
LEMMA FirstPart ==
    ASSUME NEW s \in Seq(Slot), NEW n \in Nat, n <= Len(s), NEW t, t = SubSeq(s, 1, n)
    PROVE  t \in Seq(Slot) /\ Len(t) = n /\ \A k \in 1..n : t[k] = s[k]
<1>1. PICK one \in Int : one = 1
  OBVIOUS
<1>2. one >= 1 /\ n \in Int /\ n >= one - 1 /\ n - one + 1 = n
  BY <1>1
<1>3. /\ SubSeq(s, one, n) \in Seq(Slot) /\ Len(SubSeq(s, one, n)) = n - one + 1
      /\ \A k \in 1..(n - one + 1) : SubSeq(s, one, n)[k] = s[one + k - 1]
  BY <1>2, PartOf
<1>4. t \in Seq(Slot) /\ Len(t) = n /\ \A k \in 1..n : t[k] = s[one + k - 1]
  BY <1>1, <1>2, <1>3
<1>5. \A k \in 1..n : one + k - 1 = k
  BY <1>1
<1> QED BY <1>4, <1>5

\* Elements are cut off, or undefined ones added (setArrayLength).
LEMMA LengthMeant ==
    ASSUME Inv, NEW n \in Int, setArrayLength(n)
    PROVE  Meaning!ListNext
<1>1. PICK d : d = growArray(data, length, n)
  OBVIOUS
<1>2. PICK m : m = Larger(n, 0)
  OBVIOUS
<1>3. Mutates("length", <<n>>, d, m, <<>>)
  BY <1>1, <1>2 DEF setArrayLength
<1>4. /\ length \in Nat /\ high \in Nat /\ length <= high /\ high <= Size(data) /\ m \in Nat /\ (n >= 0 => m = n)
      /\ (n < 0 => m = 0) /\ Size(data) \in Nat
  BY <1>2, ArrayIs DEF Larger
<1>5. /\ IsBlock(d) /\ Size(d) \in Nat /\ Size(d) >= Size(data) /\ Size(d) >= n
      /\ \A k \in 0..(length - 1) : d[k] = data[k]
      /\ \A k \in high..(Size(d) - 1) : d[k] = Undefined
  BY <1>1, GrownIs
<1>6. CanBecome(d, m, m)
  <2>1. Size(d) >= Size(data) /\ m \in 0..Size(d) /\ m \in m..Size(d)
    BY <1>4, <1>5
  <2>2. ASSUME NEW k \in 0..(Size(d) - 1), k >= high PROVE d[k] = Undefined
    BY <1>4, <1>5, <2>2
  <2> QED BY <1>5, <2>1, <2>2 DEF CanBecome
<1>7. PICK M : M = List'
  OBVIOUS
<1>8. /\ M \in Seq(Slot) /\ Len(M) = m /\ DOMAIN M = 1..m /\ \A k \in 1..m : M[k] = d[k - 1]
      /\ call'.op = "length" /\ call'.args = <<n>>
  BY <1>3, <1>6, <1>7, Changed
<1>9. PICK L : L = List
  OBVIOUS
<1>10. L \in Seq(Slot) /\ Len(L) = length /\ \A k \in 1..length : L[k] = data[k - 1]
  BY <1>9, ListNow
<1>11. ASSUME NEW k \in 1..m, k <= length PROVE M[k] = data[k - 1]
  <2>1. PICK a \in 0..(length - 1) : a = k - 1
    BY <1>4, <1>11
  <2> QED BY <1>5, <1>8, <2>1
<1>12. ASSUME NEW k \in 1..m, k > high PROVE M[k] = Undefined
  <2>1. PICK a \in high..(Size(d) - 1) : a = k - 1
    BY <1>4, <1>5, <1>12
  <2> QED BY <1>5, <1>8, <2>1
<1>13. Meaning!SetLength(n)
  <2>1. CASE n <= length
    <3>1. m \in 0..length /\ m = Meaning!Greater(n, 0)
      BY <1>4, <2>1 DEF Meaning!Greater
    <3>2. \A k \in 1..m : M[k] = data[k - 1]
      BY <1>4, <1>11, <3>1
    <3>3. M = SubSeq(List, 1, m)
      BY <1>8, <3>1, <3>2, FirstOnes
    <3> QED BY <1>7, <1>9, <1>10, <2>1, <3>1, <3>3 DEF Meaning!SetLength, Meaning!Before
  <2>2. CASE ~(n <= length)
    <3>1. m = n /\ m = Meaning!Greater(n, length) /\ length <= m
      BY <1>4, <2>2 DEF Meaning!Greater
    <3>2. PICK N : N = SubSeq(M, 1, length)
      OBVIOUS
    <3>3. length \in Nat /\ length <= Len(M)
      BY <1>4, <1>8, <3>1
    <3>4. N \in Seq(Slot) /\ Len(N) = length /\ \A k \in 1..length : N[k] = M[k]
      BY <1>8, <3>2, <3>3, FirstPart
    <3>5. ASSUME NEW k \in 1..length PROVE N[k] = L[k]
      <4>1. length \in Nat /\ m \in Nat /\ length <= m
        BY <1>4, <3>1
      <4>2. k \in 1..m /\ k <= length
        BY <4>1
      <4>3. M[k] = data[k - 1]
        BY <1>11, <4>2
      <4>4. L[k] = data[k - 1] /\ N[k] = M[k]
        BY <1>10, <3>4
      <4> QED BY <4>3, <4>4
    <3>6. N = L /\ SubSeq(L, 1, Len(L)) = L
      BY <1>10, <3>4, <3>5, SameList
    <3>7. Meaning!Grown(M, n)
      BY <1>8, <1>9, <1>10, <1>12, <3>1, <3>2, <3>6 DEF Meaning!Grown, Meaning!Before
    <3> QED BY <1>7, <1>9, <1>10, <2>2, <3>7 DEF Meaning!SetLength
  <2> QED BY <2>1, <2>2
<1>14. Meaning!Items(1) = n
  BY <1>8 DEF Meaning!Items
<1>15. Meaning!Changing
  BY <1>8, <1>13, <1>14 DEF Meaning!Changing
<1> QED BY <1>3, <1>6, <1>15, MutatesMeant

\* All elements go (clearArray).
LEMMA ClearMeant ==
    ASSUME Inv, clear
    PROVE  Meaning!ListNext
<1>1. Mutates("clear", <<>>, data, 0, <<>>)
  BY DEF clear
<1>2. CanBecome(data, 0, 0)
  BY Same, ArrayIs
<1>3. PICK M : M = List'
  OBVIOUS
<1>4. PICK zero : zero = 0
  OBVIOUS
<1>5. M \in Seq(Slot) /\ Len(M) = zero /\ call'.op = "clear"
  BY <1>1, <1>2, <1>3, <1>4, Changed
<1>6. M = <<>>
  BY <1>4, <1>5
<1>7. Meaning!Changing
  BY <1>3, <1>5, <1>6 DEF Meaning!Changing
<1> QED BY <1>1, <1>2, <1>7, MutatesMeant

\* Arguments that are lists are lists of slots' contents.
LEMMA ItemsListed ==
    ASSUME NEW items \in Inputs
    PROVE  items \in Seq(Slot) /\ Len(items) \in Nat
<1>1. IsSequence(items) /\ Len(items) \in Nat /\ \A k \in 1..Len(items) : items[k] \in Slot
  BY ItemsAre
<1>2. PICK n \in Nat : n = Len(items)
  BY <1>1
<1>3. items \in [1..n -> Slot]
  BY <1>1, <1>2 DEF IsSequence
<1> QED BY <1>1, <1>2, <1>3

\* What is left of a list from an element on.
LEMMA LastPart ==
    ASSUME NEW s \in Seq(Slot), NEW n \in Nat, n <= Len(s), NEW t, t = SubSeq(s, n + 1, Len(s))
    PROVE  t \in Seq(Slot) /\ Len(t) = Len(s) - n /\ \A k \in 1..(Len(s) - n) : t[k] = s[n + k]
<1>1. PICK a \in Int : a = n + 1
  OBVIOUS
<1>2. PICK b \in Nat : b = Len(s)
  OBVIOUS
<1>3. a >= 1 /\ b \in Int /\ b >= a - 1 /\ b <= Len(s) /\ b - a + 1 = b - n
  BY <1>1, <1>2
<1>4. /\ SubSeq(s, a, b) \in Seq(Slot) /\ Len(SubSeq(s, a, b)) = b - a + 1
      /\ \A k \in 1..(b - a + 1) : SubSeq(s, a, b)[k] = s[a + k - 1]
  BY <1>2, <1>3, PartOf
<1>5. t \in Seq(Slot) /\ Len(t) = b - n /\ \A k \in 1..(b - n) : t[k] = s[a + k - 1]
  BY <1>1, <1>2, <1>3, <1>4
<1>6. \A k \in 1..(b - n) : a + k - 1 = n + k
  BY <1>1, <1>2
<1> QED BY <1>2, <1>5, <1>6

\* The list t is s with items put in place of count elements
PutIn(s, t, at, count, items) ==
    /\ Len(t) = Len(s) - count + Len(items)
    /\ \A k \in 1..at : t[k] = s[k]
    /\ \A k \in 1..Len(items) : t[at + k] = items[k]
    /\ \A k \in 1..(Len(s) - at - count) : t[at + Len(items) + k] = s[at + count + k]

\* Elements put in place of others.
LEMMA Replaced ==
    ASSUME NEW s \in Seq(Slot), NEW at \in Nat, NEW count \in Nat, at + count <= Len(s), NEW items \in Seq(Slot),
           NEW t \in Seq(Slot), PutIn(s, t, at, count, items)
    PROVE  t = SubSeq(s, 1, at) \o items \o SubSeq(s, at + count + 1, Len(s))
<1>1. PICK a : a = SubSeq(s, 1, at)
  OBVIOUS
<1>2. PICK z : z = SubSeq(s, at + count + 1, Len(s))
  OBVIOUS
<1>3. PICK n \in Nat : n = at + count
  OBVIOUS
<1>4. PICK l \in Nat : l = Len(s)
  OBVIOUS
<1>5. PICK i \in Nat : i = Len(items)
  OBVIOUS
<1>6. a \in Seq(Slot) /\ Len(a) = at /\ \A k \in 1..at : a[k] = s[k]
  <2>1. at <= Len(s)
    BY <1>4
  <2> QED BY <1>1, <2>1, FirstPart
<1>7. z \in Seq(Slot) /\ Len(z) = l - n /\ \A k \in 1..(l - n) : z[k] = s[n + k]
  BY <1>2, <1>3, <1>4, LastPart
<1>8. PICK b : b = a \o items
  OBVIOUS
<1>9. /\ b \in Seq(Slot) /\ Len(b) = at + i /\ \A k \in 1..at : b[k] = a[k]
      /\ \A k \in (at + 1)..(at + i) : b[k] = items[k - at]
  <2>1. /\ a \o items \in Seq(Slot) /\ Len(a \o items) = Len(a) + Len(items)
        /\ \A k \in 1..Len(a) : (a \o items)[k] = a[k]
        /\ \A k \in (Len(a) + 1)..(Len(a) + Len(items)) : (a \o items)[k] = items[k - Len(a)]
    BY <1>6, Joined
  <2> QED BY <1>5, <1>6, <1>8, <2>1
<1>10. PICK r : r = b \o z
  OBVIOUS
<1>11. PICK c \in Nat : c = at + i
  OBVIOUS
<1>12. PICK e \in Nat : e = l - n
  <2>1. n <= l
    BY <1>3, <1>4
  <2>2. l - n \in Nat
    BY <2>1
  <2> QED BY <2>2
<1>13. Len(b) = c /\ Len(z) = e
  BY <1>7, <1>9, <1>11, <1>12
<1>14. /\ r \in Seq(Slot) /\ Len(r) = c + e /\ \A k \in 1..c : r[k] = b[k]
       /\ \A k \in (c + 1)..(c + e) : r[k] = z[k - c]
  <2>1. /\ b \o z \in Seq(Slot) /\ Len(b \o z) = Len(b) + Len(z) /\ \A k \in 1..Len(b) : (b \o z)[k] = b[k]
        /\ \A k \in (Len(b) + 1)..(Len(b) + Len(z)) : (b \o z)[k] = z[k - Len(b)]
    BY <1>7, <1>9, Joined
  <2> QED BY <1>10, <1>13, <2>1
<1>15. Len(t) = c + e
  BY <1>3, <1>4, <1>5, <1>11, <1>12 DEF PutIn
<1>16. ASSUME NEW k \in 1..(c + e) PROVE t[k] = r[k]
  <2>1. CASE k <= at
    <3>1. k \in 1..at /\ k \in 1..c
      BY <1>11, <2>1
    <3>2. t[k] = s[k]
      BY <3>1 DEF PutIn
    <3> QED BY <1>6, <1>9, <1>14, <3>1, <3>2
  <2>2. CASE at < k /\ k <= c
    <3>1. PICK j \in 1..i : j = k - at
      BY <1>11, <2>2
    <3>2. t[at + j] = items[j]
      BY <1>5, <3>1 DEF PutIn
    <3>3. at + j = k /\ k \in 1..c /\ k \in (at + 1)..(at + i)
      BY <1>11, <2>2, <3>1
    <3>4. r[k] = b[k] /\ b[k] = items[j]
      BY <1>9, <1>14, <3>1, <3>3
    <3> QED BY <3>2, <3>3, <3>4
  <2>3. CASE c < k
    <3>1. PICK j \in 1..e : j = k - c
      BY <2>3
    <3>2. j \in 1..(Len(s) - at - count)
      BY <1>3, <1>4, <1>12, <3>1
    <3>3. t[at + Len(items) + j] = s[at + count + j]
      BY <3>2 DEF PutIn
    <3>4. at + Len(items) + j = k /\ at + count + j = n + j /\ k \in (c + 1)..(c + e)
      BY <1>3, <1>5, <1>11, <2>3, <3>1
    <3>5. r[k] = z[j]
      BY <1>14, <3>1, <3>4
    <3>6. z[j] = s[n + j]
      BY <1>7, <1>12, <3>1
    <3> QED BY <3>3, <3>4, <3>5, <3>6
  <2> QED BY <2>1, <2>2, <2>3
<1>17. t = r
  BY <1>14, <1>15, <1>16, SameList
<1> QED BY <1>1, <1>2, <1>8, <1>10, <1>17

\* One list behind another, element by element.
LEMMA JoinedSame ==
    ASSUME NEW s \in Seq(Slot), NEW t \in Seq(Slot), NEW u \in Seq(Slot), Len(u) = Len(s) + Len(t),
           \A k \in 1..Len(s) : u[k] = s[k], \A k \in 1..Len(t) : u[Len(s) + k] = t[k]
    PROVE  u = s \o t
<1>1. PICK r : r = s \o t
  OBVIOUS
<1>2. PICK n \in Nat : n = Len(s)
  OBVIOUS
<1>3. PICK i \in Nat : i = Len(t)
  OBVIOUS
<1>4. /\ r \in Seq(Slot) /\ Len(r) = n + i /\ \A k \in 1..n : r[k] = s[k]
      /\ \A k \in (n + 1)..(n + i) : r[k] = t[k - n]
  BY <1>1, <1>2, <1>3, Joined
<1>5. ASSUME NEW k \in 1..(n + i) PROVE u[k] = r[k]
  <2>1. CASE k <= n
    <3>1. k \in 1..n
      BY <2>1
    <3> QED BY <1>2, <1>4, <3>1
  <2>2. CASE n < k
    <3>1. PICK j \in 1..i : j = k - n
      BY <2>2
    <3>2. n + j = k /\ k \in (n + 1)..(n + i)
      BY <2>2, <3>1
    <3>3. u[n + j] = t[j]
      BY <1>2, <1>3, <3>1
    <3>4. r[k] = t[j]
      BY <1>4, <3>1, <3>2
    <3> QED BY <3>2, <3>3, <3>4
  <2> QED BY <2>1, <2>2
<1>6. Len(u) = n + i
  BY <1>2, <1>3
<1>7. u = r
  BY <1>4, <1>5, <1>6, SameList
<1> QED BY <1>1, <1>7

\* Elements are put behind the others (pushArray).
LEMMA PushMeant ==
    ASSUME Inv, NEW items \in Inputs, push(items)
    PROVE  Meaning!ListNext
<1>1. PICK n : n = length + Len(items)
  OBVIOUS
<1>2. PICK d : d = CopyIn(growArray(data, length, n), length, items)
  OBVIOUS
<1>3. Mutates("push", <<items>>, d, n, <<n>>)
  BY <1>1, <1>2 DEF push
<1>4. /\ CanBecome(d, n, n) /\ \A k \in 0..(length - 1) : d[k] = data[k]
      /\ \A k \in length..(n - 1) : d[k] = items[k - length + 1]
  BY <1>1, <1>2, PushedIs
<1>5. PICK M : M = List'
  OBVIOUS
<1>6. /\ M \in Seq(Slot) /\ Len(M) = n /\ \A k \in 1..n : M[k] = d[k - 1]
      /\ call'.op = "push" /\ call'.args = <<items>> /\ call'.gives = <<n>>
  BY <1>3, <1>4, <1>5, Changed
<1>7. PICK L : L = List
  OBVIOUS
<1>8. L \in Seq(Slot) /\ Len(L) = length /\ length \in Nat /\ \A k \in 1..length : L[k] = data[k - 1]
  BY <1>7, ListNow
<1>9. items \in Seq(Slot) /\ Len(items) \in Nat
  BY ItemsListed
<1>10. PICK l \in Nat : l = Len(items)
  BY <1>9
<1>11. n = length + l /\ n \in Nat
  BY <1>1, <1>8, <1>10
<1>12. ASSUME NEW k \in 1..length PROVE M[k] = L[k]
  <2>1. PICK m \in 0..(length - 1) : m = k - 1
    BY <1>8
  <2>2. k \in 1..n
    BY <1>8, <1>11
  <2>3. M[k] = d[m] /\ L[k] = data[m]
    BY <1>6, <1>8, <2>1, <2>2
  <2> QED BY <1>4, <2>3
<1>13. ASSUME NEW k \in 1..l PROVE M[length + k] = items[k]
  <2>1. PICK j \in 1..n : j = length + k
    BY <1>8, <1>11
  <2>2. PICK m \in length..(n - 1) : m = j - 1 /\ m - length + 1 = k
    BY <1>8, <1>11, <2>1
  <2>3. M[j] = d[m]
    BY <1>6, <2>1, <2>2
  <2>4. d[m] = items[k]
    BY <1>4, <2>2
  <2> QED BY <2>1, <2>3, <2>4
<1>14. M = L \o items
  <2>1. Len(M) = Len(L) + Len(items)
    BY <1>6, <1>8, <1>10, <1>11
  <2> QED BY <1>6, <1>8, <1>9, <1>10, <1>12, <1>13, <2>1, JoinedSame
<1>15. Meaning!Items(1) = items
  BY <1>6 DEF Meaning!Items
<1>16. Meaning!Gives(<<Len(List')>>)
  BY <1>5, <1>6 DEF Meaning!Gives
<1>17. Meaning!Changing
  BY <1>5, <1>6, <1>7, <1>14, <1>15, <1>16 DEF Meaning!Changing
<1> QED BY <1>3, <1>4, <1>17, MutatesMeant

\* The last element goes (popArray).
LEMMA PopMeant ==
    ASSUME Inv, pop
    PROVE  Meaning!ListNext
<1>1. PICK L : L = List
  OBVIOUS
<1>2. L \in Seq(Slot) /\ Len(L) = length /\ length \in Nat /\ \A k \in 1..length : L[k] = data[k - 1]
  BY <1>1, ListNow
<1>3. CASE length = 0
  <2>1. PICK gives : gives = <<Undefined>> /\ Answered("pop", <<>>, gives)
    BY <1>3 DEF pop
  <2>2. Meaning!Stays /\ call'.op = "pop" /\ call'.gives = gives
    BY <2>1, AnsweredStays
  <2>3. Meaning!Changing /\ ~Meaning!Overcounts
    BY <1>3, <2>1, <2>2, EmptyIs DEF Meaning!Changing, Meaning!Overcounts, Meaning!Gives
  <2> QED BY <2>1, <2>3, AnsweredMeant
<1>4. CASE length # 0
  <2>1. PICK gives : gives = <<data[length - 1]>>
    OBVIOUS
  <2>2. PICK n \in 0..length : n = length - 1
    BY <1>2, <1>4
  <2>3. Mutates("pop", <<>>, data, n, gives)
    BY <1>4, <2>1, <2>2 DEF pop
  <2>4. CanBecome(data, n, n)
    BY <2>2, Same
  <2>5. PICK M : M = List'
    OBVIOUS
  <2>6. /\ M \in Seq(Slot) /\ Len(M) = n /\ \A k \in 1..n : M[k] = data[k - 1]
        /\ call'.op = "pop" /\ call'.gives = gives
    BY <2>3, <2>4, <2>5, Changed
  <2>7. M = SubSeq(L, 1, n)
    BY <1>1, <2>2, <2>6, FirstOnes
  <2>8. PICK z : z = SubSeq(L, n + 1, Len(L))
    OBVIOUS
  <2>9. n \in Nat /\ n <= Len(L) /\ Len(L) - n = 1 /\ n + 1 = length
    BY <1>2, <2>2
  <2>10. z \in Seq(Slot) /\ Len(z) = 1 /\ z[1] = L[n + 1]
    <3>1. z \in Seq(Slot) /\ Len(z) = Len(L) - n /\ \A k \in 1..(Len(L) - n) : z[k] = L[n + k]
      BY <1>2, <2>8, <2>9, LastPart
    <3> QED BY <2>9, <3>1
  <2>11. L[length] = data[length - 1]
    BY <1>2, <1>4
  <2>12. z = gives
    BY <2>1, <2>9, <2>10, <2>11
  <2>13. Meaning!Gives(Meaning!After(Len(List) - 1))
    BY <1>1, <1>2, <2>2, <2>6, <2>8, <2>12 DEF Meaning!Gives, Meaning!After
  <2>14. List' = Meaning!Before(Len(List) - 1)
    BY <1>1, <1>2, <2>2, <2>5, <2>7 DEF Meaning!Before
  <2>15. Meaning!Changing
    BY <1>4, <2>6, <2>13, <2>14, EmptyIs DEF Meaning!Changing
  <2> QED BY <2>3, <2>4, <2>15, MutatesMeant
<1> QED BY <1>3, <1>4

\* The first element goes (shiftArray).
LEMMA ShiftMeant ==
    ASSUME Inv, shift
    PROVE  Meaning!ListNext
<1>1. PICK L : L = List
  OBVIOUS
<1>2. L \in Seq(Slot) /\ Len(L) = length /\ length \in Nat /\ \A k \in 1..length : L[k] = data[k - 1]
  BY <1>1, ListNow
<1>3. CASE length = 0
  <2>1. PICK gives : gives = <<Undefined>> /\ Answered("shift", <<>>, gives)
    BY <1>3 DEF shift
  <2>2. Meaning!Stays /\ call'.op = "shift" /\ call'.gives = gives
    BY <2>1, AnsweredStays
  <2>3. Meaning!Changing /\ ~Meaning!Overcounts
    BY <1>3, <2>1, <2>2, EmptyIs DEF Meaning!Changing, Meaning!Overcounts, Meaning!Gives
  <2> QED BY <2>1, <2>3, AnsweredMeant
<1>4. CASE length # 0
  <2>1. PICK gives : gives = <<data[0]>>
    OBVIOUS
  <2>2. PICK n \in Nat : n = length - 1
    BY <1>2, <1>4
  <2>3. PICK d : d = MoveDown(data, 0, length - 2, 1)
    OBVIOUS
  <2>4. Mutates("shift", <<>>, d, n, gives)
    BY <1>4, <2>1, <2>2, <2>3 DEF shift
  <2>5. CanBecome(d, n, n) /\ \A k \in 0..(length - 2) : d[k] = data[k + 1]
    BY <1>4, <2>2, <2>3, ShiftedIs
  <2>6. PICK M : M = List'
    OBVIOUS
  <2>7. /\ M \in Seq(Slot) /\ Len(M) = n /\ \A k \in 1..n : M[k] = d[k - 1]
        /\ call'.op = "shift" /\ call'.gives = gives
    BY <2>4, <2>5, <2>6, Changed
  <2>8. PICK one \in Nat : one = 1
    OBVIOUS
  <2>9. PICK z : z = SubSeq(L, one + 1, Len(L))
    OBVIOUS
  <2>10. one <= Len(L) /\ Len(L) - one = n
    BY <1>2, <2>2, <2>8
  <2>11. z \in Seq(Slot) /\ Len(z) = n /\ \A k \in 1..n : z[k] = L[one + k]
    BY <1>2, <2>9, <2>10, LastPart
  <2>12. ASSUME NEW k \in 1..n PROVE M[k] = z[k]
    <3>1. PICK m \in 0..(length - 2) : m = k - 1
      BY <1>2, <2>2
    <3>2. PICK j \in 1..length : j = one + k
      BY <1>2, <2>2, <2>8
    <3>3. m + 1 = k /\ j - 1 = k
      BY <2>8, <3>1, <3>2
    <3>4. M[k] = d[m] /\ d[m] = data[k]
      BY <2>5, <2>7, <3>1, <3>3
    <3>5. z[k] = L[j] /\ L[j] = data[k]
      BY <1>2, <2>11, <3>2, <3>3
    <3> QED BY <3>4, <3>5
  <2>13. M = z
    BY <2>7, <2>11, <2>12, SameList
  <2>14. PICK a : a = SubSeq(L, 1, one)
    OBVIOUS
  <2>15. a \in Seq(Slot) /\ Len(a) = one /\ \A k \in 1..one : a[k] = L[k]
    BY <1>2, <2>10, <2>14, FirstPart
  <2>16. L[1] = data[0]
    <3>1. 1 \in 1..length
      BY <1>2, <1>4
    <3> QED BY <1>2, <3>1
  <2>17. a = gives
    BY <2>1, <2>8, <2>15, <2>16
  <2>18. Meaning!Gives(Meaning!Before(1)) /\ List' = Meaning!After(1)
    BY <1>1, <2>6, <2>7, <2>8, <2>9, <2>13, <2>14, <2>17 DEF Meaning!Gives, Meaning!Before, Meaning!After
  <2>19. Meaning!Changing
    BY <1>4, <2>7, <2>18, EmptyIs DEF Meaning!Changing
  <2> QED BY <2>4, <2>5, <2>19, MutatesMeant
<1> QED BY <1>3, <1>4

\* The block d is the array's with items put in place of count elements
PutInBlock(d, at, count, items, n) ==
    /\ n = length + Len(items) - count
    /\ \A k \in 0..(at - 1) : d[k] = data[k]
    /\ \A k \in at..(at + Len(items) - 1) : d[k] = items[k - at + 1]
    /\ \A k \in (at + Len(items))..(n - 1) : d[k] = data[k - Len(items) + count]

\* The list of a block is its elements, one place further
Lists(M, d, n) == M \in Seq(Slot) /\ Len(M) = n /\ \A k \in 1..n : M[k] = d[k - 1]

\* The elements around those that are put in.
LEMMA AroundInserted ==
    ASSUME Inv, NEW items \in Inputs, NEW at \in 0..length, NEW count \in Nat, at + count <= length,
           NEW n, NEW d, PutInBlock(d, at, count, items, n), NEW M, Lists(M, d, n)
    PROVE  M = SubSeq(List, 1, at) \o items \o SubSeq(List, at + count + 1, Len(List))
<1>1. PICK L : L = List
  OBVIOUS
<1>2. L \in Seq(Slot) /\ Len(L) = length /\ length \in Nat /\ \A k \in 1..length : L[k] = data[k - 1]
  BY <1>1, ListNow
<1>3. items \in Seq(Slot) /\ Len(items) \in Nat
  BY ItemsListed
<1>4. PICK i \in Nat : i = Len(items)
  BY <1>3
<1>5. PICK rest \in Nat : rest = length - at - count
  <2>1. length - at - count \in Nat
    BY <1>2
  <2> QED BY <2>1
<1>6. at \in Nat /\ n = at + i + rest
  BY <1>2, <1>4, <1>5 DEF PutInBlock
<1>7. ASSUME NEW k \in 1..at PROVE M[k] = L[k]
  <2>1. PICK m \in 0..(at - 1) : m = k - 1
    BY <1>6
  <2>2. k \in 1..n /\ k \in 1..length
    BY <1>2, <1>6
  <2>3. M[k] = d[m] /\ L[k] = data[m]
    BY <1>2, <2>1, <2>2 DEF Lists
  <2>4. d[m] = data[m]
    BY <2>1 DEF PutInBlock
  <2> QED BY <2>3, <2>4
<1>8. ASSUME NEW k \in 1..i PROVE M[at + k] = items[k]
  <2>1. PICK j \in 1..n : j = at + k
    BY <1>6
  <2>2. PICK m \in at..(at + i - 1) : m = j - 1
    BY <1>6, <2>1
  <2>3. m - at + 1 = k
    BY <1>6, <2>1, <2>2
  <2>4. M[j] = d[m]
    BY <2>1, <2>2 DEF Lists
  <2>5. d[m] = items[m - at + 1]
    BY <1>4, <2>2 DEF PutInBlock
  <2> QED BY <2>1, <2>3, <2>4, <2>5
<1>9. ASSUME NEW k \in 1..rest PROVE M[at + i + k] = L[at + count + k]
  <2>1. PICK j \in 1..n : j = at + i + k
    BY <1>6
  <2>2. PICK m \in (at + i)..(n - 1) : m = j - 1
    BY <1>6, <2>1
  <2>3. PICK o \in 1..length : o = at + count + k
    BY <1>2, <1>5, <1>6
  <2>4. m - i + count = o - 1
    BY <1>6, <2>1, <2>2, <2>3
  <2>5. M[j] = d[m]
    BY <2>1, <2>2 DEF Lists
  <2>6. d[m] = data[m - i + count]
    BY <1>4, <2>2 DEF PutInBlock
  <2>7. L[o] = data[o - 1]
    BY <1>2
  <2> QED BY <2>1, <2>3, <2>4, <2>5, <2>6, <2>7
<1>10. M \in Seq(Slot) /\ Len(M) = n
  BY DEF Lists
<1>11. PutIn(L, M, at, count, items)
  <2>1. Len(M) = Len(L) - count + Len(items)
    BY <1>2, <1>4, <1>5, <1>6, <1>10
  <2>2. \A k \in 1..Len(items) : M[at + k] = items[k]
    BY <1>4, <1>8
  <2>3. \A k \in 1..(Len(L) - at - count) : M[at + Len(items) + k] = L[at + count + k]
    BY <1>2, <1>4, <1>5, <1>9
  <2> QED BY <1>7, <2>1, <2>2, <2>3 DEF PutIn
<1>12. M = SubSeq(L, 1, at) \o items \o SubSeq(L, at + count + 1, Len(L))
  <2>1. at + count <= Len(L)
    BY <1>2
  <2> QED BY <1>2, <1>3, <1>6, <1>10, <1>11, <2>1, Replaced
<1> QED BY <1>1, <1>12

\* Positions count from the end if they are below 0, to a script as in the code.
LEMMA WithinIs ==
    ASSUME Inv, NEW i \in Int
    PROVE  /\ Meaning!Within(i) = FromEnd(i) /\ FromEnd(i) \in Nat
           /\ Meaning!Lesser(Meaning!Within(i), Len(List)) = Smaller(FromEnd(i), length)
           /\ Meaning!Lesser(Meaning!Within(i), Len(List) - 1) = Smaller(FromEnd(i), length - 1)
<1>1. Len(List) = length /\ length \in Nat
  BY ListNow
<1>2. Meaning!Within(i) = FromEnd(i) /\ FromEnd(i) \in Nat
  BY <1>1 DEF Meaning!Within, FromEnd, Meaning!Greater, Larger
<1>3. PICK f \in Nat : f = FromEnd(i)
  BY <1>2
<1>4. Meaning!Lesser(f, length) = Smaller(f, length) /\ Meaning!Lesser(f, length - 1) = Smaller(f, length - 1)
  BY <1>1 DEF Meaning!Lesser, Smaller
<1> QED BY <1>1, <1>2, <1>3, <1>4

\* The block with items put in at a place
Holds(d, at, items, n) ==
    /\ \A k \in 0..(at - 1) : d[k] = data[k]
    /\ \A k \in at..(at + Len(items) - 1) : d[k] = items[k - at + 1]
    /\ \A k \in (at + Len(items))..(n - 1) : d[k] = data[k - Len(items)]

\* What a block holds once elements are put in.
LEMMA InsertedHolds ==
    ASSUME Inv, NEW items \in Inputs, NEW n, n = length + Len(items), NEW at \in 0..length, NEW d, d = Inserted(at, items)
    PROVE  CanBecome(d, n, n) /\ Holds(d, at, items, n)
BY InsertedIs DEF Holds

\* Elements are put in front of one (insertArray).
LEMMA InsertMeant ==
    ASSUME Inv, NEW items \in Inputs, NEW i \in Int, insert(i, items)
    PROVE  Meaning!ListNext
<1>1. PICK at : at = Smaller(FromEnd(i), length)
  OBVIOUS
<1>2. at \in 0..length /\ length \in Nat
  BY <1>1, FromEndIs, ArrayIs
<1>3. PICK n : n = length + Len(items)
  OBVIOUS
<1>4. PICK d : d = Inserted(at, items)
  OBVIOUS
<1>5. Mutates("insert", <<i, items>>, d, n, <<>>)
  BY <1>1, <1>3, <1>4 DEF insert
<1>6. CanBecome(d, n, n) /\ Holds(d, at, items, n)
  BY <1>2, <1>3, <1>4, InsertedHolds
<1>7. PICK M : M = List'
  OBVIOUS
<1>8. /\ M \in Seq(Slot) /\ Len(M) = n /\ \A k \in 1..n : M[k] = d[k - 1]
      /\ call'.op = "insert" /\ call'.args = <<i, items>>
  BY <1>5, <1>6, <1>7, Changed
<1>9. PICK none \in Nat : none = 0
  OBVIOUS
<1>10. Len(items) \in Nat
  BY ItemsListed
<1>11. at + none <= length /\ n = length + Len(items) - none /\ at + none + 1 = at + 1
  BY <1>2, <1>3, <1>9, <1>10
<1>12. ASSUME NEW k \in (at + Len(items))..(n - 1) PROVE d[k] = data[k - Len(items) + none]
  <2>1. k - Len(items) + none = k - Len(items)
    BY <1>2, <1>3, <1>9, <1>10
  <2> QED BY <1>6, <2>1 DEF Holds
<1>13. M = SubSeq(List, 1, at) \o items \o SubSeq(List, at + none + 1, Len(List))
  <2>1. PutInBlock(d, at, none, items, n)
    BY <1>6, <1>11, <1>12 DEF PutInBlock, Holds
  <2>2. Lists(M, d, n)
    BY <1>8 DEF Lists
  <2> QED BY <1>2, <1>11, <2>1, <2>2, AroundInserted
<1>14. Meaning!Lesser(Meaning!Within(i), Len(List)) = at
  BY <1>1, WithinIs
<1>15. Meaning!Insert(i, items)
  BY <1>7, <1>11, <1>13, <1>14 DEF Meaning!Insert, Meaning!Before, Meaning!After
<1>16. Meaning!Items(1) = i /\ Meaning!Items(2) = items
  BY <1>8 DEF Meaning!Items
<1>17. Meaning!Changing
  BY <1>8, <1>15, <1>16 DEF Meaning!Changing
<1> QED BY <1>5, <1>6, <1>17, MutatesMeant

\* Elements are put in front (unshiftArray).
LEMMA UnshiftMeant ==
    ASSUME Inv, NEW items \in Inputs, unshift(items)
    PROVE  Meaning!ListNext
<1>1. PICK at : at = 0
  OBVIOUS
<1>2. at \in 0..length /\ length \in Nat
  BY <1>1, ArrayIs
<1>3. PICK n : n = length + Len(items)
  OBVIOUS
<1>4. PICK d : d = Inserted(at, items)
  OBVIOUS
<1>5. Mutates("unshift", <<items>>, d, n, <<>>)
  BY <1>1, <1>3, <1>4 DEF unshift
<1>6. CanBecome(d, n, n) /\ Holds(d, at, items, n)
  BY <1>2, <1>3, <1>4, InsertedHolds
<1>7. PICK M : M = List'
  OBVIOUS
<1>8. /\ M \in Seq(Slot) /\ Len(M) = n /\ \A k \in 1..n : M[k] = d[k - 1]
      /\ call'.op = "unshift" /\ call'.args = <<items>>
  BY <1>5, <1>6, <1>7, Changed
<1>9. PICK L : L = List
  OBVIOUS
<1>10. L \in Seq(Slot) /\ Len(L) = length /\ \A k \in 1..length : L[k] = data[k - 1]
  BY <1>9, ListNow
<1>11. items \in Seq(Slot) /\ Len(items) \in Nat
  BY ItemsListed
<1>12. PICK i \in Nat : i = Len(items)
  BY <1>11
<1>13. n = i + length
  BY <1>2, <1>3, <1>12
<1>14. ASSUME NEW k \in 1..i PROVE M[k] = items[k]
  <2>1. PICK m \in at..(at + i - 1) : m = k - 1
    BY <1>1
  <2>2. k \in 1..n /\ m - at + 1 = k
    BY <1>1, <1>2, <1>13, <2>1
  <2>3. M[k] = d[m]
    BY <1>8, <2>1, <2>2
  <2>4. d[m] = items[m - at + 1]
    BY <1>6, <1>12, <2>1 DEF Holds
  <2> QED BY <2>2, <2>3, <2>4
<1>15. ASSUME NEW k \in 1..length PROVE M[i + k] = L[k]
  <2>1. PICK j \in 1..n : j = i + k
    BY <1>2, <1>13
  <2>2. PICK m \in (at + i)..(n - 1) : m = j - 1
    BY <1>1, <1>13, <2>1
  <2>3. m - i = k - 1
    BY <2>1, <2>2
  <2>4. M[j] = d[m]
    BY <1>8, <2>1, <2>2
  <2>5. d[m] = data[m - i]
    BY <1>6, <1>12, <2>2 DEF Holds
  <2> QED BY <1>10, <2>1, <2>3, <2>4, <2>5
<1>16. M = items \o L
  <2>1. Len(M) = Len(items) + Len(L) /\ \A k \in 1..Len(items) : M[k] = items[k]
    BY <1>8, <1>10, <1>12, <1>13, <1>14
  <2>2. \A k \in 1..Len(L) : M[Len(items) + k] = L[k]
    BY <1>10, <1>12, <1>15
  <2> QED BY <1>8, <1>10, <1>11, <2>1, <2>2, JoinedSame
<1>17. Meaning!Items(1) = items
  BY <1>8 DEF Meaning!Items
<1>18. Meaning!Changing
  BY <1>7, <1>8, <1>9, <1>16, <1>17 DEF Meaning!Changing
<1> QED BY <1>5, <1>6, <1>18, MutatesMeant

\* The elements change places (reverseArray).
LEMMA ReverseMeant ==
    ASSUME Inv, reverse
    PROVE  Meaning!ListNext
<1>1. PICK d : d = [k \in DOMAIN data |-> IF k < length THEN data[length - 1 - k] ELSE data[k]]
  OBVIOUS
<1>2. Mutates("reverse", <<>>, d, length, <<>>)
  BY <1>1 DEF reverse
<1>3. CanBecome(d, length, length) /\ \A k \in 0..(length - 1) : d[k] = data[length - 1 - k]
  BY <1>1, ReversedIs
<1>4. PICK M : M = List'
  OBVIOUS
<1>5. M \in Seq(Slot) /\ Len(M) = length /\ (\A k \in 1..length : M[k] = d[k - 1]) /\ call'.op = "reverse"
  BY <1>2, <1>3, <1>4, Changed
<1>6. PICK L : L = List
  OBVIOUS
<1>7. /\ L \in Seq(Slot) /\ Len(L) = length /\ DOMAIN L = 1..length /\ length \in Nat
      /\ \A k \in 1..length : L[k] = data[k - 1]
  BY <1>6, ListNow
<1>8. ASSUME NEW k \in 1..length PROVE M[k] = L[length + 1 - k]
  <2>1. PICK m \in 0..(length - 1) : m = k - 1
    BY <1>7
  <2>2. PICK j \in 1..length : j = length + 1 - k
    BY <1>7
  <2>3. length - 1 - m = j - 1
    BY <1>7, <2>1, <2>2
  <2>4. M[k] = d[m] /\ d[m] = data[length - 1 - m]
    BY <1>3, <1>5, <2>1
  <2> QED BY <1>7, <2>2, <2>3, <2>4
<1>9. M = [k \in 1..length |-> M[k]]
  BY <1>5, <1>7
<1>10. M = [k \in DOMAIN L |-> L[Len(L) + 1 - k]]
  BY <1>7, <1>8, <1>9
<1>11. Meaning!Changing
  BY <1>4, <1>5, <1>6, <1>10 DEF Meaning!Changing
<1> QED BY <1>2, <1>3, <1>11, MutatesMeant

\* The elements that a splice takes out.
LEMMA TakenOut ==
    ASSUME Inv, NEW from \in Nat, NEW count \in Nat, from + count <= length
    PROVE  Elems(data, from, count) = SubSeq(List, from + 1, from + count)
<1>1. PICK L : L = List
  OBVIOUS
<1>2. L \in Seq(Slot) /\ Len(L) = length /\ length \in Nat /\ \A k \in 1..length : L[k] = data[k - 1]
  BY <1>1, ListNow
<1>3. IsBlock(data) /\ length <= Size(data) /\ Size(data) \in Nat
  BY ArrayIs
<1>4. PICK E : E = Elems(data, from, count)
  OBVIOUS
<1>5. from >= 0 /\ from + count <= Size(data) /\ from \in Int /\ count \in Int /\ ~(count < 0)
  BY <1>2, <1>3
<1>6. E \in Seq(Slot) /\ Len(E) = count /\ \A k \in 1..count : E[k] = data[from + k - 1]
  <2>1. /\ Len(Elems(data, from, count)) = IF count < 0 THEN 0 ELSE count
        /\ Elems(data, from, count) \in Seq(Slot)
        /\ \A k \in 1..count : Elems(data, from, count)[k] = data[from + k - 1]
    BY <1>3, <1>5, ElemsIs
  <2> QED BY <1>4, <1>5, <2>1
<1>7. PICK a \in Nat : a = from + 1
  OBVIOUS
<1>8. PICK b \in Nat : b = from + count
  OBVIOUS
<1>9. a \in Int /\ b \in Int /\ a >= 1 /\ b >= a - 1 /\ b <= Len(L) /\ b - a + 1 = count
  BY <1>2, <1>7, <1>8
<1>10. PICK S : S = SubSeq(L, a, b)
  OBVIOUS
<1>11. S \in Seq(Slot) /\ Len(S) = count /\ \A k \in 1..count : S[k] = L[a + k - 1]
  <2>1. /\ SubSeq(L, a, b) \in Seq(Slot) /\ Len(SubSeq(L, a, b)) = b - a + 1
        /\ \A k \in 1..(b - a + 1) : SubSeq(L, a, b)[k] = L[a + k - 1]
    BY <1>2, <1>9, PartOf
  <2> QED BY <1>9, <1>10, <2>1
<1>12. ASSUME NEW k \in 1..count PROVE E[k] = S[k]
  <2>1. PICK j \in 1..length : j = a + k - 1
    BY <1>2, <1>7
  <2>2. j - 1 = from + k - 1
    BY <1>7, <2>1
  <2>3. S[k] = L[j] /\ L[j] = data[j - 1]
    BY <1>2, <1>11, <2>1
  <2> QED BY <1>6, <2>2, <2>3
<1>13. E = S
  BY <1>6, <1>11, <1>12, SameList
<1> QED BY <1>1, <1>4, <1>7, <1>8, <1>10, <1>13

\* Elements are replaced by others (spliceArray).
LEMMA SpliceMeant ==
    ASSUME Inv, NEW start \in Int, NEW count \in Int, NEW items \in Inputs, splice(start, count, items)
    PROVE  Meaning!ListNext
<1>1. PICK L : L = List
  OBVIOUS
<1>2. L \in Seq(Slot) /\ Len(L) = length /\ length \in Nat /\ (L = <<>> <=> length = 0)
  BY <1>1, ListNow, EmptyIs
<1>3. CASE length = 0
  <2>1. PICK gives : /\ gives = IF count <= 0 THEN <<>> ELSE <<"Array is empty">>
                     /\ Answered("splice", <<start, count, items>>, gives)
    BY <1>3 DEF splice
  <2>2. /\ Meaning!Stays /\ call'.op = "splice" /\ call'.args = <<start, count, items>> /\ call'.gives = gives
    BY <2>1, AnsweredStays
  <2>3. Meaning!Items(1) = start /\ Meaning!Items(2) = count /\ Meaning!Items(3) = items
    BY <2>2 DEF Meaning!Items
  <2>4. Meaning!Splice(start, count, items)
    BY <1>1, <1>2, <1>3, <2>1, <2>2 DEF Meaning!Splice, Meaning!Gives
  <2>5. ~Meaning!Overcounts
    BY <1>1, <1>2, <1>3 DEF Meaning!Overcounts
  <2>6. Meaning!Changing
    BY <2>2, <2>3, <2>4 DEF Meaning!Changing
  <2> QED BY <2>1, <2>5, <2>6, AnsweredMeant
<1>4. CASE length # 0
  <2>1. PICK from : from = Smaller(FromEnd(start), length - 1)
    OBVIOUS
  <2>2. from \in 0..(length - 1) /\ from \in Nat
    BY <1>4, <2>1, FromEndIs, <1>2
  <2>3. PICK removed : removed = spliceCount(from, count)
    OBVIOUS
  <2>4. removed \in 0..length /\ (count \in 0..(length - from) => removed = count)
    BY <2>2, <2>3, SpliceCountIs
  <2>5. PICK d : d = Spliced(from, removed, items)
    OBVIOUS
  <2>6. PICK n : n = length + Len(items) - removed
    OBVIOUS
  <2>7. PICK reach : reach = Larger(n, from + Len(items))
    OBVIOUS
  <2>8. /\ from + Len(items) <= Larger(Size(data), n)
        /\ Call("splice", <<start, count, items>>, Elems(data, from, removed))
        /\ Reach(d, n, reach)
    BY <1>4, <2>1, <2>3, <2>5, <2>6, <2>7 DEF splice
  <2>9. /\ CanBecome(d, n, reach)
        /\ removed <= length - from =>
                /\ \A k \in 0..(from - 1) : d[k] = data[k]
                /\ \A k \in from..(from + Len(items) - 1) : d[k] = items[k - from + 1]
                /\ \A k \in (from + Len(items))..(n - 1) : d[k] = data[k - Len(items) + removed]
    BY <2>2, <2>4, <2>5, <2>6, <2>7, <2>8, SplicedIs
  <2>10. PICK M : M = List'
    OBVIOUS
  <2>11. /\ M \in Seq(Slot) /\ Len(M) = n /\ n \in Nat /\ (\A k \in 1..n : M[k] = d[k - 1])
         /\ high' = Larger(high, reach)
    BY <2>8, <2>9, <2>10, ListNext
  <2>12. /\ call'.op = "splice" /\ call'.args = <<start, count, items>>
         /\ call'.gives = Elems(data, from, removed)
    BY <2>8 DEF Call
  <2>13. Meaning!Items(1) = start /\ Meaning!Items(2) = count /\ Meaning!Items(3) = items
    BY <2>12 DEF Meaning!Items
  <2>14. Meaning!Lesser(Meaning!Within(start), Len(List) - 1) = from
    BY <2>1, WithinIs
  <2>15. Len(items) \in Nat /\ high \in Nat
    BY ItemsListed, ArrayIs
  <2>16. PICK i \in Nat : i = Len(items)
    BY <2>15
  <2>17. CASE count \in 0..(length - from)
    <3>1. removed = count /\ count \in Nat /\ from + count <= length /\ removed <= length - from
      BY <1>2, <2>2, <2>4, <2>17
    <3>2. PutInBlock(d, from, count, items, n)
      BY <2>6, <2>9, <3>1 DEF PutInBlock
    <3>3. Lists(M, d, n) /\ from \in 0..length
      BY <1>2, <2>2, <2>11 DEF Lists
    <3>4. M = SubSeq(List, 1, from) \o items \o SubSeq(List, from + count + 1, Len(List))
      BY <3>1, <3>2, <3>3, AroundInserted
    <3>5. call'.gives = SubSeq(List, from + 1, from + count)
      BY <2>2, <2>12, <3>1, TakenOut
    <3>6. Meaning!Splice(start, count, items)
      BY <1>1, <1>2, <1>4, <2>10, <2>14, <3>4, <3>5 DEF Meaning!Splice, Meaning!Before, Meaning!After, Meaning!Gives
    <3>7. Meaning!Changing
      BY <2>12, <2>13, <3>6 DEF Meaning!Changing
    <3>8. ~Meaning!Overcounts
      BY <1>1, <1>2, <2>13, <2>14, <2>17 DEF Meaning!Overcounts
    <3>9. n >= from + i
      <4>1. n = length + i - count
        BY <2>6, <2>16, <3>1
      <4> QED BY <1>2, <2>2, <3>1, <4>1
    <3>10. reach = n
      BY <2>2, <2>7, <2>11, <2>16, <3>9 DEF Larger
    <3>11. high' = Meaning!Greater(high, Len(List'))
      BY <2>10, <2>11, <2>15, <3>10 DEF Meaning!Greater, Larger
    <3> QED BY <3>7, <3>8, <3>11 DEF Meaning!ListNext
  <2>18. CASE count \notin 0..(length - from)
    <3>1. Meaning!Splice(start, count, items)
      BY <1>1, <1>2, <1>4, <2>14, <2>18 DEF Meaning!Splice
    <3>2. Meaning!Changing
      BY <2>12, <2>13, <3>1 DEF Meaning!Changing
    <3>3. Meaning!Overcounts
      BY <1>1, <1>2, <1>4, <2>12, <2>13, <2>14, <2>18 DEF Meaning!Overcounts
    <3>4. reach >= n /\ reach \in Int
      BY <2>2, <2>7, <2>11, <2>16 DEF Larger
    <3>5. Larger(high, reach) >= Meaning!Greater(high, n)
      <4>1. Larger(high, reach) \in Int /\ Larger(high, reach) >= high /\ Larger(high, reach) >= reach
        BY <2>15, <3>4 DEF Larger
      <4>2. Meaning!Greater(high, n) = high \/ Meaning!Greater(high, n) = n
        BY DEF Meaning!Greater
      <4> QED BY <2>11, <2>15, <3>4, <4>1, <4>2
    <3>6. high' >= Meaning!Greater(high, Len(List'))
      BY <2>10, <2>11, <3>5, Zenon
    <3> QED BY <3>2, <3>3, <3>6 DEF Meaning!ListNext
  <2> QED BY <2>17, <2>18
<1> QED BY <1>3, <1>4

\* A copy holds the elements (cloneArrayMethod).
LEMMA CloneMeant ==
    ASSUME Inv, clone
    PROVE  Meaning!ListNext
<1>1. Answered("clone", <<>>, List)
  BY DEF clone
<1>2. Meaning!Stays /\ call'.op = "clone" /\ call'.gives = List
  BY <1>1, AnsweredStays
<1>3. Meaning!Reading /\ ~Meaning!Overcounts
  BY <1>2 DEF Meaning!Reading, Meaning!Gives, Meaning!Overcounts
<1> QED BY <1>1, <1>3, AnsweredMeant

\* Two arrays make one (concatArray).
LEMMA ConcatMeant ==
    ASSUME Inv, NEW items \in Inputs, concat(items)
    PROVE  Meaning!ListNext
<1>1. Answered("concat", <<items>>, List \o items)
  BY DEF concat
<1>2. Meaning!Stays /\ call'.op = "concat" /\ call'.args = <<items>> /\ call'.gives = List \o items
  BY <1>1, AnsweredStays
<1>3. Meaning!Items(1) = items
  BY <1>2 DEF Meaning!Items
<1>4. Meaning!Reading /\ ~Meaning!Overcounts
  BY <1>2, <1>3 DEF Meaning!Reading, Meaning!Gives, Meaning!Overcounts
<1> QED BY <1>1, <1>4, AnsweredMeant

\* What is picked from a list is some of it, in its order.
LEMMA PickedAlong ==
    ASSUME NEW s \in Seq(Slot), NEW t, NEW T \in SUBSET (1..Len(s)), Picks(s, t, Len(s), T)
    PROVE  \E f \in [DOMAIN t -> DOMAIN s] : Meaning!Along(f, s, t) /\ Meaning!Taken(f) = T
<1>1. t \in Seq(Slot)
  BY DEF Picks
<1>2. PICK f : PicksBy(f, s, t, Len(s), T)
  BY DEF Picks
<1>3. DOMAIN t = 1..Len(t) /\ DOMAIN s = 1..Len(s)
  BY <1>1
<1>4. f \in [DOMAIN t -> DOMAIN s] /\ DOMAIN f = 1..Len(t)
  BY <1>2, <1>3 DEF PicksBy
<1>5. Meaning!Along(f, s, t)
  BY <1>2, <1>3 DEF PicksBy, Meaning!Along
<1>6. {f[k] : k \in DOMAIN f} = {f[k] : k \in 1..Len(t)}
  BY <1>4
<1>7. Meaning!Taken(f) = T
  BY <1>2, <1>6 DEF PicksBy, Meaning!Taken
<1> QED BY <1>4, <1>5, <1>7

\* The first of each of the elements, of those in some.
LEMMA UniquesDistinct ==
    ASSUME NEW s \in Seq(Slot), NEW some
    PROVE  Meaning!Distinct(s, some, Uniques(s, some))
<1>1. PICK T : T = {k \in 1..Len(s) : s[k] \in some /\ \A m \in 1..(k - 1) : s[m] # s[k]}
  OBVIOUS
<1>2. Picks(s, Uniques(s, some), Len(s), T)
  BY <1>1, UniquesIs
<1>3. DOMAIN s = 1..Len(s) /\ T \in SUBSET (1..Len(s))
  BY <1>1
<1>4. PICK t : t = Uniques(s, some)
  OBVIOUS
<1>5. PICK f \in [DOMAIN t -> DOMAIN s] : Meaning!Along(f, s, t) /\ Meaning!Taken(f) = T
  BY <1>2, <1>3, <1>4, PickedAlong
<1>6. T = {k \in DOMAIN s : s[k] \in some /\ \A m \in 1..(k - 1) : s[m] # s[k]}
  BY <1>1, <1>3
<1>7. Meaning!Distinct(s, some, t)
  BY <1>5, <1>6 DEF Meaning!Distinct
<1> QED BY <1>4, <1>7

\* It does not matter what else is in some.
LEMMA UniquesAlike ==
    ASSUME NEW s \in Seq(Slot), NEW t, Meaning!Distinct(s, Slot, t)
    PROVE  Meaning!Distinct(s, Meaning!Elements(s), t)
<1>1. PICK f \in [DOMAIN t -> DOMAIN s] :
        /\ Meaning!Along(f, s, t)
        /\ Meaning!Taken(f) = {k \in DOMAIN s : s[k] \in Slot /\ \A m \in 1..(k - 1) : s[m] # s[k]}
  BY DEF Meaning!Distinct
<1>2. \A k \in DOMAIN s : s[k] \in Slot /\ s[k] \in Meaning!Elements(s)
  BY DEF Meaning!Elements
<1>3. {k \in DOMAIN s : s[k] \in Slot /\ \A m \in 1..(k - 1) : s[m] # s[k]} =
      {k \in DOMAIN s : s[k] \in Meaning!Elements(s) /\ \A m \in 1..(k - 1) : s[m] # s[k]}
  BY <1>2
<1> QED BY <1>1, <1>3 DEF Meaning!Distinct

\* The elements that both arrays have, once (makeIntersection).
LEMMA IntersectionMeant ==
    ASSUME Inv, NEW items \in Inputs, makeIntersection(items)
    PROVE  Meaning!ListNext
<1>1. PICK gives : gives = Uniques(List, Meaning!Elements(items)) /\ Answered("&", <<items>>, gives)
  BY DEF makeIntersection, Meaning!Elements
<1>2. Meaning!Stays /\ call'.op = "&" /\ call'.args = <<items>> /\ call'.gives = gives
  BY <1>1, AnsweredStays
<1>3. Meaning!Items(1) = items
  BY <1>2 DEF Meaning!Items
<1>4. List \in Seq(Slot)
  BY ListNow
<1>5. Meaning!Distinct(List, Meaning!Elements(items), gives)
  BY <1>1, <1>4, UniquesDistinct
<1>6. Meaning!Reading /\ ~Meaning!Overcounts
  BY <1>2, <1>3, <1>5 DEF Meaning!Reading, Meaning!Overcounts
<1> QED BY <1>1, <1>6, AnsweredMeant

\* The elements that one of the arrays has, once (makeUnion).
LEMMA UnionMeant ==
    ASSUME Inv, NEW items \in Inputs, makeUnion(items)
    PROVE  Meaning!ListNext
<1>1. PICK s : s = List \o items
  OBVIOUS
<1>2. PICK gives : gives = Uniques(s, Slot) /\ Answered("|", <<items>>, gives)
  BY <1>1 DEF makeUnion
<1>3. Meaning!Stays /\ call'.op = "|" /\ call'.args = <<items>> /\ call'.gives = gives
  BY <1>2, AnsweredStays
<1>4. Meaning!Items(1) = items
  BY <1>3 DEF Meaning!Items
<1>5. s \in Seq(Slot)
  BY <1>1, ListNow, ItemsListed, Joined
<1>6. Meaning!Distinct(s, Meaning!Elements(s), gives)
  BY <1>2, <1>5, UniquesDistinct, UniquesAlike
<1>7. Meaning!Reading /\ ~Meaning!Overcounts
  BY <1>1, <1>3, <1>4, <1>6 DEF Meaning!Reading, Meaning!Overcounts
<1> QED BY <1>2, <1>7, AnsweredMeant

\* The only one of its elements.
LEMMA TheOnly ==
    ASSUME NEW S, NEW a, S = {a}
    PROVE  (CHOOSE k \in S : TRUE) = a
OBVIOUS

\* The first place of an element (indexOfArray).
LEMMA IndexOfMeant ==
    ASSUME Inv, NEW v \in Value, NEW start \in Int, indexOf(v, start)
    PROVE  Meaning!ListNext
<1>1. PICK from : from = FromEnd(start)
  OBVIOUS
<1>2. PICK s : s = Elems(data, from, length - from)
  OBVIOUS
<1>3. PICK gives : gives = IndexIn(First(s, v), from) /\ Answered("indexOf", <<v, start>>, gives)
  BY <1>1, <1>2 DEF indexOf
<1>4. Meaning!Stays /\ call'.op = "indexOf" /\ call'.args = <<v, start>> /\ call'.gives = gives
  BY <1>3, AnsweredStays
<1>5. Meaning!Items(1) = v /\ Meaning!Items(2) = start
  BY <1>4 DEF Meaning!Items
<1>6. PICK L : L = List
  OBVIOUS
<1>7. L \in Seq(Slot) /\ Len(L) = length /\ length \in Nat /\ \A k \in 1..length : L[k] = data[k - 1]
  BY <1>6, ListNow
<1>8. IsBlock(data) /\ length <= Size(data) /\ Size(data) \in Nat
  BY ArrayIs
<1>9. from \in Nat /\ Meaning!Within(start) = from
  BY <1>1, WithinIs
<1>10. PICK found : found = {k \in 0..(length - 1) : k >= from /\ L[k + 1] = v}
  OBVIOUS
<1>11. ASSUME NEW k \in DOMAIN s PROVE k \in Nat /\ k > 0 /\ from + k - 1 \in 0..(length - 1) /\ s[k] = L[from + k - 1 + 1]
  <2>1. PICK n \in Int : n = length - from
    BY <1>7, <1>9
  <2>2. /\ IsSequence(s) /\ Len(s) = IF length - from < 0 THEN 0 ELSE length - from
        /\ \A m \in 1..(length - from) : s[m] = Read(data, from + m - 1)
    <3>1. /\ IsSequence(Elems(data, from, n)) /\ Len(Elems(data, from, n)) = IF n < 0 THEN 0 ELSE n
          /\ \A m \in 1..n : Elems(data, from, n)[m] = Read(data, from + m - 1)
      BY <1>8, <1>9, ElemsIs
    <3> QED BY <1>2, <2>1, <3>1
  <2>3. k \in 1..(length - from)
    BY <1>7, <1>9, <2>2 DEF IsSequence
  <2>4. PICK j \in 0..(length - 1) : j = from + k - 1
    BY <1>7, <1>9, <2>3
  <2>5. s[k] = data[j]
    <3>1. s[k] = Read(data, j)
      BY <2>2, <2>3, <2>4
    <3>2. j \in 0..(Size(data) - 1)
      BY <1>7, <1>8, <2>4
    <3>3. Read(data, j) = data[j]
      BY <1>8, <3>2, ReadIs
    <3> QED BY <3>1, <3>3
  <2>6. PICK i \in 1..length : i = j + 1
    BY <1>7, <2>4
  <2>7. L[i] = data[j]
    BY <1>7, <2>6
  <2> QED BY <2>3, <2>4, <2>5, <2>6, <2>7
<1>12. ASSUME NEW j \in found PROVE j - from + 1 \in DOMAIN s /\ s[j - from + 1] = v
  <2>1. PICK n \in Int : n = length - from
    BY <1>7, <1>9
  <2>2. IsSequence(s) /\ Len(s) = IF length - from < 0 THEN 0 ELSE length - from
    <3>1. IsSequence(Elems(data, from, n)) /\ Len(Elems(data, from, n)) = IF n < 0 THEN 0 ELSE n
      BY <1>8, <1>9, ElemsIs
    <3> QED BY <1>2, <2>1, <3>1
  <2>3. j \in 0..(length - 1) /\ j >= from /\ L[j + 1] = v
    BY <1>10
  <2>4. PICK k \in 1..(length - from) : k = j - from + 1
    BY <1>7, <1>9, <2>3
  <2>5. k \in DOMAIN s
    BY <1>7, <1>9, <2>2, <2>4 DEF IsSequence
  <2>6. from + k - 1 + 1 = j + 1
    BY <1>9, <2>3, <2>4
  <2>7. s[k] = L[j + 1]
    BY <1>11, <2>5, <2>6
  <2> QED BY <2>3, <2>4, <2>5, <2>7
<1>13. CASE found = {}
  <2>1. ASSUME NEW k \in First(s, v) PROVE FALSE
    <3>1. k \in DOMAIN s /\ s[k] = v
      BY DEF First
    <3>2. from + k - 1 \in found
      BY <1>10, <1>11, <3>1, <1>9
    <3> QED BY <1>13, <3>2
  <2>2. gives = <<-1>>
    BY <1>3, <2>1 DEF IndexIn
  <2>3. Meaning!IndexOf(v, start)
    BY <1>4, <1>6, <1>7, <1>9, <1>10, <1>13, <2>2 DEF Meaning!IndexOf, Meaning!Gives
  <2> QED BY <1>3, <1>4, <1>5, <2>3, AnsweredMeant DEF Meaning!Reading, Meaning!Overcounts
<1>14. CASE found # {}
  <2>1. found \in SUBSET Nat
    BY <1>7, <1>10
  <2>2. PICK a \in found : \A k \in found : a <= k
    BY <1>14, <2>1, Least
  <2>3. PICK b : b = a - from + 1
    OBVIOUS
  <2>4. b \in DOMAIN s /\ s[b] = v
    BY <1>12, <2>3
  <2>5. First(s, v) = {b}
    <3>1. ASSUME NEW m \in DOMAIN s, s[m] = v PROVE m >= b
      <4>1. from + m - 1 \in found /\ m \in Nat
        BY <1>9, <1>10, <1>11, <3>1
      <4>2. a <= from + m - 1 /\ a \in Nat
        BY <2>1, <2>2, <4>1
      <4> QED BY <1>9, <2>3, <4>1, <4>2
    <3>2. b \in First(s, v)
      BY <2>4, <3>1 DEF First
    <3>3. ASSUME NEW k \in First(s, v) PROVE k = b
      <4>1. k \in DOMAIN s /\ s[k] = v /\ b >= k
        BY <2>4 DEF First
      <4>2. k >= b /\ k \in Nat /\ b \in Nat
        BY <1>11, <2>4, <3>1, <4>1
      <4> QED BY <4>1, <4>2
    <3> QED BY <3>2, <3>3
  <2>6. (CHOOSE k \in First(s, v) : TRUE) = b /\ First(s, v) # {}
    BY <2>5, TheOnly
  <2>7. gives = <<a>>
    <3>1. from + b - 1 = a
      BY <1>9, <2>1, <2>3
    <3> QED BY <1>3, <2>6, <3>1 DEF IndexIn
  <2>8. (CHOOSE k \in found : \A m \in found : k <= m) = a
    <3>1. ASSUME NEW k \in found, \A m \in found : k <= m PROVE k = a
      <4>1. k <= a /\ a <= k /\ k \in Nat /\ a \in Nat
        BY <2>1, <2>2, <3>1
      <4> QED BY <4>1
    <3> QED BY <2>2, <3>1
  <2>9. Meaning!IndexOf(v, start)
    BY <1>4, <1>6, <1>7, <1>9, <1>10, <1>14, <2>7, <2>8 DEF Meaning!IndexOf, Meaning!Gives
  <2> QED BY <1>3, <1>4, <1>5, <2>9, AnsweredMeant DEF Meaning!Reading, Meaning!Overcounts
<1> QED BY <1>13, <1>14

\* There is a greatest of some numbers below a bound.
LEMMA Greatest ==
    ASSUME NEW n \in Nat, NEW S \in SUBSET (0..n), S # {}
    PROVE  \E m \in S : \A k \in S : k <= m
<1>1. PICK Z : Z = {n - k : k \in S}
  OBVIOUS
<1>2. Z \in SUBSET Nat /\ Z # {}
  <2>1. ASSUME NEW k \in S PROVE n - k \in Nat
    <3>1. k \in 0..n
      OBVIOUS
    <3> QED BY <3>1
  <2> QED BY <1>1, <2>1
<1>3. PICK z \in Z : \A k \in Z : z <= k
  BY <1>2, Least
<1>4. PICK m \in S : z = n - m
  BY <1>1
<1>5. ASSUME NEW k \in S PROVE k <= m
  <2>1. n - k \in Z
    BY <1>1
  <2>2. n - m <= n - k /\ k \in 0..n /\ m \in 0..n
    BY <1>3, <1>4, <2>1
  <2> QED BY <2>2
<1> QED BY <1>5

\* The last place of an element (lastArrayIndexOf).
LEMMA LastIndexOfMeant ==
    ASSUME Inv, NEW v \in Value, NEW start \in Int, lastIndexOf(v, start)
    PROVE  Meaning!ListNext
<1>1. PICK w : w = IF start < 0 THEN start + length ELSE start
  OBVIOUS
<1>2. PICK from : from = Smaller(w, length - 1)
  OBVIOUS
<1>3. PICK s : s = Elems(data, 0, from + 1)
  OBVIOUS
<1>4. PICK gives : gives = IndexIn(Last(s, v), 0) /\ Answered("lastIndexOf", <<v, start>>, gives)
  BY <1>1, <1>2, <1>3 DEF lastIndexOf
<1>5. Meaning!Stays /\ call'.op = "lastIndexOf" /\ call'.args = <<v, start>> /\ call'.gives = gives
  BY <1>4, AnsweredStays
<1>6. Meaning!Items(1) = v /\ Meaning!Items(2) = start
  BY <1>5 DEF Meaning!Items
<1>7. PICK L : L = List
  OBVIOUS
<1>8. L \in Seq(Slot) /\ Len(L) = length /\ length \in Nat /\ \A k \in 1..length : L[k] = data[k - 1]
  BY <1>7, ListNow
<1>9. IsBlock(data) /\ length <= Size(data) /\ Size(data) \in Nat
  BY ArrayIs
<1>10. w \in Int /\ from \in Int /\ from <= w /\ from <= length - 1 /\ (from = w \/ from = length - 1)
  BY <1>1, <1>2, <1>8 DEF Smaller
<1>11. PICK found : found = {k \in 0..(length - 1) : k <= w /\ L[k + 1] = v}
  OBVIOUS
<1>12. PICK n \in Int : n = from + 1
  BY <1>10
<1>13. IsSequence(s) /\ Len(s) = (IF n < 0 THEN 0 ELSE n) /\ \A m \in 1..n : s[m] = L[m]
  <2>1. PICK zero \in Int : zero = 0
    OBVIOUS
  <2>2. /\ IsSequence(Elems(data, zero, n)) /\ Len(Elems(data, zero, n)) = IF n < 0 THEN 0 ELSE n
        /\ \A m \in 1..n : Elems(data, zero, n)[m] = Read(data, zero + m - 1)
    BY <1>9, ElemsIs
  <2>3. IsSequence(s) /\ Len(s) = (IF n < 0 THEN 0 ELSE n) /\ \A m \in 1..n : s[m] = Read(data, zero + m - 1)
    BY <1>3, <1>12, <2>1, <2>2
  <2>4. ASSUME NEW m \in 1..n PROVE s[m] = L[m]
    <3>1. PICK j : j = zero + m - 1
      OBVIOUS
    <3>2. j = m - 1 /\ m \in 1..length
      BY <1>8, <1>10, <1>12, <2>1, <3>1
    <3>3. j \in 0..(Size(data) - 1)
      BY <1>8, <1>9, <3>2
    <3>4. Read(data, j) = data[j]
      BY <1>9, <3>3, ReadIs
    <3>5. s[m] = Read(data, j)
      BY <2>3, <3>1
    <3>6. L[m] = data[j]
      BY <1>8, <3>2
    <3> QED BY <3>4, <3>5, <3>6
  <2> QED BY <2>3, <2>4
<1>14. ASSUME NEW k \in DOMAIN s PROVE k \in 1..n
  BY <1>13 DEF IsSequence
<1>15. ASSUME NEW k \in 1..n PROVE k \in DOMAIN s
  BY <1>13 DEF IsSequence
<1>16. ASSUME NEW k \in 1..n, s[k] = v PROVE k - 1 \in found
  <2>1. PICK j \in 0..(length - 1) : j = k - 1 /\ j + 1 = k /\ j <= w
    BY <1>8, <1>10, <1>12
  <2>2. L[j + 1] = v
    BY <1>13, <1>16, <2>1
  <2> QED BY <1>11, <2>1, <2>2
<1>17. ASSUME NEW j \in found PROVE j \in Nat /\ j + 1 \in 1..n /\ s[j + 1] = v
  <2>1. j \in 0..(length - 1) /\ j <= w /\ L[j + 1] = v
    BY <1>11
  <2>2. PICK k \in 1..n : k = j + 1
    BY <1>8, <1>10, <1>12, <2>1
  <2> QED BY <1>13, <2>1, <2>2
<1>18. CASE found = {}
  <2>1. ASSUME NEW k \in Last(s, v) PROVE FALSE
    <3>1. k \in 1..n /\ s[k] = v
      BY <1>14 DEF Last
    <3> QED BY <1>16, <1>18, <3>1
  <2>2. gives = <<-1>>
    BY <1>4, <2>1 DEF IndexIn
  <2>3. Meaning!LastIndexOf(v, start)
    BY <1>1, <1>5, <1>7, <1>8, <1>11, <1>18, <2>2 DEF Meaning!LastIndexOf, Meaning!Gives
  <2> QED BY <1>4, <1>5, <1>6, <2>3, AnsweredMeant DEF Meaning!Reading, Meaning!Overcounts
<1>19. CASE found # {}
  <2>1. found \in SUBSET (0..length)
    BY <1>8, <1>11
  <2>2. PICK a \in found : \A k \in found : k <= a
    BY <1>8, <1>19, <2>1, Greatest
  <2>3. PICK b : b = a + 1
    OBVIOUS
  <2>4. b \in 1..n /\ b \in DOMAIN s /\ s[b] = v /\ a \in Nat
    BY <1>15, <1>17, <2>3
  <2>5. Last(s, v) = {b}
    <3>1. ASSUME NEW m \in DOMAIN s, s[m] = v PROVE m <= b /\ m \in Nat
      <4>1. m \in 1..n
        BY <1>14
      <4>2. m - 1 \in found
        BY <1>16, <3>1, <4>1
      <4>3. m - 1 <= a
        BY <2>2, <4>2
      <4> QED BY <2>3, <2>4, <4>1, <4>3
    <3>2. b \in Last(s, v)
      BY <2>4, <3>1 DEF Last
    <3>3. ASSUME NEW k \in Last(s, v) PROVE k = b
      <4>1. k \in DOMAIN s /\ s[k] = v /\ b <= k
        BY <2>4 DEF Last
      <4>2. k <= b /\ k \in Nat /\ b \in Nat
        BY <2>4, <3>1, <4>1
      <4> QED BY <4>1, <4>2
    <3> QED BY <3>2, <3>3
  <2>6. (CHOOSE k \in Last(s, v) : TRUE) = b /\ Last(s, v) # {}
    BY <2>5, TheOnly
  <2>7. gives = <<a>>
    <3>1. 0 + b - 1 = a
      BY <2>3, <2>4
    <3> QED BY <1>4, <2>6, <3>1 DEF IndexIn
  <2>8. (CHOOSE k \in found : \A m \in found : k >= m) = a
    <3>1. ASSUME NEW k \in found, \A m \in found : k >= m PROVE k = a
      <4>1. k <= a /\ a <= k /\ k \in Nat /\ a \in Nat
        BY <2>1, <2>2, <3>1
      <4> QED BY <4>1
    <3>2. \A m \in found : a >= m
      BY <2>1, <2>2
    <3> QED BY <3>1, <3>2
  <2>9. Meaning!LastIndexOf(v, start)
    BY <1>1, <1>5, <1>7, <1>8, <1>11, <1>19, <2>7, <2>8 DEF Meaning!LastIndexOf, Meaning!Gives
  <2> QED BY <1>4, <1>5, <1>6, <2>9, AnsweredMeant DEF Meaning!Reading, Meaning!Overcounts
<1> QED BY <1>18, <1>19

\* Products grow with their factors.
LEMMA ProductGrows ==
    ASSUME NEW a \in Nat, NEW c \in Nat, a <= c, NEW b \in Nat
    PROVE  a * b <= c * b /\ a * b \in Nat /\ c * b \in Nat
<1>1. PICK e \in Nat : c = a + e
  <2>1. c - a \in Nat /\ c = a + (c - a)
    OBVIOUS
  <2> QED BY <2>1
<1>2. c * b = a * b + e * b
  BY <1>1
<1>3. a * b \in Nat /\ e * b \in Nat /\ c * b \in Nat
  BY <1>1
<1> QED BY <1>2, <1>3

\* What a division gives.
LEMMA Divided ==
    ASSUME NEW x \in Nat, NEW b \in Nat \ {0}, NEW q, q = x \div b
    PROVE  q \in Nat /\ q * b <= x /\ x < (q + 1) * b
<1>1. q \in Int /\ x = b * q + (x % b) /\ 0 <= x % b /\ x % b < b
  OBVIOUS
<1>2. q >= 0
  <2>1. CASE q < 0
    <3>1. q + 1 <= 0 /\ b * (q + 1) <= 0
      BY <1>1, <2>1
    <3> QED BY <1>1, <3>1
  <2> QED BY <1>1, <2>1
<1> QED BY <1>1, <1>2

\* How many steps of a slice there are.
LEMMA StepsIs ==
    ASSUME NEW x \in Nat, NEW b \in Nat \ {0}, NEW q, q = (x + b - 1) \div b, NEW k \in Nat \ {0}
    PROVE  q \in Nat /\ (k <= q <=> (k - 1) * b < x) /\ (k - 1) * b >= k - 1
<1>1. PICK y \in Nat : y = x + b - 1
  OBVIOUS
<1>2. q \in Nat /\ q * b <= y /\ y < (q + 1) * b
  BY <1>1, Divided
<1>3. PICK j \in Nat : j = k - 1
  OBVIOUS
<1>4. k * b = j * b + b /\ j * b \in Nat /\ b \in Nat
  BY <1>3
<1>5. ASSUME k <= q PROVE j * b < x
  <2>1. k * b <= q * b
    BY <1>2, <1>5, ProductGrows
  <2>2. k * b \in Int /\ q * b \in Int
    BY <1>2
  <2> QED BY <1>1, <1>2, <1>4, <2>1, <2>2
<1>6. ASSUME ~(k <= q) PROVE ~(j * b < x)
  <2>1. q + 1 <= k /\ q + 1 \in Nat /\ k \in Nat /\ b \in Nat
    BY <1>2, <1>6
  <2>2. (q + 1) * b <= k * b
    BY <2>1, ProductGrows
  <2>3. k * b \in Int /\ (q + 1) * b \in Int
    BY <1>2
  <2> QED BY <1>1, <1>2, <1>4, <2>2, <2>3
<1>7. j * b >= j
  <2>1. PICK e \in Nat : b = e + 1
    <3>1. b - 1 \in Nat /\ b = (b - 1) + 1
      OBVIOUS
    <3> QED BY <3>1
  <2>2. j * b = j * e + j /\ j * e \in Nat
    BY <1>3, <2>1
  <2> QED BY <1>3, <2>2
<1> QED BY <1>2, <1>3, <1>5, <1>6, <1>7

\* How many elements the code gives in a slice, and which ones the script means
Counted(from, to, by) ==
    IF by > 0 THEN (Larger(to - from, 0) + by - 1) \div by ELSE (Larger(from - to, 0) - by - 1) \div (-by)
Meant(len, from, to, by) ==
    {k \in 1..len : IF by > 0 THEN from + (k - 1) * by < to ELSE from + (k - 1) * by > to}

SlotOf(from, by, k) == from + (k - 1) * by

\* The slots of a slice are those that a script asks for.
LEMMA SlotsIs ==
    ASSUME NEW len \in Nat, NEW from \in 0..len, NEW to \in 0..len, NEW by \in Int \ {0}, by > 0 \/ from < len,
           NEW count, count = Counted(from, to, by), NEW K, K = Meant(len, from, to, by)
    PROVE  count \in Nat /\ K = 1..count /\ \A k \in K : SlotOf(from, by, k) \in 0..(len - 1)
<1>1. from \in Nat /\ to \in Nat /\ from <= len /\ to <= len
  OBVIOUS
<1>2. CASE by > 0
  <2>1. PICK x \in Nat : x = Larger(to - from, 0)
    <3>1. PICK e \in Int : e = to - from
      BY <1>1
    <3>2. Larger(e, 0) \in Nat
      BY DEF Larger
    <3> QED BY <3>1, <3>2
  <2>2. by \in Nat \ {0} /\ count = (x + by - 1) \div by
    BY <1>2, <2>1 DEF Counted
  <2>3. ASSUME NEW k \in Nat \ {0}
        PROVE  count \in Nat /\ (k <= count <=> (k - 1) * by < x) /\ (k - 1) * by >= k - 1 /\ (k - 1) * by \in Nat
    <3>1. count \in Nat /\ (k <= count <=> (k - 1) * by < x) /\ (k - 1) * by >= k - 1
      BY <2>2, StepsIs
    <3>2. PICK j \in Nat : j = k - 1
      OBVIOUS
    <3>3. j * by \in Nat
      BY <2>2
    <3> QED BY <3>1, <3>2, <3>3
  <2>4. count \in Nat
    <3>1. 1 \in Nat \ {0}
      OBVIOUS
    <3> QED BY <2>3, <3>1
  <2>5. x = 0 \/ x = to - from
    BY <1>1, <2>1 DEF Larger
  <2>6. x >= to - from
    BY <1>1, <2>1 DEF Larger
  <2>7. ASSUME NEW k \in K PROVE k \in 1..count /\ SlotOf(from, by, k) \in 0..(len - 1)
    <3>1. k \in Nat \ {0} /\ from + (k - 1) * by < to
      BY <1>2 DEF Meant
    <3>2. PICK p \in Nat : p = (k - 1) * by
      BY <2>3, <3>1
    <3>3. from + p < to
      BY <3>1, <3>2
    <3>4. p < x
      BY <1>1, <2>6, <3>3
    <3>5. k <= count
      BY <2>3, <3>1, <3>2, <3>4
    <3>6. from + p \in 0..(len - 1)
      BY <1>1, <3>3
    <3> QED BY <2>4, <3>1, <3>2, <3>5, <3>6 DEF SlotOf
  <2>8. ASSUME NEW k \in 1..count PROVE k \in K
    <3>1. k \in Nat \ {0} /\ k <= count
      BY <2>4
    <3>2. PICK p \in Nat : p = (k - 1) * by /\ p < x /\ p >= k - 1
      BY <2>3, <3>1
    <3>3. x = to - from
      BY <2>5, <3>2
    <3>4. from + p < to /\ k <= len
      BY <1>1, <3>1, <3>2, <3>3
    <3> QED BY <1>2, <3>1, <3>2, <3>4 DEF Meant
  <2> QED BY <2>4, <2>7, <2>8
<1>3. CASE ~(by > 0)
  <2>1. PICK x \in Nat : x = Larger(from - to, 0)
    BY <1>1 DEF Larger
  <2>2. PICK b \in Nat \ {0} : b = -by
    BY <1>3
  <2>3. count = (x + b - 1) \div b
    BY <1>3, <2>1, <2>2 DEF Counted
  <2>4. ASSUME NEW k \in Nat \ {0}
        PROVE  /\ count \in Nat /\ (k <= count <=> (k - 1) * b < x) /\ (k - 1) * b >= k - 1 /\ (k - 1) * b \in Nat
               /\ from + (k - 1) * by = from - (k - 1) * b
    <3>1. count \in Nat /\ (k <= count <=> (k - 1) * b < x) /\ (k - 1) * b >= k - 1
      BY <2>3, StepsIs
    <3>2. PICK j \in Nat : j = k - 1
      OBVIOUS
    <3>3. j * b \in Nat /\ j * by = -(j * b)
      BY <2>2
    <3> QED BY <1>1, <3>1, <3>2, <3>3
  <2>5. count \in Nat
    <3>1. 1 \in Nat \ {0}
      OBVIOUS
    <3> QED BY <2>4, <3>1
  <2>6. (x = 0 \/ x = from - to) /\ x >= from - to
    BY <1>1, <2>1 DEF Larger
  <2>7. from < len
    BY <1>3
  <2>8. ASSUME NEW k \in K PROVE k \in 1..count /\ SlotOf(from, by, k) \in 0..(len - 1)
    <3>1. k \in Nat \ {0} /\ from + (k - 1) * by > to
      BY <1>3 DEF Meant
    <3>2. PICK p \in Nat : p = (k - 1) * b
      BY <2>4, <3>1
    <3>3. from + (k - 1) * by = from - p /\ from - p > to
      BY <2>4, <3>1, <3>2
    <3>4. p < x
      BY <1>1, <2>6, <3>3
    <3>5. k <= count
      BY <2>4, <3>1, <3>2, <3>4
    <3>6. from - p \in 0..(len - 1)
      BY <1>1, <2>7, <3>3
    <3> QED BY <2>5, <3>1, <3>3, <3>5, <3>6 DEF SlotOf
  <2>9. ASSUME NEW k \in 1..count PROVE k \in K
    <3>1. k \in Nat \ {0} /\ k <= count
      BY <2>5
    <3>2. PICK p \in Nat : p = (k - 1) * b /\ p < x /\ p >= k - 1
      BY <2>4, <3>1
    <3>3. x = from - to
      BY <2>6, <3>2
    <3>4. from - p > to /\ k \in 1..len
      BY <1>1, <3>1, <3>2, <3>3
    <3>5. from + (k - 1) * by > to
      BY <2>4, <3>1, <3>2, <3>4
    <3> QED BY <1>3, <3>4, <3>5 DEF Meant
  <2> QED BY <2>5, <2>8, <2>9
<1> QED BY <1>2, <1>3

\* Elements at a distance of each other (sliceArray).
LEMMA SliceMeant ==
    ASSUME Inv, NEW start \in Int, NEW end \in Int, NEW step \in Int, slice(start, end, step)
    PROVE  Meaning!ListNext
<1>1. PICK slots : slots = sliceSlots(start, end, step)
  OBVIOUS
<1>2. PICK gives : /\ gives = [k \in DOMAIN slots |-> Read(data, slots[k])]
                   /\ Answered("slice", <<start, end, step>>, gives)
  BY <1>1 DEF slice
<1>3. Meaning!Stays /\ call'.op = "slice" /\ call'.args = <<start, end, step>> /\ call'.gives = gives
  BY <1>2, AnsweredStays
<1>4. Meaning!Items(1) = start /\ Meaning!Items(2) = end /\ Meaning!Items(3) = step
  BY <1>3 DEF Meaning!Items
<1>5. PICK L : L = List
  OBVIOUS
<1>6. L \in Seq(Slot) /\ Len(L) = length /\ length \in Nat /\ \A k \in 1..length : L[k] = data[k - 1]
  BY <1>5, ListNow
<1>7. IsBlock(data) /\ length <= Size(data) /\ Size(data) \in Nat
  BY ArrayIs
<1>8. PICK from : from = Smaller(FromEnd(start), length)
  OBVIOUS
<1>9. PICK to : to = Smaller(FromEnd(end), length)
  OBVIOUS
<1>10. from \in 0..length /\ to \in 0..length
  BY <1>8, <1>9, FromEndIs
<1>11. Meaning!Lesser(Meaning!Within(start), Len(List)) = from /\ Meaning!Lesser(Meaning!Within(end), Len(List)) = to
  BY <1>8, <1>9, WithinIs
<1>12. PICK by \in Int \ {0} : by = IF step = 0 THEN 1 ELSE step
  OBVIOUS
<1>13. PICK count : count = Counted(from, to, by)
  OBVIOUS
<1>14. slots = [k \in 1..count |-> from + (k - 1) * by]
  BY <1>1, <1>8, <1>9, <1>12, <1>13 DEF sliceSlots, Counted
<1>15. PICK K : K = Meant(length, from, to, by)
  OBVIOUS
<1>16. ASSUME by > 0 \/ from < length
       PROVE  gives = [k \in K |-> L[from + (k - 1) * by + 1]]
  <2>1. K = 1..count /\ \A k \in K : SlotOf(from, by, k) \in 0..(length - 1)
    <3>1. PICK len \in Nat : len = length
      BY <1>6
    <3>2. from \in 0..len /\ to \in 0..len /\ (by > 0 \/ from < len) /\ K = Meant(len, from, to, by)
      BY <1>10, <1>15, <1>16, <3>1
    <3>3. K = 1..count /\ \A k \in K : SlotOf(from, by, k) \in 0..(len - 1)
      BY <1>13, <3>2, SlotsIs
    <3> QED BY <3>1, <3>3
  <2>2. DOMAIN slots = K
    BY <1>14, <2>1
  <2>3. ASSUME NEW k \in K PROVE Read(data, slots[k]) = L[from + (k - 1) * by + 1]
    <3>1. PICK j \in 0..(length - 1) : j = from + (k - 1) * by
      BY <2>1 DEF SlotOf
    <3>2. slots[k] = j
      BY <1>14, <2>1, <3>1
    <3>3. j \in 0..(Size(data) - 1)
      BY <1>6, <1>7
    <3>4. Read(data, j) = data[j]
      BY <1>7, <3>3, ReadIs
    <3>5. PICK i \in 1..length : i = j + 1
      BY <1>6
    <3>6. L[i] = data[j]
      BY <1>6, <3>5
    <3> QED BY <3>1, <3>2, <3>4, <3>5, <3>6
  <2> QED BY <1>2, <2>2, <2>3
<1>17. Meaning!Slice(start, end, step)
  BY <1>3, <1>5, <1>6, <1>11, <1>12, <1>15, <1>16 DEF Meaning!Slice, Meaning!Gives, Meant
<1>18. Meaning!Reading /\ ~Meaning!Overcounts
  BY <1>3, <1>4, <1>17 DEF Meaning!Reading, Meaning!Overcounts
<1> QED BY <1>2, <1>18, AnsweredMeant

\* Undefined elements go (compactArray).
LEMMA CompactMeant ==
    ASSUME Inv, compact
    PROVE  Meaning!ListNext
<1>1. PICK some : some = compactArray
  OBVIOUS
<1>2. PICK d : d = CopyIn(data, 0, Filled(some, length))
  OBVIOUS
<1>3. Mutates("compact", <<>>, d, Len(some), <<>>)
  BY <1>1, <1>2 DEF compact, Filled
<1>4. /\ Len(some) \in 0..length /\ CanBecome(d, Len(some), Len(some))
      /\ \A k \in 0..(Len(some) - 1) : d[k] = some[k + 1]
  BY <1>1, <1>2, CompactedIs
<1>5. PICK L : L = List
  OBVIOUS
<1>6. /\ L \in Seq(Slot) /\ Len(L) = length /\ DOMAIN L = 1..length /\ length \in Nat
      /\ \A k \in 1..length : L[k] = data[k - 1]
  BY <1>5, ListNow
<1>7. PICK T : T = {k \in 1..length : data[k - 1] # Undefined}
  OBVIOUS
<1>8. Picks(L, some, Len(L), T)
  BY <1>1, <1>5, <1>6, <1>7, CompactIs
<1>9. some \in Seq(Slot)
  BY <1>8 DEF Picks
<1>10. PICK M : M = List'
  OBVIOUS
<1>11. PICK n \in Nat : n = Len(some)
  BY <1>9
<1>12. M \in Seq(Slot) /\ Len(M) = n /\ (\A k \in 1..n : M[k] = d[k - 1]) /\ call'.op = "compact"
  BY <1>3, <1>4, <1>10, <1>11, Changed
<1>13. ASSUME NEW k \in 1..n PROVE M[k] = some[k]
  <2>1. PICK m \in 0..(n - 1) : m = k - 1 /\ m + 1 = k
    OBVIOUS
  <2> QED BY <1>4, <1>11, <1>12, <2>1
<1>14. M = some
  BY <1>9, <1>11, <1>12, <1>13, SameList
<1>15. T \in SUBSET (1..Len(L)) /\ T = {k \in DOMAIN L : L[k] # Undefined}
  BY <1>6, <1>7
<1>16. \E f \in [DOMAIN M -> DOMAIN L] : Meaning!Along(f, L, M) /\ Meaning!Taken(f) = T
  <2>1. Picks(L, M, Len(L), T)
    BY <1>8, <1>14
  <2> QED BY <1>6, <1>15, <2>1, PickedAlong
<1>17. Meaning!Compact
  BY <1>5, <1>10, <1>15, <1>16 DEF Meaning!Compact
<1>18. Meaning!Changing
  BY <1>12, <1>17 DEF Meaning!Changing
<1> QED BY <1>3, <1>4, <1>18, MutatesMeant

\* Places of slots, one further
Placed(f, n) == [k \in 1..n |-> f[k - 1] + 1]

\* What is left of the array is some of its list, in its order.
LEMMA LeftAlong ==
    ASSUME Inv, NEW p, p = Left(data, length), NEW r \in Lefts(Size(data)), NEW f, IsLeft(p, r, f),
           NEW M, Lists(M, r.d, r.n), NEW g, g = Placed(f, r.n)
    PROVE  /\ g \in [DOMAIN M -> DOMAIN List] /\ Meaning!Along(g, List, M) /\ DOMAIN M = 1..r.n /\ r.n \in Nat
           /\ \A k \in 1..length : k \in Meaning!Taken(g) <=> k - 1 \in Chosen(f, r.n)
           /\ \A k \in 0..(r.n - 1) : f[k] \in 0..(length - 1) /\ g[k + 1] = f[k] + 1 /\ r.d[k] = data[f[k]]
<1>1. p.d = data /\ p.n = length
  BY DEF Left
<1>2. PICK n \in Nat : n = r.n
  <2>1. Size(data) \in Nat
    BY ArrayIs
  <2> QED BY <2>1, LeftFields
<1>3. /\ f \in [0..(n - 1) -> 0..(length - 1)] /\ \A j, k \in 0..(n - 1) : j < k => f[j] < f[k]
      /\ \A k \in 0..(n - 1) : r.d[k] = data[f[k]]
  BY <1>1, <1>2 DEF IsLeft
<1>4. PICK L : L = List
  OBVIOUS
<1>5. /\ L \in Seq(Slot) /\ Len(L) = length /\ DOMAIN L = 1..length /\ length \in Nat
      /\ \A k \in 1..length : L[k] = data[k - 1]
  BY <1>4, ListNow
<1>6. M \in Seq(Slot) /\ Len(M) = n /\ DOMAIN M = 1..n /\ \A k \in 1..n : M[k] = r.d[k - 1]
  BY <1>2 DEF Lists
<1>7. DOMAIN g = 1..n /\ g = [k \in 1..n |-> f[k - 1] + 1]
  BY <1>2 DEF Placed
<1>8. ASSUME NEW k \in 1..n
      PROVE  /\ k - 1 \in 0..(n - 1) /\ g[k] = f[k - 1] + 1 /\ f[k - 1] \in 0..(length - 1) /\ g[k] \in 1..length
             /\ M[k] = L[g[k]]
  <2>1. PICK m \in 0..(n - 1) : m = k - 1
    OBVIOUS
  <2>2. PICK a \in 0..(length - 1) : a = f[m]
    BY <1>3
  <2>3. PICK b \in 1..length : b = a + 1
    BY <1>5
  <2>4. g[k] = b
    BY <1>7, <2>1, <2>2, <2>3
  <2>5. L[b] = data[a]
    BY <1>5, <2>3
  <2>6. M[k] = data[a]
    BY <1>3, <1>6, <2>1, <2>2
  <2> QED BY <2>1, <2>2, <2>3, <2>4, <2>5, <2>6
<1>9. g \in [DOMAIN M -> DOMAIN L]
  BY <1>5, <1>6, <1>7, <1>8
<1>10. ASSUME NEW j \in 1..n, NEW k \in 1..n, j < k PROVE g[j] < g[k]
  <2>1. PICK a \in 0..(n - 1) : a = j - 1
    OBVIOUS
  <2>2. PICK b \in 0..(n - 1) : b = k - 1
    OBVIOUS
  <2>3. f[a] < f[b] /\ f[a] \in 0..(length - 1) /\ f[b] \in 0..(length - 1)
    BY <1>3, <1>10, <2>1, <2>2
  <2>4. g[j] = f[a] + 1 /\ g[k] = f[b] + 1
    BY <1>7, <2>1, <2>2
  <2> QED BY <1>5, <2>3, <2>4
<1>11. Meaning!Along(g, L, M)
  BY <1>6, <1>8, <1>10 DEF Meaning!Along
<1>12. ASSUME NEW k \in 1..length PROVE k \in Meaning!Taken(g) <=> k - 1 \in Chosen(f, n)
  <2>1. PICK c \in 0..(length - 1) : c = k - 1
    BY <1>5
  <2>2. ASSUME k \in Meaning!Taken(g) PROVE c \in Chosen(f, n)
    <3>1. PICK j \in 1..n : k = g[j]
      BY <1>7, <2>2 DEF Meaning!Taken
    <3>2. PICK a \in 0..(n - 1) : a = j - 1
      OBVIOUS
    <3>3. k = f[a] + 1 /\ f[a] \in 0..(length - 1)
      BY <1>3, <1>7, <3>1, <3>2
    <3>4. c = f[a]
      BY <1>5, <2>1, <3>3
    <3> QED BY <3>4 DEF Chosen
  <2>3. ASSUME c \in Chosen(f, n) PROVE k \in Meaning!Taken(g)
    <3>1. PICK a \in 0..(n - 1) : c = f[a]
      BY <2>3 DEF Chosen
    <3>2. PICK j \in 1..n : j = a + 1 /\ a = j - 1
      OBVIOUS
    <3>3. g[j] = f[a] + 1
      BY <1>7, <3>2
    <3>4. g[j] = k
      BY <1>5, <2>1, <3>1, <3>3
    <3> QED BY <1>7, <3>4 DEF Meaning!Taken
  <2> QED BY <2>1, <2>2, <2>3
<1>13. ASSUME NEW k \in 0..(n - 1) PROVE f[k] \in 0..(length - 1) /\ g[k + 1] = f[k] + 1 /\ r.d[k] = data[f[k]]
  <2>1. PICK j \in 1..n : j = k + 1 /\ k = j - 1
    OBVIOUS
  <2> QED BY <1>3, <1>7, <2>1
<1> QED BY <1>2, <1>4, <1>6, <1>9, <1>11, <1>12, <1>13

\* Elements of some values go, but for the second of equal neighbours (removeArrayElements).
LEMMA RemoveMeant ==
    ASSUME Inv, NEW items \in Inputs, removeElements(items)
    PROVE  Meaning!ListNext
<1>1. PICK p : p = Left(data, length)
  OBVIOUS
<1>2. PICK r : r = removeArrayElements(items)
  OBVIOUS
<1>3. Mutates("removeElements", <<items>>, r.d, r.n, <<>>)
  BY <1>2 DEF removeElements
<1>4. r \in Lefts(Size(data)) /\ Stripped(p, r, items, Len(items))
  BY <1>1, <1>2, RemovedIs
<1>5. PICK f : /\ IsLeft(p, r, f)
               /\ \A k \in 0..(p.n - 1) : k \notin Chosen(f, r.n) => \E e \in 1..Len(items) : p.d[k] = items[e]
               /\ \/ r = p /\ \A k \in 0..(p.n - 1), e \in 1..Len(items) : p.d[k] # items[e]
                  \/ r.n < p.n
               /\ AllDiffer(p) => \A k \in 0..(r.n - 1), e \in 1..Len(items) : r.d[k] # items[e]
  BY <1>4 DEF Stripped
<1>6. CanBecome(r.d, r.n, r.n)
  BY <1>1, <1>4, <1>5, LeftBecomes
<1>7. PICK M : M = List'
  OBVIOUS
<1>8. /\ Lists(M, r.d, r.n) /\ call'.op = "removeElements" /\ call'.args = <<items>>
  <2>1. PICK d, n : d = r.d /\ n = r.n
    OBVIOUS
  <2>2. Mutates("removeElements", <<items>>, d, n, <<>>) /\ CanBecome(d, n, n)
    BY <1>3, <1>6, <2>1
  <2>3. /\ M \in Seq(Slot) /\ Len(M) = n /\ \A k \in 1..n : M[k] = d[k - 1]
        /\ call'.op = "removeElements" /\ call'.args = <<items>>
    BY <1>7, <2>2, Changed
  <2> QED BY <2>1, <2>3 DEF Lists
<1>9. PICK g : g = Placed(f, r.n)
  OBVIOUS
<1>10. PICK L : L = List
  OBVIOUS
<1>11. /\ L \in Seq(Slot) /\ Len(L) = length /\ DOMAIN L = 1..length /\ length \in Nat
       /\ \A k \in 1..length : L[k] = data[k - 1]
  BY <1>10, ListNow
<1>12. /\ g \in [DOMAIN M -> DOMAIN L] /\ Meaning!Along(g, L, M) /\ DOMAIN M = 1..r.n /\ r.n \in Nat
       /\ \A k \in 1..length : k \in Meaning!Taken(g) <=> k - 1 \in Chosen(f, r.n)
  BY <1>1, <1>4, <1>5, <1>8, <1>9, <1>10, LeftAlong
<1>13. p.d = data /\ p.n = length
  BY <1>1 DEF Left
<1>14. Meaning!Elements(items) = {items[e] : e \in 1..Len(items)}
  BY ItemsListed DEF Meaning!Elements
<1>15. ASSUME NEW k \in DOMAIN L \ Meaning!Taken(g) PROVE L[k] \in Meaning!Elements(items)
  <2>1. PICK m \in 0..(length - 1) : m = k - 1
    BY <1>11
  <2>2. m \notin Chosen(f, r.n) /\ L[k] = data[m]
    BY <1>11, <1>12, <2>1
  <2>3. \E e \in 1..Len(items) : data[m] = items[e]
    BY <1>5, <1>13, <2>2
  <2> QED BY <1>14, <2>2, <2>3
<1>16. ASSUME \A k, m \in DOMAIN L : L[k] = L[m] => k = m
       PROVE  Meaning!Elements(M) \cap Meaning!Elements(items) = {}
  <2>1. ASSUME NEW j \in 0..(length - 1), NEW k \in 0..(length - 1), data[j] = data[k] PROVE j = k
    <3>1. PICK a \in 1..length : a = j + 1 /\ a - 1 = j
      BY <1>11
    <3>2. PICK b \in 1..length : b = k + 1 /\ b - 1 = k
      BY <1>11
    <3>3. L[a] = data[j] /\ L[b] = data[k]
      BY <1>11, <3>1, <3>2
    <3>4. a = b
      BY <1>11, <1>16, <2>1, <3>3
    <3> QED BY <3>1, <3>2, <3>4
  <2>2. AllDiffer(p)
    BY <1>13, <2>1 DEF AllDiffer
  <2>3. \A k \in 0..(r.n - 1), e \in 1..Len(items) : r.d[k] # items[e]
    BY <1>5, <2>2
  <2>4. ASSUME NEW v \in Meaning!Elements(M) PROVE v \notin Meaning!Elements(items)
    <3>1. PICK k \in 1..r.n : v = M[k]
      BY <1>12 DEF Meaning!Elements
    <3>2. PICK m \in 0..(r.n - 1) : m = k - 1
      BY <1>12
    <3>3. v = r.d[m]
      BY <1>8, <3>1, <3>2 DEF Lists
    <3> QED BY <1>14, <2>3, <3>2, <3>3
  <2> QED BY <2>4
<1>17. ASSUME Meaning!Elements(items) \cap Meaning!Elements(L) # {} PROVE Len(M) < Len(L)
  <2>1. PICK v : v \in Meaning!Elements(items) /\ v \in Meaning!Elements(L)
    BY <1>17
  <2>2. PICK k \in 1..length : v = L[k]
    BY <1>11, <2>1 DEF Meaning!Elements
  <2>3. PICK m \in 0..(length - 1) : m = k - 1
    BY <1>11
  <2>4. PICK e \in 1..Len(items) : v = items[e]
    BY <1>14, <2>1
  <2>5. data[m] = items[e]
    BY <1>11, <2>2, <2>3, <2>4
  <2>6. r.n < length
    BY <1>5, <1>13, <2>3, <2>4, <2>5
  <2> QED BY <1>8, <1>11, <2>6 DEF Lists
<1>18. Meaning!RemoveElements(items)
  BY <1>7, <1>10, <1>12, <1>15, <1>16, <1>17 DEF Meaning!RemoveElements
<1>19. Meaning!Items(1) = items
  BY <1>8 DEF Meaning!Items
<1>20. Meaning!Changing
  BY <1>8, <1>18, <1>19 DEF Meaning!Changing
<1> QED BY <1>3, <1>6, <1>20, MutatesMeant

\* Of equal elements only the first stays (uniqueArray).
LEMMA UniqueMeant ==
    ASSUME Inv, unique
    PROVE  Meaning!ListNext
<1>1. PICK p : p = Left(data, length)
  OBVIOUS
<1>2. PICK r : r = uniqueArray
  OBVIOUS
<1>3. Mutates("unique", <<>>, r.d, r.n, <<>>)
  BY <1>2 DEF unique
<1>4. r \in Lefts(Size(data)) /\ Rarer(p, r, length)
  BY <1>1, <1>2, UniqueIs
<1>5. PICK f : /\ IsLeft(p, r, f)
               /\ \A k \in 0..(p.n - 1) : k \notin Chosen(f, r.n) =>
                    \E j \in 0..(r.n - 1) : f[j] < k /\ p.d[f[j]] = p.d[k]
               /\ \A j, k \in 0..(r.n - 1) : j < length /\ j < k => r.d[j] # r.d[k]
  BY <1>4 DEF Rarer
<1>6. CanBecome(r.d, r.n, r.n)
  BY <1>1, <1>4, <1>5, LeftBecomes
<1>7. PICK M : M = List'
  OBVIOUS
<1>8. Lists(M, r.d, r.n) /\ call'.op = "unique"
  <2>1. PICK d, n : d = r.d /\ n = r.n
    OBVIOUS
  <2>2. Mutates("unique", <<>>, d, n, <<>>) /\ CanBecome(d, n, n)
    BY <1>3, <1>6, <2>1
  <2>3. M \in Seq(Slot) /\ Len(M) = n /\ (\A k \in 1..n : M[k] = d[k - 1]) /\ call'.op = "unique"
    BY <1>7, <2>2, Changed
  <2> QED BY <2>1, <2>3 DEF Lists
<1>9. PICK g : g = Placed(f, r.n)
  OBVIOUS
<1>10. PICK L : L = List
  OBVIOUS
<1>11. /\ L \in Seq(Slot) /\ Len(L) = length /\ DOMAIN L = 1..length /\ length \in Nat
       /\ \A k \in 1..length : L[k] = data[k - 1]
  BY <1>10, ListNow
<1>12. /\ g \in [DOMAIN M -> DOMAIN L] /\ Meaning!Along(g, L, M) /\ DOMAIN M = 1..r.n /\ r.n \in Nat
       /\ \A k \in 1..length : k \in Meaning!Taken(g) <=> k - 1 \in Chosen(f, r.n)
       /\ \A k \in 0..(r.n - 1) : f[k] \in 0..(length - 1) /\ g[k + 1] = f[k] + 1 /\ r.d[k] = data[f[k]]
  BY <1>1, <1>4, <1>5, <1>8, <1>9, <1>10, LeftAlong
<1>13. p.d = data /\ p.n = length /\ r.n <= length /\ \A j, k \in 0..(r.n - 1) : j < k => f[j] < f[k]
  BY <1>1, <1>5 DEF Left, IsLeft
<1>14. PICK n \in Nat : n = r.n /\ n <= length
  BY <1>12, <1>13
<1>15. \A j, k \in 0..(n - 1) : j < k => data[f[j]] # data[f[k]]
  <2>1. ASSUME NEW j \in 0..(n - 1), NEW k \in 0..(n - 1), j < k PROVE data[f[j]] # data[f[k]]
    <3>1. j < length
      BY <1>11, <1>14
    <3>2. r.d[j] # r.d[k]
      BY <1>5, <1>14, <2>1, <3>1
    <3> QED BY <1>12, <1>14, <3>2
  <2> QED BY <2>1
\* The first slot of its element is the one that is left
<1>16. ASSUME NEW k \in 0..(n - 1), NEW m \in 0..(length - 1), m < f[k] PROVE data[m] # data[f[k]]
  <2>1. SUFFICES ASSUME data[m] = data[f[k]] PROVE FALSE
    OBVIOUS
  <2>2. PICK j \in 0..(n - 1) : f[j] <= m /\ data[f[j]] = data[m]
    <3>1. CASE m \in Chosen(f, n)
      <4>1. PICK j \in 0..(n - 1) : m = f[j]
        BY <3>1 DEF Chosen
      <4> QED BY <1>11, <4>1
    <3>2. CASE m \notin Chosen(f, n)
      <4>1. PICK j \in 0..(n - 1) : f[j] < m /\ data[f[j]] = data[m]
        BY <1>5, <1>13, <1>14, <3>2
      <4> QED BY <1>12, <1>14, <4>1
    <3> QED BY <3>1, <3>2
  <2>3. f[j] < f[k] /\ data[f[j]] = data[f[k]]
    BY <1>11, <1>12, <1>14, <1>16, <2>1, <2>2
  <2>4. j # k /\ ~(k < j)
    BY <1>12, <1>13, <1>14, <2>3
  <2>5. j < k
    BY <2>4
  <2> QED BY <1>15, <2>3, <2>5
<1>17. ASSUME NEW k \in 0..(length - 1), \A m \in 0..(k - 1) : data[m] # data[k] PROVE k \in Chosen(f, n)
  <2>1. SUFFICES ASSUME k \notin Chosen(f, n) PROVE FALSE
    OBVIOUS
  <2>2. PICK j \in 0..(n - 1) : f[j] < k /\ data[f[j]] = data[k]
    BY <1>5, <1>13, <1>14, <2>1
  <2>3. f[j] \in 0..(k - 1)
    BY <1>11, <1>12, <1>14, <2>2
  <2> QED BY <1>17, <2>2, <2>3
<1>18. ASSUME NEW k \in 1..length
       PROVE  k \in Meaning!Taken(g) <=> L[k] \in Meaning!Elements(L) /\ \A m \in 1..(k - 1) : L[m] # L[k]
  <2>1. PICK c \in 0..(length - 1) : c = k - 1
    BY <1>11
  <2>2. L[k] = data[c] /\ L[k] \in Meaning!Elements(L)
    BY <1>11, <2>1 DEF Meaning!Elements
  <2>3. ASSUME k \in Meaning!Taken(g), NEW m \in 1..(k - 1) PROVE L[m] # L[k]
    <3>1. c \in Chosen(f, n)
      BY <1>12, <1>14, <2>1, <2>3
    <3>2. PICK j \in 0..(n - 1) : c = f[j]
      BY <3>1 DEF Chosen
    <3>3. PICK a \in 0..(length - 1) : a = m - 1 /\ a < c /\ m \in 1..length
      BY <1>11, <2>1
    <3>4. data[a] # data[c]
      BY <1>16, <3>2, <3>3
    <3> QED BY <1>11, <2>2, <3>3, <3>4
  <2>4. ASSUME \A m \in 1..(k - 1) : L[m] # L[k] PROVE k \in Meaning!Taken(g)
    <3>1. ASSUME NEW a \in 0..(c - 1) PROVE data[a] # data[c]
      <4>1. PICK m \in 1..(k - 1) : m = a + 1 /\ a = m - 1 /\ m \in 1..length
        BY <1>11, <2>1
      <4> QED BY <1>11, <2>2, <2>4, <4>1
    <3>2. c \in Chosen(f, n)
      BY <1>17, <3>1
    <3> QED BY <1>12, <1>14, <2>1, <3>2
  <2> QED BY <2>2, <2>3, <2>4
<1>19. Meaning!Taken(g) \subseteq 1..length
  BY <1>11, <1>12 DEF Meaning!Taken
<1>20. Meaning!Taken(g) = {k \in DOMAIN L : L[k] \in Meaning!Elements(L) /\ \A m \in 1..(k - 1) : L[m] # L[k]}
  BY <1>11, <1>18, <1>19
<1>21. Meaning!Distinct(L, Meaning!Elements(L), M)
  BY <1>12, <1>20 DEF Meaning!Distinct
<1>22. Meaning!Changing
  BY <1>7, <1>8, <1>10, <1>21 DEF Meaning!Changing
<1> QED BY <1>3, <1>6, <1>22, MutatesMeant

\* A step that is no call of a method.
LEMMA SilentMeant ==
    ASSUME Inv, call' = None, length' = length, high' = Larger(high, length)
    PROVE  Meaning!ListNext
<1>1. Len(List) = length /\ length \in Nat /\ high \in Nat
  BY ListNow, ArrayIs
<1>2. PICK M : M = List'
  OBVIOUS
<1>3. M = [k \in 1..length |-> Read(data', 0 + k - 1)]
  BY <1>2 DEF List, Elems
<1>4. Len(M) = length
  BY <1>1, <1>3
<1>5. call'.op = "none"
  BY DEF None
<1>6. Meaning!Silent /\ ~Meaning!Overcounts
  BY <1>1, <1>2, <1>4, <1>5 DEF Meaning!Silent, Meaning!Overcounts
<1>7. high' = Meaning!Greater(high, Len(List'))
  BY <1>1, <1>2, <1>4 DEF Meaning!Greater, Larger
<1> QED BY <1>6, <1>7 DEF Meaning!ListNext

\* A step that changes neither array nor list.
LEMMA StillMeant ==
    ASSUME Inv, call' = None, length' = length, high' = high
    PROVE  Meaning!ListNext
<1>1. high = Larger(high, length)
  BY ArrayIs DEF Larger
<1> QED BY <1>1, SilentMeant

\* Loops only go through the list, but for transform.
LEMMA AroundMeant ==
    ASSUME Inv, Around
    PROVE  Meaning!ListNext
<1>1. CASE \E v \in Value : transform(v)
  BY <1>1, TransformMeant
<1>2. CASE \E kind \in {"loop", "transform"} : getArrayIterator(kind)
  BY <1>2, StillMeant DEF getArrayIterator, Silently
<1>3. CASE nextArrayKey
  BY <1>3, StillMeant DEF nextArrayKey, Silently
<1>4. CASE BodyEnds
  BY <1>4, StillMeant DEF BodyEnds, Silently
<1>5. CASE Leave
  BY <1>5, StillMeant DEF Leave, Silently
<1> QED BY <1>1, <1>2, <1>3, <1>4, <1>5 DEF Around

\* What is compared may change places.
LEMMA ComparedMeant ==
    ASSUME Inv, NEW order, Compared(order)
    PROVE  Meaning!ListNext
<1>1. call' = None
  BY DEF Compared, Silently
<1>2. PICK d : Become(d, length)
  BY DEF Compared
<1>3. length' = length /\ high' = Larger(high, length)
  BY <1>2 DEF Become, Reach
<1> QED BY <1>1, <1>3, SilentMeant

\* Sorts leave as many elements as there were.
LEMMA SortsMeant ==
    ASSUME Inv, Sorts
    PROVE  Meaning!ListNext
<1>1. CASE \E compare \in BOOLEAN, direction \in Directions : ejsSortArray(compare, direction)
  BY <1>1, StillMeant DEF ejsSortArray, Silently
<1>2. CASE quickSort
  BY <1>2, StillMeant DEF quickSort, Silently
<1>3. CASE compareText
  BY <1>3, ComparedMeant DEF compareText
<1>4. CASE compareCalls
  BY <1>4, StillMeant DEF compareCalls, Silently
<1>5. CASE partition
  <2>1. call' = None
    BY <1>5 DEF partition, Silently
  <2>2. PICK d : Become(d, length)
    BY <1>5 DEF partition
  <2>3. length' = length /\ high' = Larger(high, length)
    BY <2>2 DEF Become, Reach
  <2> QED BY <2>1, <2>3, SilentMeant
<1>6. CASE SortReturns
  BY <1>6, StillMeant DEF SortReturns, Silently
<1>7. CASE compareFails
  BY <1>7, StillMeant DEF compareFails, Silently
<1>8. CASE \E order \in {-1, 0, 1} : compareEnds(order)
  BY <1>8, ComparedMeant DEF compareEnds
<1> QED BY <1>1, <1>2, <1>3, <1>4, <1>5, <1>6, <1>7, <1>8 DEF Sorts

\* Every method does what it means.
LEMMA MethodsMeant ==
    ASSUME Inv, Methods
    PROVE  Meaning!ListNext
<1>1. \A i \in Positions : i \in Int
  BY ArgumentAssumption
<1>2. CASE \E v \in Value, i \in Positions : set(i, v) \/ indexOf(v, i) \/ lastIndexOf(v, i)
  BY <1>1, <1>2, SetMeant, IndexOfMeant, LastIndexOfMeant
<1>3. CASE \E v \in Value : append(v)
  BY <1>3, AppendMeant
<1>4. CASE \E i \in Positions : get(i) \/ deleteArrayProperty(i) \/ setArrayLength(i)
  BY <1>1, <1>4, GetMeant, DeleteMeant, LengthMeant
<1>5. ASSUME NEW items \in Inputs,
             push(items) \/ unshift(items) \/ removeElements(items)
             \/ concat(items) \/ makeIntersection(items) \/ makeUnion(items)
      PROVE  Meaning!ListNext
  BY <1>5, PushMeant, UnshiftMeant, RemoveMeant, ConcatMeant, IntersectionMeant, UnionMeant
<1>6. ASSUME NEW items \in Inputs, NEW i \in Positions, insert(i, items)
      PROVE  Meaning!ListNext
  BY <1>1, <1>6, InsertMeant
<1>7. ASSUME NEW items \in Inputs, NEW i \in Positions, NEW count \in Positions, splice(i, count, items)
      PROVE  Meaning!ListNext
  BY <1>1, <1>7, SpliceMeant
<1>8. CASE \E start, end, step \in Positions : slice(start, end, step)
  BY <1>1, <1>8, SliceMeant
<1>9. CASE clear \/ pop \/ shift \/ unique \/ compact \/ reverse \/ clone
  BY <1>9, ClearMeant, PopMeant, ShiftMeant, UniqueMeant, CompactMeant, ReverseMeant, CloneMeant
<1> QED BY <1>2, <1>3, <1>4, <1>5, <1>6, <1>7, <1>8, <1>9 DEF Methods

\* Every step of the array is one of the list, or none.
LEMMA StepMeant ==
    ASSUME Inv, [Next]_vars
    PROVE  [Meaning!ListNext]_<<List, call, high>>
<1>1. CASE Taken
  BY <1>1, StillMeant DEF Taken
<1>2. CASE Methods
  BY <1>2, MethodsMeant
<1>3. CASE Around
  BY <1>3, AroundMeant
<1>4. CASE Sorts
  BY <1>4, SortsMeant
<1>5. CASE UNCHANGED vars
  BY <1>5 DEF vars, List
<1> QED BY <1>1, <1>2, <1>3, <1>4, <1>5 DEF Next

\* A new array is the list that it is made of.
LEMMA InitMeant ==
    ASSUME Init
    PROVE  Meaning!ListInit
<1>1. PICK s \in Inputs : data = CopyIn(growArray(<<>>, 0, Len(s)), 0, s) /\ length = Len(s) /\ high = length
  BY DEF Init
<1>2. IsSequence(s) /\ s \in Seq(Slot) /\ Len(s) \in Nat /\ \A k \in 1..Len(s) : s[k] \in Slot
  BY ItemsAre, ItemsListed
<1>3. PICK g : g = growArray(<<>>, 0, Len(s))
  OBVIOUS
<1>4. IsBlock(g) /\ Size(g) >= Len(s) /\ Size(g) \in Nat
  <2>1. PICK d : d = <<>>
    OBVIOUS
  <2>2. IsBlock(d) /\ Size(d) = 0
    <3>1. d = [k \in 0..(0 - 1) |-> d[k]]
      BY <2>1
    <3>2. \A k \in 0..(0 - 1) : d[k] \in Slot
      OBVIOUS
    <3> QED BY <3>1, <3>2, BlockOf
  <2>3. PICK zero \in Nat : zero = 0
    OBVIOUS
  <2>4. PICK n \in Nat : n = Len(s)
    BY <1>2
  <2>5. zero \in 0..Size(d) /\ n \in Int /\ g = growArray(d, zero, n)
    BY <1>3, <2>1, <2>2, <2>3, <2>4
  <2>6. IsBlock(g) /\ Size(g) >= n
    BY <2>2, <2>5, Grows
  <2> QED BY <2>4, <2>6, BlockIs
<1>5. PICK b : b = data
  OBVIOUS
<1>6. b = CopyIn(g, 0, s)
  BY <1>1, <1>3, <1>5
<1>7. IsBlock(b) /\ \A k \in 0..(Size(g) - 1) : b[k] = IF k < Len(s) THEN s[k + 1] ELSE g[k]
  BY <1>2, <1>4, <1>6, CopiedFirst
<1>8. Inv
  BY InitInv
<1>9. PICK L : L = List
  OBVIOUS
<1>10. PICK n \in Nat : n = Len(s)
  BY <1>2
<1>11. L \in Seq(Slot) /\ Len(L) = n /\ \A k \in 1..n : L[k] = b[k - 1]
  BY <1>1, <1>5, <1>8, <1>9, <1>10, ListNow
<1>12. ASSUME NEW k \in 1..n PROVE L[k] = s[k]
  <2>1. PICK m \in 0..(Size(g) - 1) : m = k - 1 /\ m < n /\ m + 1 = k
    BY <1>4, <1>10
  <2>2. b[m] = s[m + 1]
    BY <1>7, <1>10, <2>1
  <2> QED BY <1>11, <2>1, <2>2
<1>13. L = s
  BY <1>2, <1>10, <1>11, <1>12, SameList
<1>14. high = Len(s) /\ call.op = "none"
  BY <1>1 DEF Init, None
<1> QED BY <1>9, <1>13, <1>14 DEF Meaning!ListInit

-----------------------------------------------------------------------------
(***************************************************************************)
(* The theorems.                                                            *)
(***************************************************************************)

\* The length of an array never leaves its block, whatever methods, loops and sorts do
\* (ejsArray.c: growArray, and every method that changes length).
THEOREM TypeCorrect == Spec => []TypeOK
<1>1. Spec => []Inv
  BY InitInv, NextInv, PTL DEF Spec
<1> QED BY <1>1, InvTyped, PTL

\* Loops and sorts read and write slots of the block, whatever the functions they call do
\* to the array: nextArrayKey and partition never reach behind it.
THEOREM StaysWithin == Spec => []StaysInBlock
<1>1. Spec => []Inv
  BY InitInv, NextInv, PTL DEF Spec
<1> QED BY <1>1, InvInBlock, PTL

\* A loop gives every slot that holds an element from when it begins to when it is passed,
\* whatever its bodies do to the array (nextArrayKey, nextArrayValue).
THEOREM LoopsGiveAll == Spec => []LoopsMissNothing
<1>1. Spec => []Inv
  BY InitInv, NextInv, PTL DEF Spec
<1> QED BY <1>1, InvMissesNothing, PTL

\* quickSort keeps the elements of an array that nobody else changes, at every call of the
\* compare function and whatever that answers; and orders them, if it answers by the order.
THEOREM SortsRight == Spec => []SortKeeps
<1>1. Spec => []Inv
  BY InitInv, NextInv, PTL DEF Spec
<1> QED BY <1>1, InvSortKeeps, PTL

\* To a script an array is a list: every method does to its elements, and gives, what the
\* method means, whatever the size of the block and whatever the block still holds behind
\* the length (every method of ejsArray.c that the model has).
THEOREM ArrayIsList == Spec => IsList
<1>1. Spec => []Inv
  BY InitInv, NextInv, PTL DEF Spec
<1>2. Inv /\ [Next]_vars => [Meaning!ListNext]_<<List, call, high>>
  BY StepMeant
<1> QED BY <1>1, <1>2, InitMeant, PTL DEF Spec, IsList, Meaning!ListSpec
=============================================================================
