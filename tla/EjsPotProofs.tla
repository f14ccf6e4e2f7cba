---------------------------- MODULE EjsPotProofs ----------------------------
(***************************************************************************)
(* Theorems about EjsPot, for any names and hash of names, any sizes of     *)
(* hashes and any number of properties.                                     *)
(***************************************************************************)
EXTENDS EjsPot, FiniteSetTheorems, SequenceTheorems, WellFoundedInduction, TLAPS

-----------------------------------------------------------------------------
(***************************************************************************)
(* The first and the last of some slots.                                    *)
(***************************************************************************)

\* A name for a value
Is(x, y) == x = y

\* Some numbers have a least.
LEMMA Least ==
    ASSUME NEW S \in SUBSET Nat, S # {}
    PROVE  \E m \in S : \A k \in S : m <= k
<1> DEFINE R == OpToRel(<, Nat)
<1>1. IsWellFoundedOn(R, Nat)
  BY NatLessThanWellFounded
<1>2. \A x, y \in Nat : x < y => <<x, y>> \in R
  BY DEF OpToRel
<1> HIDE DEF R
<1>3. PICK x \in S : \A y \in S : ~(<<y, x>> \in R)
  BY <1>1, WFMin
<1>4. \A y \in S : y \in Nat /\ x \in Nat /\ ~(y < x)
  BY <1>2, <1>3
<1> QED BY <1>3, <1>4

\* Some slots have a last.
LEMMA Most ==
    ASSUME NEW n \in Nat, NEW S \in SUBSET (1..n), S # {}
    PROVE  \E m \in S : \A k \in S : k <= m
<1> DEFINE D == {d \in Nat : n - d \in S}
<1>1. PICK d \in D : \A e \in D : d <= e
  <2>1. D \in SUBSET Nat /\ D # {}
    <3>1. PICK s \in S : TRUE
      OBVIOUS
    <3>2. n - s \in Nat /\ n - (n - s) = s
      OBVIOUS
    <3> QED BY <3>1, <3>2
  <2> HIDE DEF D
  <2> QED BY <2>1, Least
<1>2. ASSUME NEW k \in S PROVE k <= n - d
  <2>1. n - k \in Nat /\ n - (n - k) = k
    OBVIOUS
  <2>2. d <= n - k
    BY <1>1, <2>1
  <2> QED BY <1>1, <2>2
<1> QED BY <1>1, <1>2

\* The first of some slots is one of them and before the others; there is none of none.
LEMMA FirstIs ==
    ASSUME NEW S \in SUBSET (Nat \ {0})
    PROVE  /\ S = {} <=> First(S) = 0
           /\ S # {} => First(S) \in S /\ \A t \in S : First(S) <= t
           /\ First(S) \in Nat
<1>1. CASE S = {}
  BY <1>1 DEF First
<1>2. CASE S # {}
  <2>1. \E m \in S : \A t \in S : m <= t
    BY <1>2, Least
  <2>2. First(S) \in S /\ \A t \in S : First(S) <= t
    BY <1>2, <2>1 DEF First
  <2>3. First(S) # 0 /\ First(S) \in Nat
    BY <2>2
  <2> QED BY <1>2, <2>2, <2>3
<1> QED BY <1>1, <1>2

\* What is one of the slots and before the others is the first.
LEMMA FirstWhen ==
    ASSUME NEW S \in SUBSET (Nat \ {0}), NEW s \in S, \A t \in S : s <= t
    PROVE  First(S) = s
<1>1. First(S) \in S /\ \A t \in S : First(S) <= t
  BY FirstIs
<1>2. First(S) <= s /\ s <= First(S) /\ s \in Nat /\ First(S) \in Nat
  BY <1>1
<1> QED BY <1>2

-----------------------------------------------------------------------------
(***************************************************************************)
(* The chains of a hash.                                                    *)
(***************************************************************************)
Slot == [qname : [space : Space, name : Names], value : Value, attributes : SUBSET Attributes, hashChain : Nat]

\* The bucket of a slot, those linked in a bucket, and those behind a slot
Bucket(ss, n, s) == whash[ss[s].qname.name] % n
In(ss, n, H, i) == {t \in H : Bucket(ss, n, t) = i}
Behind(ss, n, H, s) == {t \in H : t > s /\ Bucket(ss, n, t) = Bucket(ss, n, s)}

\* A hash of n buckets links the slots H, those of a bucket in their order
Links(ss, n, b, H) ==
    /\ ss \in Seq(Slot) /\ n \in Nat \ {0} /\ b \in [0..(n - 1) -> Nat] /\ H \subseteq 1..Len(ss)
    /\ \A s \in H : ss[s].hashChain = First(Behind(ss, n, H, s))
    /\ \A s \in 1..Len(ss) : s \notin H => ss[s].hashChain = 0
    /\ \A i \in 0..(n - 1) : b[i] = First(In(ss, n, H, i))

\* Buckets are numbers of buckets.
LEMMA Buckets ==
    ASSUME NEW ss \in Seq(Slot), NEW n \in Nat \ {0}
    PROVE  /\ \A s \in 1..Len(ss) : Bucket(ss, n, s) \in 0..(n - 1)
           /\ \A name \in Names : whash[name] % n \in 0..(n - 1)
<1>1. \A name \in Names : whash[name] \in Nat
  BY HashAssumption
<1>2. \A k \in Nat : k % n \in 0..(n - 1)
  OBVIOUS
<1>3. \A s \in 1..Len(ss) : ss[s].qname.name \in Names
  <2>1. \A s \in 1..Len(ss) : ss[s] \in Slot
    OBVIOUS
  <2> QED BY <2>1 DEF Slot
<1> QED BY <1>1, <1>2, <1>3 DEF Bucket

\* A walk from the head of a bucket passes all slots of the bucket and no others.
LEMMA ChainIs ==
    ASSUME NEW ss, NEW n, NEW b, NEW H, Links(ss, n, b, H), NEW i \in 0..(n - 1)
    PROVE  Chain(ss, b[i]) = In(ss, n, H, i)
<1> DEFINE M == In(ss, n, H, i)
<1>1. /\ ss \in Seq(Slot) /\ n \in Nat \ {0} /\ H \subseteq 1..Len(ss) /\ Len(ss) \in Nat /\ DOMAIN ss = 1..Len(ss)
      /\ M \subseteq H
  BY DEF Links, In
<1>0. M \in SUBSET (Nat \ {0}) /\ M \in SUBSET (1..Len(ss))
  <2> HIDE DEF M
  <2>1. 1..Len(ss) \subseteq Nat \ {0}
    BY <1>1
  <2>2. M \subseteq 1..Len(ss)
    BY <1>1
  <2> QED BY <2>1, <2>2
<1>2. b[i] = First(M)
  BY DEF Links
<1>3. ASSUME NEW s \in M
      PROVE  ss[s].hashChain = First({t \in M : t > s})
  <2>1. Behind(ss, n, H, s) = {t \in M : t > s}
    BY <1>1 DEF In, Behind
  <2> QED BY <1>1, <2>1 DEF Links
<1> HIDE DEF M
<1>4. Closed(M, ss, b[i])
  <2>1. b[i] \in M \cup {0}
    <3> QED BY <1>0, <1>2, FirstIs
  <2>2. ASSUME NEW s \in M PROVE ss[s].hashChain \in M \cup {0}
    <3> DEFINE T == {t \in M : t > s}
    <3>1. T \in SUBSET (Nat \ {0}) /\ T \subseteq M
      BY <1>0
    <3>2. ss[s].hashChain = First(T)
      BY <1>3
    <3> HIDE DEF T
    <3> QED BY <3>1, <3>2, FirstIs
  <2> QED BY <2>1, <2>2 DEF Closed
<1>5. ASSUME NEW S \in SUBSET DOMAIN ss, Closed(S, ss, b[i]) PROVE M \subseteq S
  <2> DEFINE D == M \ S
  <2> SUFFICES ASSUME D # {} PROVE FALSE
    OBVIOUS
  <2>1. D \in SUBSET Nat
    BY <1>0
  <2> HIDE DEF D
  <2>2. PICK m \in D : \A k \in D : m <= k
    BY <2>1, Least
  <2>3. m \in M /\ m \notin S /\ m \in Nat
    BY <2>1, <2>2 DEF D
  <2> DEFINE T == {t \in M : t < m}
  <2>4. T \subseteq S
    <3> SUFFICES ASSUME NEW t \in M, t < m, t \notin S PROVE FALSE
      OBVIOUS
    <3>1. t \in D /\ t \in Nat
      BY <2>1 DEF D
    <3>2. m <= t
      BY <2>2, <3>1
    <3> QED BY <2>3, <3>1, <3>2
  <2>5. T \in SUBSET (1..Len(ss))
    BY <1>0
  <2>6. \A t \in M : t \notin T => m <= t
    BY <1>0, <2>3
  <2>7. \A t \in T : t \in M /\ t < m
    OBVIOUS
  <2> HIDE DEF T
  <2>8. M \in SUBSET (Nat \ {0}) /\ 0 \notin M
    BY <1>0
  <2>9. CASE T = {}
    <3>1. First(M) = m
      BY <2>3, <2>6, <2>8, <2>9, FirstWhen
    <3>2. First(M) \in S \cup {0}
      BY <1>2, <1>5 DEF Closed
    <3> QED BY <2>3, <2>8, <3>1, <3>2
  <2>10. CASE T # {}
    <3>1. PICK l \in T : \A k \in T : k <= l
      BY <1>1, <2>5, <2>10, Most
    <3>2. l \in M /\ l \in S /\ l < m /\ l \in Nat
      BY <1>1, <2>4, <2>7, <3>1
    <3> DEFINE U == {t \in M : t > l}
    <3>3. U \in SUBSET (Nat \ {0}) /\ m \in U
      BY <2>3, <2>8, <3>2
    <3>4. \A t \in U : m <= t
      <4> SUFFICES ASSUME NEW t \in U, ~(m <= t) PROVE FALSE
        OBVIOUS
      <4>1. t \in M /\ t \in Nat /\ t > l
        BY <2>8
      <4>2. t \in T
        BY <2>6, <4>1
      <4> QED BY <3>1, <3>2, <4>1, <4>2
    <3>5. ss[l].hashChain = First(U)
      BY <1>3, <3>2
    <3> HIDE DEF U
    <3>6. First(U) = m
      BY <3>3, <3>4, FirstWhen
    <3>7. ss[l].hashChain \in S \cup {0}
      BY <1>5, <3>2 DEF Closed
    <3> QED BY <2>3, <2>8, <3>5, <3>6, <3>7
  <2> QED BY <2>9, <2>10
<1>6. M \in SUBSET DOMAIN ss
  BY <1>1
<1>7. Chain(ss, b[i]) = M
  BY <1>4, <1>5, <1>6 DEF Chain
<1> QED BY <1>7 DEF M

-----------------------------------------------------------------------------
(***************************************************************************)
(* Changes of slots and their links.                                        *)
(***************************************************************************)

\* A slot that comes after the others does not change which is first.
LEMMA FirstMore ==
    ASSUME NEW S \in SUBSET (Nat \ {0}), S # {}, NEW k \in Nat \ {0}, \A t \in S : t <= k
    PROVE  First(S \cup {k}) = First(S)
<1>1. First(S) \in S /\ \A t \in S : First(S) <= t
  BY FirstIs
<1>2. S \cup {k} \in SUBSET (Nat \ {0}) /\ First(S) \in S \cup {k} /\ \A t \in S \cup {k} : First(S) <= t
  BY <1>1
<1> QED BY <1>2, FirstWhen

\* Without one that is not the first, the first stays.
LEMMA FirstLess ==
    ASSUME NEW S \in SUBSET (Nat \ {0}), NEW k, First(S) # k
    PROVE  First(S \ {k}) = First(S)
<1>1. CASE S = {}
  <2>1. S \ {k} = S
    BY <1>1
  <2> QED BY <2>1
<1>2. CASE S # {}
  <2>1. First(S) \in S /\ \A t \in S : First(S) <= t
    BY <1>2, FirstIs
  <2>2. S \ {k} \in SUBSET (Nat \ {0}) /\ First(S) \in S \ {k} /\ \A t \in S \ {k} : First(S) <= t
    BY <2>1
  <2> QED BY <2>2, FirstWhen
<1> QED BY <1>1, <1>2

\* There is nothing in an empty set of slots.
LEMMA FirstNone == First({}) = 0
BY DEF First

\* A slot on its own is the first.
LEMMA FirstOne == ASSUME NEW k \in Nat \ {0} PROVE First({k}) = k
<1>1. {k} \in SUBSET (Nat \ {0}) /\ k \in {k} /\ \A t \in {k} : k <= t
  OBVIOUS
<1> QED BY <1>1, FirstWhen

\* What is linked are slots, and in buckets and behind others there are slots.
LEMMA LinksAre ==
    ASSUME NEW ss, NEW n, NEW b, NEW H, Links(ss, n, b, H)
    PROVE  /\ ss \in Seq(Slot) /\ n \in Nat \ {0} /\ Len(ss) \in Nat /\ DOMAIN ss = 1..Len(ss)
           /\ H \in SUBSET (Nat \ {0}) /\ H \subseteq 1..Len(ss) /\ b \in [0..(n - 1) -> Nat]
           /\ \A i : In(ss, n, H, i) \in SUBSET (Nat \ {0})
           /\ \A s : Behind(ss, n, H, s) \in SUBSET (Nat \ {0})
           /\ \A s \in 1..Len(ss) : ss[s] \in Slot /\ ss[s].hashChain \in Nat /\ Bucket(ss, n, s) \in 0..(n - 1)
<1>1. ss \in Seq(Slot) /\ n \in Nat \ {0} /\ Len(ss) \in Nat /\ DOMAIN ss = 1..Len(ss) /\ H \subseteq 1..Len(ss)
      /\ b \in [0..(n - 1) -> Nat]
  BY DEF Links
<1>2. 1..Len(ss) \subseteq Nat \ {0}
  BY <1>1
<1>3. H \in SUBSET (Nat \ {0})
  BY <1>1, <1>2
<1>4. \A i : In(ss, n, H, i) \in SUBSET (Nat \ {0})
  BY <1>3 DEF In
<1>5. \A s : Behind(ss, n, H, s) \in SUBSET (Nat \ {0})
  BY <1>3 DEF Behind
<1>6. \A s \in 1..Len(ss) : ss[s] \in Slot
  BY <1>1
<1>7. \A s \in 1..Len(ss) : ss[s].hashChain \in Nat
  BY <1>6 DEF Slot
<1>8. \A s \in 1..Len(ss) : Bucket(ss, n, s) \in 0..(n - 1)
  BY <1>1, Buckets
<1> QED BY <1>1, <1>3, <1>4, <1>5, <1>6, <1>7, <1>8

\* The last slot goes to an empty bucket.
LEMMA LinkHead ==
    ASSUME NEW ss, NEW n, NEW b, NEW H, Links(ss, n, b, H), NEW k \in 1..Len(ss), \A s \in H : s < k,
           In(ss, n, H, Bucket(ss, n, k)) = {}
    PROVE  Links(ss, n, [b EXCEPT ![Bucket(ss, n, k)] = k], H \cup {k})
<1> SUFFICES ASSUME NEW i, i = Bucket(ss, n, k), NEW c, c = [b EXCEPT ![i] = k], NEW I, I = H \cup {k}
             PROVE  Links(ss, n, c, I)
  OBVIOUS
<1>1. /\ ss \in Seq(Slot) /\ n \in Nat \ {0} /\ Len(ss) \in Nat /\ H \subseteq 1..Len(ss) /\ H \in SUBSET (Nat \ {0})
      /\ b \in [0..(n - 1) -> Nat] /\ i \in 0..(n - 1) /\ k \in Nat \ {0} /\ k \notin H
  BY LinksAre
<1>2. c \in [0..(n - 1) -> Nat] /\ c[i] = k /\ \A j \in 0..(n - 1) : j # i => c[j] = b[j]
  BY <1>1
<1>3. ASSUME NEW s \in I PROVE ss[s].hashChain = First(Behind(ss, n, I, s))
  <2>1. CASE s = k
    <3>1. Behind(ss, n, I, s) = {}
      <4>1. \A t \in I : ~(t > k)
        BY <1>1
      <4> QED BY <2>1, <4>1 DEF Behind
    <3>2. ss[s].hashChain = 0
      BY <1>1, <2>1 DEF Links
    <3> QED BY <3>1, <3>2, FirstNone
  <2>2. CASE s \in H
    <3>1. Bucket(ss, n, s) # i
      BY <2>2 DEF In
    <3>2. Behind(ss, n, I, s) = Behind(ss, n, H, s)
      BY <3>1 DEF Behind
    <3> QED BY <2>2, <3>2 DEF Links
  <2> QED BY <2>1, <2>2
<1>4. ASSUME NEW s \in 1..Len(ss), s \notin I PROVE ss[s].hashChain = 0
  BY <1>4 DEF Links
<1>5. ASSUME NEW j \in 0..(n - 1) PROVE c[j] = First(In(ss, n, I, j))
  <2>1. CASE j = i
    <3>1. In(ss, n, I, j) = {k}
      BY <2>1 DEF In
    <3> QED BY <1>1, <1>2, <2>1, <3>1, FirstOne
  <2>2. CASE j # i
    <3>1. In(ss, n, I, j) = In(ss, n, H, j)
      BY <2>2 DEF In
    <3> QED BY <1>2, <2>2, <3>1 DEF Links
  <2> QED BY <2>1, <2>2
<1>6. I \subseteq 1..Len(ss)
  BY <1>1
<1> QED BY <1>1, <1>2, <1>3, <1>4, <1>5, <1>6 DEF Links

\* Slots are called the same, and in the same order
SameNames(ss, tt) == Len(tt) = Len(ss) /\ \A s \in 1..Len(ss) : tt[s].qname = ss[s].qname

\* These are slots
Within(H, ss) == H \subseteq 1..Len(ss)

\* Slots fall in the same buckets
SameBuckets(ss, tt, n, H) ==
    /\ \A i : In(tt, n, H, i) = In(ss, n, H, i)
    /\ \A s \in 1..Len(ss) : Behind(tt, n, H, s) = Behind(ss, n, H, s)

\* Buckets depend on names.
LEMMA BucketsSame ==
    ASSUME NEW ss, NEW tt, SameNames(ss, tt), NEW n, NEW H, Within(H, ss)
    PROVE  SameBuckets(ss, tt, n, H)
<1>1. \A s \in 1..Len(ss) : Bucket(tt, n, s) = Bucket(ss, n, s)
  BY DEF Bucket, SameNames
<1>2. \A i : In(tt, n, H, i) = In(ss, n, H, i)
  BY <1>1 DEF In, Within
<1>3. \A s \in 1..Len(ss) : Behind(tt, n, H, s) = Behind(ss, n, H, s)
  BY <1>1 DEF Behind, Within
<1> QED BY <1>2, <1>3 DEF SameBuckets

\* The last slot is linked behind the last of its bucket.
LEMMA LinkLast ==
    ASSUME NEW ss, NEW n, NEW b, NEW H, Links(ss, n, b, H), NEW k \in 1..Len(ss), \A s \in H : s < k,
           NEW l \in In(ss, n, H, Bucket(ss, n, k)), \A t \in In(ss, n, H, Bucket(ss, n, k)) : t <= l,
           NEW tt \in Seq(Slot), SameNames(ss, tt),
           \A s \in 1..Len(ss) : tt[s].hashChain = IF s = l THEN k ELSE ss[s].hashChain
    PROVE  Links(tt, n, b, H \cup {k})
<1> SUFFICES ASSUME NEW i, i = Bucket(ss, n, k), NEW I, I = H \cup {k} PROVE Links(tt, n, b, I)
  OBVIOUS
<1>1. /\ ss \in Seq(Slot) /\ n \in Nat \ {0} /\ Len(ss) \in Nat /\ H \subseteq 1..Len(ss) /\ H \in SUBSET (Nat \ {0})
      /\ b \in [0..(n - 1) -> Nat] /\ i \in 0..(n - 1) /\ k \in Nat \ {0} /\ k \notin H /\ I \subseteq 1..Len(ss)
      /\ Len(tt) = Len(ss) /\ l \in H /\ l \in Nat /\ l < k
  <2>1. /\ ss \in Seq(Slot) /\ n \in Nat \ {0} /\ Len(ss) \in Nat /\ H \subseteq 1..Len(ss) /\ H \in SUBSET (Nat \ {0})
        /\ b \in [0..(n - 1) -> Nat] /\ i \in 0..(n - 1)
    BY LinksAre
  <2>2. k \in Nat \ {0} /\ k \notin H
    BY <2>1
  <2>3. l \in H
    BY DEF In
  <2> QED BY <2>1, <2>2, <2>3 DEF SameNames
<1>2. /\ \A j : In(tt, n, I, j) = In(ss, n, I, j)
      /\ \A s \in 1..Len(ss) : Behind(tt, n, I, s) = Behind(ss, n, I, s)
  <2>1. Within(I, ss)
    BY <1>1 DEF Within
  <2>2. SameBuckets(ss, tt, n, I)
    BY <2>1, BucketsSame
  <2> QED BY <2>2 DEF SameBuckets
<1>3. \A s \in H : ss[s].hashChain = First(Behind(ss, n, H, s)) /\ Behind(ss, n, H, s) \in SUBSET (Nat \ {0})
  <2>1. \A s \in H : ss[s].hashChain = First(Behind(ss, n, H, s))
    BY DEF Links
  <2>2. \A s : Behind(ss, n, H, s) \in SUBSET (Nat \ {0})
    BY LinksAre
  <2> QED BY <2>1, <2>2
<1>4. ASSUME NEW s \in I PROVE tt[s].hashChain = First(Behind(ss, n, I, s))
  <2>1. CASE s = k
    <3>1. Behind(ss, n, I, s) = {}
      <4>1. \A t \in I : ~(t > k)
        BY <1>1
      <4> QED BY <2>1, <4>1 DEF Behind
    <3>2. tt[s].hashChain = 0
      BY <1>1, <2>1 DEF Links
    <3> QED BY <3>1, <3>2, FirstNone
  <2>2. CASE s = l
    <3>1. \A t \in H : t > l => Bucket(ss, n, t) # i
      BY <1>1 DEF In
    <3>2. Bucket(ss, n, l) = i
      BY DEF In
    <3>3. Behind(ss, n, I, s) = {k}
      BY <1>1, <2>2, <3>1, <3>2 DEF Behind
    <3>4. tt[s].hashChain = k
      BY <1>1, <2>2
    <3> QED BY <1>1, <3>3, <3>4, FirstOne
  <2>3. CASE s \in H /\ s # l /\ Bucket(ss, n, s) = i
    <3>1. s < l /\ Bucket(ss, n, l) = i
      BY <1>1, <2>3 DEF In
    <3>2. l \in Behind(ss, n, H, s)
      BY <1>1, <2>3, <3>1 DEF Behind
    <3>3. Behind(ss, n, I, s) = Behind(ss, n, H, s) \cup {k}
      BY <1>1, <2>3 DEF Behind
    <3>4. \A t \in Behind(ss, n, H, s) : t <= k
      BY <1>1 DEF Behind
    <3>5. First(Behind(ss, n, I, s)) = First(Behind(ss, n, H, s))
      <4>1. PICK S : S = Behind(ss, n, H, s)
        OBVIOUS
      <4>2. S \in SUBSET (Nat \ {0}) /\ S # {} /\ k \in Nat \ {0} /\ \A t \in S : t <= k
        BY <1>1, <1>3, <2>3, <3>2, <3>4, <4>1
      <4>3. First(S \cup {k}) = First(S)
        BY <4>2, FirstMore
      <4> QED BY <3>3, <4>1, <4>3
    <3> QED BY <1>1, <1>3, <2>3, <3>5
  <2>4. CASE s \in H /\ Bucket(ss, n, s) # i
    <3>1. Behind(ss, n, I, s) = Behind(ss, n, H, s) /\ s # l
      BY <2>4 DEF Behind, In
    <3> QED BY <1>1, <1>3, <2>4, <3>1
  <2> QED BY <2>1, <2>2, <2>3, <2>4
<1>5. ASSUME NEW s \in 1..Len(tt), s \notin I PROVE tt[s].hashChain = 0
  BY <1>1, <1>5 DEF Links
<1>6. ASSUME NEW j \in 0..(n - 1) PROVE b[j] = First(In(ss, n, I, j))
  <2>1. CASE j = i
    <3>1. In(ss, n, I, j) = In(ss, n, H, j) \cup {k} /\ In(ss, n, H, j) # {} /\ \A t \in In(ss, n, H, j) : t <= k
      BY <1>1, <2>1 DEF In
    <3>2. In(ss, n, H, j) \in SUBSET (Nat \ {0})
      BY LinksAre
    <3>3. First(In(ss, n, I, j)) = First(In(ss, n, H, j))
      BY <1>1, <3>1, <3>2, FirstMore
    <3> QED BY <3>3 DEF Links
  <2>2. CASE j # i
    <3>1. In(ss, n, I, j) = In(ss, n, H, j)
      BY <2>2 DEF In
    <3> QED BY <3>1 DEF Links
  <2> QED BY <2>1, <2>2
<1>7. \A s \in I : tt[s].hashChain = First(Behind(tt, n, I, s))
  BY <1>1, <1>2, <1>4
<1>8. \A j \in 0..(n - 1) : b[j] = First(In(tt, n, I, j))
  BY <1>2, <1>6
<1> QED BY <1>1, <1>5, <1>7, <1>8 DEF Links

\* A slot is unlinked and becomes one that is deleted: who was before it goes on to
\* who was behind it.
LEMMA Unlink ==
    ASSUME NEW ss, NEW n, NEW b, NEW H, Links(ss, n, b, H), NEW k \in H,
           NEW tt \in Seq(Slot), Len(tt) = Len(ss), tt[k].hashChain = 0,
           \A s \in 1..Len(ss) : s # k =>
               /\ tt[s].qname = ss[s].qname
               /\ tt[s].hashChain = IF ss[s].hashChain = k THEN ss[k].hashChain ELSE ss[s].hashChain,
           NEW c, c = [b EXCEPT ![Bucket(ss, n, k)] = IF @ = k THEN ss[k].hashChain ELSE @]
    PROVE  Links(tt, n, c, H \ {k})
<1> SUFFICES ASSUME NEW i, i = Bucket(ss, n, k), NEW I, I = H \ {k} PROVE Links(tt, n, c, I)
  OBVIOUS
<1>1. /\ ss \in Seq(Slot) /\ n \in Nat \ {0} /\ Len(ss) \in Nat /\ H \subseteq 1..Len(ss) /\ H \in SUBSET (Nat \ {0})
      /\ b \in [0..(n - 1) -> Nat] /\ i \in 0..(n - 1) /\ k \in Nat \ {0} /\ k \in 1..Len(ss) /\ ss[k].hashChain \in Nat
      /\ \A s \in 1..Len(ss) : ss[s].hashChain \in Nat
  <2>1. k \in 1..Len(ss)
    BY LinksAre
  <2> QED BY <2>1, LinksAre
<1>2. I \subseteq H /\ k \notin I /\ I \subseteq 1..Len(ss)
  BY <1>1
<1>3. /\ c \in [0..(n - 1) -> Nat] /\ c[i] = (IF b[i] = k THEN ss[k].hashChain ELSE b[i])
      /\ \A j \in 0..(n - 1) : j # i => c[j] = b[j]
  BY <1>1
<1>4. \A s \in I : Bucket(tt, n, s) = Bucket(ss, n, s)
  BY <1>1, <1>2 DEF Bucket
<1>5. /\ \A j : In(tt, n, I, j) = In(ss, n, H, j) \ {k}
      /\ \A s \in I : Behind(tt, n, I, s) = Behind(ss, n, H, s) \ {k}
  <2>1. \A j : In(tt, n, I, j) = In(ss, n, H, j) \ {k}
    BY <1>4 DEF In
  <2>2. \A s \in I : Behind(tt, n, I, s) = Behind(ss, n, H, s) \ {k}
    BY <1>4 DEF Behind
  <2> QED BY <2>1, <2>2
<1>6. /\ \A s : Behind(ss, n, H, s) \in SUBSET (Nat \ {0})
      /\ \A j : In(ss, n, H, j) \in SUBSET (Nat \ {0})
      /\ \A s \in H : ss[s].hashChain = First(Behind(ss, n, H, s))
      /\ \A j \in 0..(n - 1) : b[j] = First(In(ss, n, H, j))
      /\ \A s \in 1..Len(ss) : s \notin H => ss[s].hashChain = 0
  <2>1. /\ \A s \in H : ss[s].hashChain = First(Behind(ss, n, H, s))
        /\ \A j \in 0..(n - 1) : b[j] = First(In(ss, n, H, j))
        /\ \A s \in 1..Len(ss) : s \notin H => ss[s].hashChain = 0
    BY DEF Links
  <2>2. /\ \A s : Behind(ss, n, H, s) \in SUBSET (Nat \ {0})
        /\ \A j : In(ss, n, H, j) \in SUBSET (Nat \ {0})
    BY LinksAre
  <2> QED BY <2>1, <2>2
<1>7. ASSUME NEW s \in I PROVE tt[s].hashChain = First(Behind(tt, n, I, s))
  <2>0. s \in 1..Len(ss) /\ s # k /\ s \in H /\ s \in Nat
    BY <1>1, <1>2
  <2> DEFINE F == Behind(ss, n, H, s)
  <2>1. Behind(tt, n, I, s) = F \ {k} /\ F \in SUBSET (Nat \ {0}) /\ ss[s].hashChain = First(F)
    BY <1>5, <1>6, <2>0
  <2>2. CASE ss[s].hashChain = k
    <3>1. k \in F /\ \A t \in F : k <= t
      <4> HIDE DEF F
      <4>1. First(F) = k /\ k # 0
        BY <1>1, <2>1, <2>2
      <4> QED BY <2>1, <4>1, FirstIs
    <3>2. k > s /\ Bucket(ss, n, k) = Bucket(ss, n, s)
      BY <3>1 DEF Behind
    <3>3. F \ {k} = Behind(ss, n, H, k)
      <4>1. ASSUME NEW t \in F, t # k PROVE t \in Behind(ss, n, H, k)
        <5>1. t \in H /\ t \in Nat /\ Bucket(ss, n, t) = Bucket(ss, n, s) /\ k <= t
          BY <1>1, <3>1, <4>1 DEF Behind
        <5>2. t > k
          BY <1>1, <4>1, <5>1
        <5> QED BY <3>2, <5>1, <5>2 DEF Behind
      <4>2. ASSUME NEW t \in Behind(ss, n, H, k) PROVE t \in F /\ t # k
        <5>1. t \in H /\ t \in Nat /\ Bucket(ss, n, t) = Bucket(ss, n, k) /\ t > k
          BY <1>1, <4>2 DEF Behind
        <5>2. t > s /\ t # k
          BY <1>1, <2>0, <3>2, <5>1
        <5> QED BY <3>2, <5>1, <5>2 DEF Behind
      <4> HIDE DEF F
      <4> QED BY <4>1, <4>2
    <3> HIDE DEF F
    <3>4. tt[s].hashChain = ss[k].hashChain
      BY <2>0, <2>2
    <3> QED BY <1>6, <2>1, <3>3, <3>4
  <2>3. CASE ss[s].hashChain # k
    <3> HIDE DEF F
    <3>1. First(F \ {k}) = First(F)
      BY <2>1, <2>3, FirstLess
    <3>2. tt[s].hashChain = ss[s].hashChain
      BY <2>0, <2>3
    <3> QED BY <2>1, <3>1, <3>2
  <2> QED BY <2>2, <2>3
<1>8. ASSUME NEW s \in 1..Len(tt), s \notin I PROVE tt[s].hashChain = 0
  <2>1. CASE s = k
    BY <2>1
  <2>2. CASE s # k
    <3>1. s \notin H /\ ss[s].hashChain = 0
      BY <1>6, <1>8, <2>2
    <3> QED BY <1>1, <1>8, <2>2, <3>1
  <2> QED BY <2>1, <2>2
<1>9. ASSUME NEW j \in 0..(n - 1) PROVE c[j] = First(In(tt, n, I, j))
  <2> DEFINE M == In(ss, n, H, j)
  <2>1. In(tt, n, I, j) = M \ {k} /\ M \in SUBSET (Nat \ {0}) /\ b[j] = First(M)
    BY <1>5, <1>6
  <2>2. CASE j = i /\ b[j] = k
    <3>1. k \in M /\ \A t \in M : k <= t
      <4> HIDE DEF M
      <4>1. First(M) = k /\ k # 0
        BY <1>1, <2>1, <2>2
      <4> QED BY <2>1, <4>1, FirstIs
    <3>2. M \ {k} = Behind(ss, n, H, k)
      <4>1. ASSUME NEW t \in M, t # k PROVE t \in Behind(ss, n, H, k)
        <5>1. t \in H /\ t \in Nat /\ Bucket(ss, n, t) = i /\ k <= t
          BY <1>1, <2>2, <3>1 DEF In
        <5>2. t > k
          BY <1>1, <4>1, <5>1
        <5> QED BY <5>1, <5>2 DEF Behind
      <4>2. ASSUME NEW t \in Behind(ss, n, H, k) PROVE t \in M /\ t # k
        <5>1. t \in H /\ t \in Nat /\ Bucket(ss, n, t) = i /\ t > k
          BY <1>1, <4>2 DEF Behind
        <5>2. t # k
          BY <1>1, <5>1
        <5> QED BY <2>2, <5>1, <5>2 DEF In
      <4> HIDE DEF M
      <4> QED BY <4>1, <4>2
    <3>3. ss[k].hashChain = First(Behind(ss, n, H, k))
      BY <1>6
    <3>4. c[j] = ss[k].hashChain
      BY <1>3, <2>2
    <3> HIDE DEF M
    <3> QED BY <2>1, <3>2, <3>3, <3>4
  <2>3. CASE j = i /\ b[j] # k
    <3> HIDE DEF M
    <3>1. First(M \ {k}) = First(M)
      BY <2>1, <2>3, FirstLess
    <3> QED BY <1>3, <2>1, <2>3, <3>1
  <2>4. CASE j # i
    <3>1. k \notin M
      BY <2>4 DEF In
    <3> HIDE DEF M
    <3>2. M \ {k} = M
      BY <3>1
    <3> QED BY <1>3, <2>1, <2>4, <3>2
  <2> QED BY <2>2, <2>3, <2>4
<1> QED BY <1>1, <1>2, <1>3, <1>7, <1>8, <1>9 DEF Links

\* Links depend on names and chains.
LEMMA LinksStay ==
    ASSUME NEW ss, NEW n, NEW b, NEW H, Links(ss, n, b, H), NEW tt \in Seq(Slot), SameNames(ss, tt),
           \A s \in 1..Len(ss) : tt[s].hashChain = ss[s].hashChain
    PROVE  Links(tt, n, b, H)
<1>1. Within(H, ss)
  BY DEF Links, Within
<1>2. Len(tt) = Len(ss)
  BY DEF SameNames
<1>3. /\ \A i : In(tt, n, H, i) = In(ss, n, H, i)
      /\ \A s \in 1..Len(ss) : Behind(tt, n, H, s) = Behind(ss, n, H, s)
  <2>1. SameBuckets(ss, tt, n, H)
    BY <1>1, BucketsSame
  <2> QED BY <2>1 DEF SameBuckets
<1>4. \A s \in H : tt[s].hashChain = First(Behind(tt, n, H, s))
  BY <1>3 DEF Links
<1>5. \A i \in 0..(n - 1) : b[i] = First(In(tt, n, H, i))
  BY <1>3 DEF Links
<1> QED BY <1>2, <1>4, <1>5 DEF Links

\* A slot is added at the end, and not linked yet.
LEMMA LinksAppend ==
    ASSUME NEW ss, NEW n, NEW b, NEW H, Links(ss, n, b, H), NEW z \in Slot, z.hashChain = 0
    PROVE  Links(Append(ss, z), n, b, H)
<1> SUFFICES ASSUME NEW tt, tt = Append(ss, z) PROVE Links(tt, n, b, H)
  OBVIOUS
<1>1. ss \in Seq(Slot) /\ Len(ss) \in Nat /\ H \subseteq 1..Len(ss)
  BY LinksAre
<1>2. /\ tt \in Seq(Slot) /\ Len(tt) = Len(ss) + 1 /\ tt[Len(ss) + 1] = z
      /\ \A s \in 1..Len(ss) : tt[s] = ss[s]
  BY <1>1, AppendProperties
<1>3. \A s \in H : tt[s] = ss[s] /\ Bucket(tt, n, s) = Bucket(ss, n, s)
  BY <1>1, <1>2 DEF Bucket
<1>4. /\ \A i : In(tt, n, H, i) = In(ss, n, H, i)
      /\ \A s \in H : Behind(tt, n, H, s) = Behind(ss, n, H, s)
  <2>1. \A i : In(tt, n, H, i) = In(ss, n, H, i)
    BY <1>3 DEF In
  <2>2. \A s \in H : Behind(tt, n, H, s) = Behind(ss, n, H, s)
    BY <1>3 DEF Behind
  <2> QED BY <2>1, <2>2
<1>5. \A s \in H : tt[s].hashChain = First(Behind(tt, n, H, s))
  BY <1>3, <1>4 DEF Links
<1>6. \A i \in 0..(n - 1) : b[i] = First(In(tt, n, H, i))
  BY <1>4 DEF Links
<1>7. \A s \in 1..Len(tt) : s \notin H => tt[s].hashChain = 0
  <2> SUFFICES ASSUME NEW s \in 1..Len(tt), s \notin H PROVE tt[s].hashChain = 0
    OBVIOUS
  <2>1. s = Len(ss) + 1 \/ s \in 1..Len(ss)
    BY <1>1, <1>2
  <2> QED BY <1>2, <2>1 DEF Links
<1>8. H \subseteq 1..Len(tt)
  BY <1>1, <1>2
<1> QED BY <1>2, <1>5, <1>6, <1>7, <1>8 DEF Links

\* Slots with new links
Relinked(ss, tt) ==
    /\ tt \in Seq(Slot) /\ SameNames(ss, tt)
    /\ \A s \in 1..Len(ss) : tt[s].value = ss[s].value /\ tt[s].attributes = ss[s].attributes

\* Linking a slot leaves the rest of it alone.
LEMMA LinkedIs ==
    ASSUME NEW slot \in Slot, NEW k \in Nat
    PROVE  /\ Linked(slot, k) \in Slot /\ Linked(slot, k).hashChain = k /\ Linked(slot, k).qname = slot.qname
           /\ Linked(slot, k).value = slot.value /\ Linked(slot, k).attributes = slot.attributes
BY DEF Linked, Slot

\* Slots that are hashed anew are linked in their order.
LEMMA LinksFresh ==
    ASSUME NEW ss \in Seq(Slot), NEW n \in Nat \ {0}
    PROVE  /\ Links(Rechained(ss, n), n, [i \in 0..(n - 1) |-> First(InBucket(ss, n, i))], Hashed(ss))
           /\ Relinked(ss, Rechained(ss, n))
<1> DEFINE H == Hashed(ss)
           tt == Rechained(ss, n)
           b == [i \in 0..(n - 1) |-> First(InBucket(ss, n, i))]
<1>1. Len(ss) \in Nat /\ DOMAIN ss = 1..Len(ss) /\ 1..Len(ss) \subseteq Nat \ {0} /\ H \subseteq 1..Len(ss) /\ \A s \in 1..Len(ss) : ss[s] \in Slot
  BY DEF Hashed
<1>2. \A i : InBucket(ss, n, i) = In(ss, n, H, i)
  BY DEF InBucket, In, Bucket
<1> HIDE DEF H
<1>3. /\ \A i : In(ss, n, H, i) \in SUBSET (Nat \ {0})
      /\ \A s : Behind(ss, n, H, s) \in SUBSET (Nat \ {0})
  BY <1>1 DEF In, Behind
<1>4. \A s \in 1..Len(ss) : tt[s] = Linked(ss[s], IF s \in H THEN First(Behind(ss, n, H, s)) ELSE 0)
  <2> SUFFICES ASSUME NEW s \in 1..Len(ss) PROVE tt[s] = Linked(ss[s], IF s \in H THEN First(Behind(ss, n, H, s)) ELSE 0)
    OBVIOUS
  <2>1. tt[s] = Linked(ss[s], IF s \in H THEN First({t \in In(ss, n, H, Bucket(ss, n, s)) : t > s}) ELSE 0)
    BY <1>1, <1>2 DEF Rechained, H, Bucket
  <2>2. {t \in In(ss, n, H, Bucket(ss, n, s)) : t > s} = Behind(ss, n, H, s)
    BY DEF In, Behind
  <2> QED BY <2>1, <2>2
<1>5. \A s \in 1..Len(ss) : (IF s \in H THEN First(Behind(ss, n, H, s)) ELSE 0) \in Nat
  <2>1. \A s : First(Behind(ss, n, H, s)) \in Nat
    BY <1>3, FirstIs
  <2> QED BY <2>1
<1>6. \A s \in 1..Len(ss) :
        /\ tt[s] \in Slot /\ tt[s].hashChain = (IF s \in H THEN First(Behind(ss, n, H, s)) ELSE 0)
        /\ tt[s].qname = ss[s].qname /\ tt[s].value = ss[s].value /\ tt[s].attributes = ss[s].attributes
  <2> SUFFICES ASSUME NEW s \in 1..Len(ss)
               PROVE  /\ tt[s] \in Slot /\ tt[s].hashChain = (IF s \in H THEN First(Behind(ss, n, H, s)) ELSE 0)
                      /\ tt[s].qname = ss[s].qname /\ tt[s].value = ss[s].value /\ tt[s].attributes = ss[s].attributes
    OBVIOUS
  <2> HIDE DEF tt
  <2>1. /\ ss[s] \in Slot /\ (IF s \in H THEN First(Behind(ss, n, H, s)) ELSE 0) \in Nat
        /\ tt[s] = Linked(ss[s], IF s \in H THEN First(Behind(ss, n, H, s)) ELSE 0)
    BY <1>1, <1>4, <1>5
  <2> SUFFICES ASSUME NEW k, k = (IF s \in H THEN First(Behind(ss, n, H, s)) ELSE 0)
               PROVE  /\ tt[s] \in Slot /\ tt[s].hashChain = k /\ tt[s].qname = ss[s].qname
                      /\ tt[s].value = ss[s].value /\ tt[s].attributes = ss[s].attributes
    OBVIOUS
  <2> SUFFICES ASSUME NEW x, x = ss[s]
               PROVE  /\ tt[s] \in Slot /\ tt[s].hashChain = k /\ tt[s].qname = x.qname
                      /\ tt[s].value = x.value /\ tt[s].attributes = x.attributes
    OBVIOUS
  <2>2. k \in Nat /\ x \in Slot /\ tt[s] = Linked(x, k)
    BY <2>1
  <2>3. /\ Linked(x, k) \in Slot /\ Linked(x, k).hashChain = k /\ Linked(x, k).qname = x.qname
        /\ Linked(x, k).value = x.value /\ Linked(x, k).attributes = x.attributes
    BY <2>2, LinkedIs
  <2> QED BY <2>2, <2>3
<1>7. tt \in [1..Len(ss) -> Slot] /\ tt \in Seq(Slot) /\ Len(tt) = Len(ss)
  <2>1. DOMAIN tt = 1..Len(ss) /\ tt = [s \in 1..Len(ss) |-> tt[s]]
    BY <1>1 DEF Rechained
  <2> HIDE DEF tt
  <2>2. tt \in [1..Len(ss) -> Slot]
    BY <1>6, <2>1
  <2> QED BY <1>1, <2>2
<1>8. b \in [0..(n - 1) -> Nat] /\ \A i \in 0..(n - 1) : b[i] = First(In(ss, n, H, i))
  <2>1. \A i : First(In(ss, n, H, i)) \in Nat
    BY <1>3, FirstIs
  <2> QED BY <1>2, <2>1
<1> HIDE DEF tt, b
<1>9. SameNames(ss, tt)
  BY <1>6, <1>7 DEF SameNames
<1>10. /\ \A i : In(tt, n, H, i) = In(ss, n, H, i)
       /\ \A s \in 1..Len(ss) : Behind(tt, n, H, s) = Behind(ss, n, H, s)
  <2>1. Within(H, ss)
    BY <1>1 DEF Within
  <2>2. SameBuckets(ss, tt, n, H)
    BY <1>9, <2>1, BucketsSame
  <2> QED BY <2>2 DEF SameBuckets
<1>11. Links(tt, n, b, H)
  <2>1. \A s \in H : tt[s].hashChain = First(Behind(tt, n, H, s))
    BY <1>1, <1>6, <1>10
  <2>2. \A s \in 1..Len(tt) : s \notin H => tt[s].hashChain = 0
    BY <1>6, <1>7
  <2>3. \A i \in 0..(n - 1) : b[i] = First(In(tt, n, H, i))
    BY <1>8, <1>10
  <2> QED BY <1>1, <1>7, <1>8, <2>1, <2>2, <2>3 DEF Links
<1>12. Relinked(ss, tt)
  BY <1>6, <1>7, <1>9 DEF Relinked
<1> QED BY <1>11, <1>12 DEF tt, b, H

-----------------------------------------------------------------------------
(***************************************************************************)
(* An object: slots, space for them, and a hash of n buckets or none.       *)
(***************************************************************************)
P(ss, sz, n, b) == [slots |-> ss, size |-> sz, hash |-> [size |-> n, buckets |-> b]]

\* No name is used twice
Distinct(ss) == \A s, t \in LiveOf(ss) : ss[s].qname = ss[t].qname => s = t

\* Names that are in use are linked, if there is a hash
Hashes(ss, n, b) ==
    \/ n = 0 /\ b = <<>> /\ \A s \in 1..Len(ss) : ss[s].hashChain = 0
    \/ \E H : Links(ss, n, b, H) /\ LiveOf(ss) \subseteq H

Good(ss, sz, n, b) ==
    ss \in Seq(Slot) /\ sz \in Nat /\ Len(ss) <= sz /\ Distinct(ss) /\ Hashes(ss, n, b)

\* The parts of an object, and what an update of a part is.
LEMMA ObjectIs ==
    ASSUME NEW ss, NEW sz, NEW n, NEW b
    PROVE  /\ P(ss, sz, n, b).slots = ss /\ P(ss, sz, n, b).size = sz
           /\ P(ss, sz, n, b).hash.size = n /\ P(ss, sz, n, b).hash.buckets = b
           /\ \A tt : [P(ss, sz, n, b) EXCEPT !.slots = tt] = P(tt, sz, n, b)
           /\ \A i, k : [P(ss, sz, n, b) EXCEPT !.hash.buckets[i] = k] = P(ss, sz, n, [b EXCEPT ![i] = k])
<1>1. /\ P(ss, sz, n, b).slots = ss /\ P(ss, sz, n, b).size = sz
      /\ P(ss, sz, n, b).hash.size = n /\ P(ss, sz, n, b).hash.buckets = b
  BY DEF P
<1>2. \A tt : [P(ss, sz, n, b) EXCEPT !.slots = tt] = P(tt, sz, n, b)
  BY DEF P
<1>3. ASSUME NEW i, NEW k PROVE [P(ss, sz, n, b) EXCEPT !.hash.buckets[i] = k] = P(ss, sz, n, [b EXCEPT ![i] = k])
  BY DEF P
<1> QED BY <1>1, <1>2, <1>3

\* What is relinked has the same names in use.
LEMMA RelinkedIs ==
    ASSUME NEW ss \in Seq(Slot), NEW tt, Relinked(ss, tt)
    PROVE  /\ tt \in Seq(Slot) /\ Len(tt) = Len(ss) /\ LiveOf(tt) = LiveOf(ss) /\ (Distinct(ss) => Distinct(tt))
           /\ \A s \in 1..Len(ss) : /\ tt[s].qname = ss[s].qname /\ tt[s].value = ss[s].value
                                    /\ tt[s].attributes = ss[s].attributes
<1>1. /\ tt \in Seq(Slot) /\ Len(tt) = Len(ss) /\ DOMAIN ss = 1..Len(ss) /\ DOMAIN tt = 1..Len(ss)
      /\ \A s \in 1..Len(ss) : /\ tt[s].qname = ss[s].qname /\ tt[s].value = ss[s].value
                               /\ tt[s].attributes = ss[s].attributes
  BY DEF Relinked, SameNames
<1>2. LiveOf(tt) = LiveOf(ss)
  BY <1>1 DEF LiveOf
<1>3. LiveOf(ss) \subseteq 1..Len(ss)
  BY <1>1 DEF LiveOf
<1>4. Distinct(ss) => Distinct(tt)
  BY <1>1, <1>2, <1>3 DEF Distinct
<1> QED BY <1>1, <1>2, <1>4

\* There is a size for every number of properties.
LEMMA SizeIs == ASSUME NEW k PROVE ejsGetHashSize(k) \in Nat \ {0}
<1> DEFINE larger == {i \in DOMAIN HashSizes : k < HashSizes[i]}
<1>1. /\ HashSizes \in Seq(Nat \ {0}) /\ Len(HashSizes) \in Nat /\ DOMAIN HashSizes = 1..Len(HashSizes)
      /\ Len(HashSizes) \in 1..Len(HashSizes) /\ \A i \in 1..Len(HashSizes) : HashSizes[i] \in Nat \ {0}
  BY SizeAssumption, EmptySeq
<1>2. larger \subseteq 1..Len(HashSizes) /\ 1..Len(HashSizes) \subseteq Nat \ {0}
  BY <1>1
<1> HIDE DEF larger
<1>3. larger \in SUBSET (Nat \ {0})
  BY <1>2
<1>4. larger # {} => First(larger) \in 1..Len(HashSizes)
  BY <1>2, <1>3, FirstIs
<1>5. ejsGetHashSize(k) = HashSizes[IF larger = {} THEN Len(HashSizes) ELSE First(larger)]
  BY DEF ejsGetHashSize, larger
<1> QED BY <1>1, <1>4, <1>5

\* Names that are in use are hashed, as none is used twice.
LEMMA LiveHashed ==
    ASSUME NEW ss \in Seq(Slot), Distinct(ss)
    PROVE  LiveOf(ss) \subseteq Hashed(ss)
<1> SUFFICES ASSUME NEW s \in LiveOf(ss), NEW t \in 1..(s - 1), ss[t].qname = ss[s].qname PROVE FALSE
  BY DEF Hashed, LiveOf
<1>1. s \in 1..Len(ss) /\ Len(ss) \in Nat /\ DOMAIN ss = 1..Len(ss)
  BY DEF LiveOf
<1>2. t \in 1..Len(ss) /\ t # s
  BY <1>1
<1>3. t \in LiveOf(ss)
  BY <1>1, <1>2 DEF LiveOf
<1> QED BY <1>2, <1>3 DEF Distinct

\* An object with new links
Rehashed(ss, sz, p) == \E tt, m, c : p = P(tt, sz, m, c) /\ Relinked(ss, tt) /\ Hashes(tt, m, c)

\* ejsIndexProperties makes a hash anew, unless there is none and the properties are few.
LEMMA IndexIs ==
    ASSUME NEW ss \in Seq(Slot), Distinct(ss), NEW sz, NEW n \in Nat, NEW b, n # 0 \/ Len(ss) > HashMin
    PROVE  Rehashed(ss, sz, ejsIndexProperties(P(ss, sz, n, b)))
<1> DEFINE p == P(ss, sz, n, b)
           wanted == ejsGetHashSize(Len(ss))
           m == IF n < wanted THEN wanted ELSE n
           tt == Rechained(ss, m)
           c == [i \in 0..(m - 1) |-> First(InBucket(ss, m, i))]
<1>1. m \in Nat \ {0}
  BY SizeIs
<1>2. ~(Len(ss) <= HashMin /\ n = 0)
  <2>1. Len(ss) \in Nat /\ HashMin \in Nat
    BY SizeAssumption
  <2> QED BY <2>1
<1>3. p.slots = ss /\ p.size = sz /\ p.hash.size = n
  BY ObjectIs
<1> HIDE DEF p
<1>4. ejsIndexProperties(p) = P(tt, sz, m, c)
  BY <1>2, <1>3 DEF ejsIndexProperties, P
<1> HIDE DEF wanted
<1>5. Links(tt, m, c, Hashed(ss)) /\ Relinked(ss, tt)
  <2> HIDE DEF m
  <2> QED BY <1>1, LinksFresh
<1> HIDE DEF m, tt, c
<1>6. LiveOf(tt) \subseteq Hashed(ss)
  BY <1>5, LiveHashed, RelinkedIs
<1>7. Hashes(tt, m, c)
  BY <1>5, <1>6 DEF Hashes
<1> QED BY <1>4, <1>5, <1>7 DEF p, Rehashed

\* The slots of a bucket are found by its chain.
LEMMA ChainOfIs ==
    ASSUME NEW ss, NEW sz, NEW n, NEW b, NEW H, Links(ss, n, b, H), NEW q, q.name \in Names
    PROVE  ChainOf(q, ss, [size |-> n, buckets |-> b]) = In(ss, n, H, whash[q.name] % n)
<1>1. whash[q.name] % n \in 0..(n - 1)
  BY Buckets DEF Links
<1>2. ChainOf(q, ss, [size |-> n, buckets |-> b]) = Chain(ss, b[whash[q.name] % n])
  BY DEF ChainOf, Index
<1> QED BY <1>1, <1>2, ChainIs

\* Slots that keep their names, values and attributes are relinked.
LEMMA RelinkedSelf == ASSUME NEW ss \in Seq(Slot) PROVE Relinked(ss, ss)
BY DEF Relinked, SameNames

\* Replacing one slot.
LEMMA WithIs ==
    ASSUME NEW ss \in Seq(Slot), NEW s \in 1..Len(ss), NEW x \in Slot
    PROVE  /\ With(ss, s, x) \in Seq(Slot) /\ Len(With(ss, s, x)) = Len(ss)
           /\ With(ss, s, x)[s] = x /\ \A t \in 1..Len(ss) : t # s => With(ss, s, x)[t] = ss[t]
<1>1. DOMAIN ss = 1..Len(ss) /\ Len(ss) \in Nat /\ \A t \in 1..Len(ss) : ss[t] \in Slot
  OBVIOUS
<1>2. With(ss, s, x) = [t \in 1..Len(ss) |-> IF t = s THEN x ELSE ss[t]]
  BY <1>1 DEF With
<1>3. With(ss, s, x) \in [1..Len(ss) -> Slot]
  BY <1>1, <1>2
<1> QED BY <1>1, <1>2, <1>3

\* The last of a bucket is the only one without a next.
LEMMA LastIs ==
    ASSUME NEW ss, NEW n, NEW b, NEW H, Links(ss, n, b, H), NEW i,
           NEW l \in In(ss, n, H, i), \A t \in In(ss, n, H, i) : t <= l
    PROVE  \A t \in In(ss, n, H, i) : ss[t].hashChain = 0 <=> t = l
<1>1. In(ss, n, H, i) \subseteq H /\ H \in SUBSET (Nat \ {0})
  BY LinksAre DEF In
<1> SUFFICES ASSUME NEW t \in In(ss, n, H, i) PROVE ss[t].hashChain = 0 <=> t = l
  OBVIOUS
<1>2. t \in H /\ l \in H /\ t \in Nat /\ l \in Nat /\ t <= l /\ Bucket(ss, n, t) = i /\ Bucket(ss, n, l) = i
  BY <1>1 DEF In
<1>3. ss[t].hashChain = First(Behind(ss, n, H, t)) /\ Behind(ss, n, H, t) \in SUBSET (Nat \ {0})
  <2>1. ss[t].hashChain = First(Behind(ss, n, H, t))
    BY <1>2 DEF Links
  <2> QED BY <2>1, LinksAre
<1>4. CASE t = l
  <2>1. Behind(ss, n, H, t) = {}
    <3> SUFFICES ASSUME NEW u \in H, u > l, Bucket(ss, n, u) = i PROVE FALSE
      BY <1>2, <1>4 DEF Behind
    <3>1. u \in In(ss, n, H, i) /\ u \in Nat
      BY <1>1 DEF In
    <3>2. u <= l
      BY <3>1
    <3> QED BY <1>2, <3>1, <3>2
  <2> QED BY <1>3, <1>4, <2>1, FirstNone
<1>5. CASE t # l
  <2>1. l \in Behind(ss, n, H, t)
    BY <1>2, <1>5 DEF Behind
  <2>2. Behind(ss, n, H, t) # {}
    BY <2>1
  <2>3. First(Behind(ss, n, H, t)) # 0
    BY <1>3, <2>2, FirstIs
  <2> QED BY <1>3, <1>5, <2>3
<1> QED BY <1>4, <1>5

\* This is the last slot, and it is in use
LastInUse(ss, k) == k \in Nat \ {0} /\ k = Len(ss) /\ ss[k].qname.name # Empty

\* All names in use but the last are linked, if there is a hash
HashesBut(ss, n, b, k) == n # 0 => \E H : Links(ss, n, b, H) /\ LiveOf(ss) \subseteq H \cup {k} /\ \A s \in H : s < k

\* hashProperty links the last slot.
LEMMA HashPropertyIs ==
    ASSUME NEW ss \in Seq(Slot), Distinct(ss), NEW k, LastInUse(ss, k), NEW sz, NEW n \in Nat, NEW b,
           n # 0 \/ Len(ss) > HashMin, HashesBut(ss, n, b, k)
    PROVE  Rehashed(ss, sz, hashProperty(P(ss, sz, n, b), k))
<1> SUFFICES \E tt, m, c : /\ hashProperty(P(ss, sz, n, b), k) = P(tt, sz, m, c)
                           /\ Relinked(ss, tt) /\ Hashes(tt, m, c)
  BY DEF Rehashed
<1> DEFINE p == P(ss, sz, n, b)
           q == ss[k].qname
           i == Bucket(ss, n, k)
<1>1. /\ p.slots = ss /\ p.size = sz /\ p.hash.size = n /\ p.hash.buckets = b
      /\ p.hash = [size |-> n, buckets |-> b]
  BY DEF P
<1>2. k \in Nat /\ k # 0 /\ k = Len(ss) /\ q.name # Empty /\ k \in 1..Len(ss) /\ ss[k] \in Slot /\ DOMAIN ss = 1..Len(ss)
  BY DEF LastInUse
<1>3. CASE n < Len(ss)
  <2>1. hashProperty(p, k) = ejsIndexProperties(p)
    BY <1>1, <1>3 DEF hashProperty
  <2>2. Rehashed(ss, sz, ejsIndexProperties(P(ss, sz, n, b)))
    BY IndexIs
  <2> QED BY <2>1, <2>2 DEF Rehashed
<1>4. CASE ~(n < Len(ss))
  <2>1. n # 0
    BY <1>2, <1>4
  <2>2. PICK H : Links(ss, n, b, H) /\ LiveOf(ss) \subseteq H \cup {k} /\ \A s \in H : s < k
    BY <2>1 DEF HashesBut
  <2> DEFINE chain == In(ss, n, H, i)
  <2>3. q.name \in Names
    BY <1>2 DEF Slot
  <2>4. i = whash[q.name] % n /\ i \in 0..(n - 1)
    <3>1. i \in 0..(n - 1)
      BY <1>2, <2>2, LinksAre
    <3> QED BY <3>1 DEF Bucket
  <2>5. Index(q, p.hash) = i
    BY <1>1, <2>4 DEF Index
  <2>6. ChainOf(q, ss, p.hash) = chain
    <3> HIDE DEF p, i, q
    <3>1. ChainOf(q, ss, [size |-> n, buckets |-> b]) = In(ss, n, H, whash[q.name] % n)
      BY <2>2, <2>3, ChainOfIs
    <3> QED BY <1>1, <2>4, <3>1
  <2>7. \A t \in chain : t \in H /\ t \in 1..Len(ss) /\ t < k
    BY <2>2, LinksAre DEF In
  <2>8. ~\E t \in chain : ss[t].qname = q
    <3> SUFFICES ASSUME NEW t \in chain, ss[t].qname = q PROVE FALSE
      OBVIOUS
    <3>1. t \in LiveOf(ss) /\ k \in LiveOf(ss) /\ t < k
      BY <1>2, <2>7 DEF LiveOf
    <3>2. t = k
      BY <3>1 DEF Distinct
    <3> QED BY <1>2, <3>1, <3>2
  <2> HIDE DEF p, q, i
  <2>9. p.slots[k].qname = q /\ ChainOf(q, p.slots, p.hash) = chain /\ ~(p.hash.size < Len(p.slots))
        /\ ~\E t \in ChainOf(q, p.slots, p.hash) : p.slots[t].qname = q
    <3> HIDE DEF chain
    <3> QED BY <1>1, <1>4, <2>6, <2>8 DEF q
  <2>10. CASE chain = {}
    <3> SUFFICES ASSUME NEW c, c = [b EXCEPT ![i] = k], NEW I, I = H \cup {k}
                 PROVE  \E tt, m, d : /\ hashProperty(p, k) = P(tt, sz, m, d)
                                      /\ Relinked(ss, tt) /\ Hashes(tt, m, d)
      BY DEF p
    <3>1. hashProperty(p, k) = P(ss, sz, n, c)
      <4>1. hashProperty(p, k) = [p EXCEPT !.hash.buckets[Index(q, p.hash)] = k]
        <5> HIDE DEF chain
        <5> QED BY <2>9, <2>10 DEF hashProperty
      <4>2. [P(ss, sz, n, b) EXCEPT !.hash.buckets[i] = k] = P(ss, sz, n, [b EXCEPT ![i] = k])
        BY DEF P
      <4>3. hashProperty(p, k) = [p EXCEPT !.hash.buckets[i] = k]
        BY <2>5, <4>1
      <4> QED BY <4>2, <4>3 DEF p
    <3>2. Links(ss, n, [b EXCEPT ![Bucket(ss, n, k)] = k], H \cup {k})
      <4>1. In(ss, n, H, Bucket(ss, n, k)) = {}
        BY <2>10 DEF i
      <4> QED BY <1>2, <2>2, <4>1, LinkHead
    <3>3. Links(ss, n, c, I)
      BY <3>2 DEF i
    <3>4. Hashes(ss, n, c)
      BY <2>2, <3>3 DEF Hashes
    <3> QED BY <3>1, <3>4, RelinkedSelf
  <2>11. CASE chain # {}
    <3>1. PICK l \in chain : \A t \in chain : t <= l
      <4>1. chain \in SUBSET (1..Len(ss)) /\ Len(ss) \in Nat
        BY <2>7
      <4> HIDE DEF chain
      <4> QED BY <2>11, <4>1, Most
    <3>2. \A t \in chain : ss[t].hashChain = 0 <=> t = l
      BY <2>2, <3>1, LastIs
    <3>3. (CHOOSE t \in chain : ss[t].hashChain = 0) = l
      <4> HIDE DEF chain
      <4> QED BY <3>1, <3>2
    <3> SUFFICES ASSUME NEW tt, tt = With(ss, l, Linked(ss[l], k)), NEW I, I = H \cup {k}
                 PROVE  \E uu, m, d : /\ hashProperty(p, k) = P(uu, sz, m, d)
                                      /\ Relinked(ss, uu) /\ Hashes(uu, m, d)
      BY DEF p
    <3>4. hashProperty(p, k) = P(tt, sz, n, b)
      <4>1. PICK last : last = CHOOSE t \in ChainOf(q, p.slots, p.hash) : p.slots[t].hashChain = 0
        OBVIOUS
      <4>2. hashProperty(p, k) = [p EXCEPT !.slots = With(p.slots, last, Linked(p.slots[last], k))]
        <5> HIDE DEF chain
        <5> QED BY <2>9, <2>11, <4>1 DEF hashProperty
      <4>3. last = l
        <5> HIDE DEF chain
        <5> QED BY <1>1, <2>9, <3>3, <4>1
      <4>4. hashProperty(p, k) = [p EXCEPT !.slots = tt]
        BY <1>1, <4>2, <4>3
      <4> QED BY <4>4, ObjectIs DEF p
    <3>5. l \in 1..Len(ss)
      BY <2>7, <3>1
    <3>6. /\ tt \in Seq(Slot) /\ SameNames(ss, tt) /\ Relinked(ss, tt)
          /\ \A s \in 1..Len(ss) : tt[s].hashChain = IF s = l THEN k ELSE ss[s].hashChain
      <4>1. ss[l] \in Slot /\ \A s \in 1..Len(ss) : ss[s] \in Slot
        BY <3>5
      <4>2. PICK x : x = ss[l]
        OBVIOUS
      <4>3. /\ Linked(x, k) \in Slot /\ Linked(x, k).hashChain = k /\ Linked(x, k).qname = x.qname
            /\ Linked(x, k).value = x.value /\ Linked(x, k).attributes = x.attributes
        BY <1>2, <4>1, <4>2, LinkedIs
      <4>4. PICK y : y = Linked(x, k)
        OBVIOUS
      <4>5. /\ tt \in Seq(Slot) /\ Len(tt) = Len(ss) /\ tt[l] = y
            /\ \A t \in 1..Len(ss) : t # l => tt[t] = ss[t]
        BY <3>5, <4>2, <4>3, <4>4, WithIs
      <4>6. SameNames(ss, tt)
        BY <4>2, <4>3, <4>4, <4>5 DEF SameNames
      <4>7. Relinked(ss, tt)
        BY <4>2, <4>3, <4>4, <4>5, <4>6 DEF Relinked
      <4> QED BY <4>2, <4>3, <4>4, <4>5, <4>6, <4>7
    <3>7. Links(tt, n, b, I)
      <4>1. l \in In(ss, n, H, Bucket(ss, n, k)) /\ \A t \in In(ss, n, H, Bucket(ss, n, k)) : t <= l
        BY <3>1 DEF i
      <4>2. Links(tt, n, b, H \cup {k})
        BY <1>2, <2>2, <3>6, <4>1, LinkLast
      <4> QED BY <4>2
    <3>8. LiveOf(tt) = LiveOf(ss)
      BY <3>6, RelinkedIs
    <3>9. Hashes(tt, n, b)
      BY <2>2, <3>7, <3>8 DEF Hashes
    <3> QED BY <3>4, <3>6, <3>9
  <2> QED BY <2>10, <2>11 DEF p
<1> QED BY <1>3, <1>4

-----------------------------------------------------------------------------
(***************************************************************************)
(* Adding and deleting properties.                                          *)
(***************************************************************************)

\* The quotient and the rest of a division.
LEMMA Division ==
    ASSUME NEW a \in Nat, NEW u \in Nat \ {0}
    PROVE  a = u * (a \div u) + (a % u) /\ a \div u \in Nat /\ a % u \in 0..(u - 1) /\ (a \div u) * u = u * (a \div u)
<1>1. a = u * (a \div u) + (a % u)
  OBVIOUS
<1>2. a \div u \in Nat /\ a % u \in 0..(u - 1)
  OBVIOUS
<1>3. (a \div u) * u = u * (a \div u)
  BY <1>2
<1> QED BY <1>1, <1>2, <1>3

\* Rounding up leaves space for all.
LEMMA RoundUpIs ==
    ASSUME NEW a \in Nat, NEW u \in Nat \ {0}
    PROVE  RoundUp(a, u) \in Nat /\ a <= RoundUp(a, u)
<1> SUFFICES ASSUME NEW x \in Nat, x = a + u - 1 PROVE (x \div u) * u \in Nat /\ a <= (x \div u) * u
  BY DEF RoundUp
<1>1. x = u * (x \div u) + (x % u) /\ x \div u \in Nat /\ x % u \in 0..(u - 1) /\ (x \div u) * u = u * (x \div u)
  BY Division
<1>2. (x \div u) * u \in Nat
  BY <1>1
<1> QED BY <1>1, <1>2

\* growSlots leaves space for the properties there will be.
LEMMA GrowIs ==
    ASSUME NEW old \in Nat, NEW n \in Nat
    PROVE  growSlots(old, n) \in Nat /\ n <= growSlots(old, n)
<1> DEFINE factor == IF old \div 4 > Round THEN old \div 4 ELSE Round
           more == IF n > Lots THEN ((n + factor) \div factor) * factor ELSE n
<1>1. Round \in Nat \ {0} /\ Lots \in Nat
  BY SizeAssumption
<1>2. factor \in Nat \ {0}
  BY <1>1
<1> HIDE DEF factor
<1>3. more \in Nat /\ n <= more
  <2> SUFFICES ASSUME NEW x \in Nat, x = n + factor
               PROVE  (x \div factor) * factor \in Nat /\ n <= (x \div factor) * factor
    BY <1>2
  <2>1. /\ x = factor * (x \div factor) + (x % factor) /\ x \div factor \in Nat /\ x % factor \in 0..(factor - 1)
        /\ (x \div factor) * factor = factor * (x \div factor)
    BY <1>2, Division
  <2>2. (x \div factor) * factor \in Nat
    BY <1>2, <2>1
  <2> QED BY <1>2, <2>1, <2>2
<1> HIDE DEF more
<1>4. RoundUp(more, Round) \in Nat /\ more <= RoundUp(more, Round)
  BY <1>1, <1>3, RoundUpIs
<1>5. growSlots(old, n) = IF n <= old THEN old ELSE RoundUp(more, Round)
  BY DEF growSlots, factor, more
<1> QED BY <1>3, <1>4, <1>5

QName == [space : Space, name : Names]

\* Names of properties, qualified or not, are names.
LEMMA NamesAre ==
    /\ \A q \in QNames : q \in QName /\ q.name \in Name
    /\ \A n \in Name : n \in Names /\ n # Empty
    /\ \A n \in Name, space \in Space : Q(space, n) \in QName
    /\ Empty \in Space /\ Empty \in Names /\ Null \in Value
<1>1. \A q \in QNames : q.space \in Space /\ q.name \in Name
  BY DEF Space, Name
<1>2. \A n \in Name : n \in Names /\ n # Empty
  BY NameAssumption DEF Names
<1>3. \A q \in QNames : q = [space |-> q.space, name |-> q.name]
  BY NameAssumption
<1>4. \A space \in Space, n \in Names : [space |-> space, name |-> n] \in QName
  BY DEF QName
<1>5. \A q \in QNames : q \in QName
  BY <1>1, <1>2, <1>3, <1>4
<1>6. Empty \in Space /\ Empty \in Names /\ Null \in Value
  BY NameAssumption DEF Space, Names
<1> QED BY <1>1, <1>2, <1>4, <1>5, <1>6 DEF Q

\* New and deleted slots are slots.
LEMMA NewSlots ==
    /\ \A q \in QName : /\ Named(q) \in Slot /\ Named(q).qname = q /\ Named(q).hashChain = 0
                        /\ Named(q).value = Null /\ Named(q).attributes = {}
    /\ DeletedSlot \in Slot /\ DeletedSlot.hashChain = 0 /\ DeletedSlot.qname.name = Empty
<1>1. Q(Empty, Empty) \in QName /\ Null \in Value /\ Q(Empty, Empty).name = Empty
  BY NamesAre DEF Q, QName
<1>2. ASSUME NEW q \in QName
      PROVE  /\ Named(q) \in Slot /\ Named(q).qname = q /\ Named(q).hashChain = 0
             /\ Named(q).value = Null /\ Named(q).attributes = {}
  <2>1. Named(q) = [qname |-> q, value |-> Null, attributes |-> {}, hashChain |-> 0]
    BY DEF Named, ZeroSlot
  <2> QED BY <1>1, <2>1 DEF Slot, QName
<1>3. DeletedSlot \in Slot /\ DeletedSlot.hashChain = 0 /\ DeletedSlot.qname.name = Empty
  <2>1. DeletedSlot = [qname |-> Q(Empty, Empty), value |-> Null, attributes |-> {"deleted"}, hashChain |-> 0]
    BY DEF DeletedSlot, ZeroSlot
  <2>2. {"deleted"} \in SUBSET Attributes
    BY DEF Attributes
  <2> QED BY <1>1, <2>1, <2>2 DEF Slot, QName
<1> QED BY <1>2, <1>3

\* A name that no property has
Absent(ss, q) == \A s \in LiveOf(ss) : ss[s].qname # q

\* What AddSlot makes of an object
Added(ss, q, p) ==
    \E tt, sz, m, c : /\ p = P(tt, sz, m, c) /\ sz \in Nat /\ Len(ss) + 1 <= sz
                      /\ Relinked(Append(ss, Named(q)), tt) /\ Hashes(tt, m, c) /\ Distinct(tt)

\* A property is added at the end.
LEMMA AppendIs ==
    ASSUME NEW ss \in Seq(Slot), Distinct(ss), NEW q \in QName, Absent(ss, q), q.name # Empty,
           NEW uu, uu = Append(ss, Named(q))
    PROVE  /\ uu \in Seq(Slot) /\ Len(uu) = Len(ss) + 1 /\ LiveOf(uu) = LiveOf(ss) \cup {Len(ss) + 1} /\ Distinct(uu)
           /\ uu[Len(ss) + 1] = Named(q) /\ (\A s \in 1..Len(ss) : uu[s] = ss[s])
<1>1. /\ uu \in Seq(Slot) /\ Len(uu) = Len(ss) + 1 /\ Len(ss) \in Nat
      /\ uu[Len(ss) + 1] = Named(q) /\ \A s \in 1..Len(ss) : uu[s] = ss[s]
  BY NewSlots, AppendProperties
<1>2. uu[Len(ss) + 1].qname = q
  BY <1>1, NewSlots
<1>3. LiveOf(uu) = LiveOf(ss) \cup {Len(ss) + 1}
  <2>1. DOMAIN uu = 1..Len(ss) \cup {Len(ss) + 1} /\ DOMAIN ss = 1..Len(ss)
    BY <1>1
  <2> QED BY <1>1, <1>2, <2>1 DEF LiveOf
<1>4. Distinct(uu)
  <2> SUFFICES ASSUME NEW s \in LiveOf(uu), NEW t \in LiveOf(uu), uu[s].qname = uu[t].qname PROVE s = t
    BY DEF Distinct
  <2>1. LiveOf(ss) \subseteq 1..Len(ss)
    BY DEF LiveOf
  <2>2. \A u \in LiveOf(ss) : uu[u].qname = ss[u].qname /\ uu[u].qname # q
    BY <1>1, <2>1 DEF Absent
  <2>3. s \in LiveOf(ss) <=> t \in LiveOf(ss)
    BY <1>2, <1>3, <2>2
  <2>4. CASE s \in LiveOf(ss)
    BY <2>2, <2>3, <2>4 DEF Distinct
  <2> QED BY <1>3, <2>3, <2>4
<1> QED BY <1>1, <1>3, <1>4

\* AddSlot makes a slot for a property that is absent.
LEMMA AddSlotIs ==
    ASSUME NEW ss, NEW sz, NEW n, NEW b, Good(ss, sz, n, b), NEW q \in QName, Absent(ss, q), q.name # Empty
    PROVE  Added(ss, q, AddSlot(P(ss, sz, n, b), q))
<1>1. ss \in Seq(Slot) /\ sz \in Nat /\ Distinct(ss) /\ Hashes(ss, n, b) /\ Len(ss) \in Nat
  BY DEF Good
<1>2. n \in Nat /\ HashMin \in Nat
  BY <1>1, SizeAssumption DEF Hashes, Links
<1> SUFFICES ASSUME NEW uu, Is(uu, Append(ss, Named(q))), NEW k, Is(k, Len(ss) + 1), NEW g, Is(g, growSlots(sz, k))
             PROVE  Added(ss, q, AddSlot(P(ss, sz, n, b), q))
  BY DEF Is
<1>a. uu = Append(ss, Named(q)) /\ k = Len(ss) + 1 /\ g = growSlots(sz, k)
  BY DEF Is
<1>3. /\ uu \in Seq(Slot) /\ Len(uu) = k /\ LiveOf(uu) = LiveOf(ss) \cup {k} /\ Distinct(uu)
      /\ uu[k] = Named(q) /\ \A s \in 1..Len(ss) : uu[s] = ss[s]
  BY <1>a, <1>1, AppendIs
<1>4. g \in Nat /\ k <= g /\ k \in Nat /\ k # 0
  <2>1. k \in Nat /\ k # 0
    BY <1>a, <1>1
  <2>2. growSlots(sz, k) \in Nat /\ k <= growSlots(sz, k)
    BY <1>1, <2>1, GrowIs
  <2> QED BY <1>a, <2>1, <2>2
<1>5. AddSlot(P(ss, sz, n, b), q) = IF n # 0 \/ k > HashMin THEN hashProperty(P(uu, g, n, b), k) ELSE P(uu, g, n, b)
  BY <1>a DEF AddSlot, P
<1>6. CASE n # 0 \/ k > HashMin
  <2>1. LastInUse(uu, k)
    <3>1. uu[k].qname = q
      BY <1>3, NewSlots
    <3> QED BY <1>3, <1>4, <3>1 DEF LastInUse
  <2>2. HashesBut(uu, n, b, k)
    <3> SUFFICES ASSUME n # 0 PROVE \E H : Links(uu, n, b, H) /\ LiveOf(uu) \subseteq H \cup {k} /\ \A s \in H : s < k
      BY DEF HashesBut
    <3>1. PICK H : Links(ss, n, b, H) /\ LiveOf(ss) \subseteq H
      BY <1>1 DEF Hashes
    <3>2. Links(uu, n, b, H)
      <4>1. Named(q) \in Slot /\ Named(q).hashChain = 0
        BY NewSlots
      <4>2. Links(Append(ss, Named(q)), n, b, H)
        BY <3>1, <4>1, LinksAppend
      <4> QED BY <1>a, <4>2
    <3>3. \A s \in H : s < k
      <4>1. H \subseteq 1..Len(ss)
        BY <3>1 DEF Links
      <4> QED BY <1>a, <1>1, <4>1
    <3> QED BY <1>3, <3>1, <3>2, <3>3
  <2>3. n # 0 \/ Len(uu) > HashMin
    BY <1>3, <1>6
  <2>4. PICK tt, m, c : hashProperty(P(uu, g, n, b), k) = P(tt, g, m, c) /\ Relinked(uu, tt) /\ Hashes(tt, m, c)
    <3>1. uu \in Seq(Slot) /\ Distinct(uu) /\ n \in Nat
      BY <1>2, <1>3
    <3>2. Rehashed(uu, g, hashProperty(P(uu, g, n, b), k))
      BY <2>1, <2>2, <2>3, <3>1, HashPropertyIs
    <3> QED BY <3>2 DEF Rehashed
  <2>5. Distinct(tt)
    BY <1>3, <2>4, RelinkedIs
  <2> QED BY <1>a, <1>4, <1>5, <1>6, <2>4, <2>5 DEF Added
<1>7. CASE ~(n # 0 \/ k > HashMin)
  <2>1. Hashes(uu, n, b)
    <3>1. n = 0 /\ b = <<>> /\ \A s \in 1..Len(ss) : ss[s].hashChain = 0
      BY <1>1, <1>7 DEF Hashes, Links
    <3>2. \A s \in 1..Len(uu) : s = k \/ s \in 1..Len(ss)
      BY <1>a, <1>1, <1>3
    <3>3. \A s \in 1..Len(uu) : uu[s].hashChain = 0
      BY <1>3, <3>1, <3>2, NewSlots
    <3> QED BY <3>1, <3>3 DEF Hashes
  <2>2. AddSlot(P(ss, sz, n, b), q) = P(uu, g, n, b)
    BY <1>5, <1>7
  <2>3. Relinked(uu, uu)
    BY <1>3, RelinkedSelf
  <2> QED BY <1>a, <1>3, <1>4, <2>1, <2>2, <2>3 DEF Added
<1> QED BY <1>6, <1>7

\* One slot is deleted, and the others keep their names, values and attributes
Erased(ss, tt, k) ==
    /\ tt \in Seq(Slot) /\ Len(tt) = Len(ss) /\ tt[k] = DeletedSlot
    /\ \A s \in 1..Len(ss) : s # k =>
        tt[s].qname = ss[s].qname /\ tt[s].value = ss[s].value /\ tt[s].attributes = ss[s].attributes

\* The name of a deleted slot is not in use.
LEMMA ErasedIs ==
    ASSUME NEW ss \in Seq(Slot), NEW k \in 1..Len(ss), NEW tt, Erased(ss, tt, k)
    PROVE  LiveOf(tt) = LiveOf(ss) \ {k} /\ (Distinct(ss) => Distinct(tt))
<1>1. /\ tt \in Seq(Slot) /\ Len(tt) = Len(ss) /\ DOMAIN tt = 1..Len(ss) /\ DOMAIN ss = 1..Len(ss)
      /\ tt[k].qname.name = Empty /\ \A s \in 1..Len(ss) : s # k => tt[s].qname = ss[s].qname
  BY NewSlots DEF Erased
<1>2. LiveOf(tt) = LiveOf(ss) \ {k} /\ LiveOf(ss) \subseteq 1..Len(ss)
  BY <1>1 DEF LiveOf
<1>3. \A s \in LiveOf(tt) : s \in LiveOf(ss) /\ tt[s].qname = ss[s].qname
  BY <1>1, <1>2
<1> QED BY <1>2, <1>3 DEF Distinct

\* deletePotProperty unlinks a slot.
LEMMA DeleteIs ==
    ASSUME NEW ss, NEW sz, NEW n, NEW b, Good(ss, sz, n, b), NEW k \in LiveOf(ss)
    PROVE  \E tt, c : /\ deletePotProperty(P(ss, sz, n, b), k) = P(tt, sz, n, c)
                      /\ Erased(ss, tt, k) /\ Hashes(tt, n, c)
<1>1. /\ ss \in Seq(Slot) /\ sz \in Nat /\ Distinct(ss) /\ Hashes(ss, n, b) /\ Len(ss) \in Nat
      /\ DOMAIN ss = 1..Len(ss) /\ k \in 1..Len(ss) /\ \A s \in 1..Len(ss) : ss[s] \in Slot
  BY DEF Good, LiveOf
<1>2. CASE n = 0
  <2> SUFFICES ASSUME NEW tt, tt = With(ss, k, DeletedSlot)
               PROVE  \E uu, c : /\ deletePotProperty(P(ss, sz, n, b), k) = P(uu, sz, n, c)
                                 /\ Erased(ss, uu, k) /\ Hashes(uu, n, c)
    OBVIOUS
  <2>1. removeHashEntry(P(ss, sz, n, b), k) = P(ss, sz, n, b)
    BY <1>2 DEF removeHashEntry, P
  <2>2. deletePotProperty(P(ss, sz, n, b), k) = P(tt, sz, n, b)
    <3>1. P(ss, sz, n, b).slots = ss
      BY ObjectIs
    <3>2. deletePotProperty(P(ss, sz, n, b), k) = [P(ss, sz, n, b) EXCEPT !.slots = tt]
      BY <2>1, <3>1 DEF deletePotProperty
    <3> QED BY <3>2, ObjectIs
  <2>3. tt \in Seq(Slot) /\ Len(tt) = Len(ss) /\ tt[k] = DeletedSlot /\ \A s \in 1..Len(ss) : s # k => tt[s] = ss[s]
    <3>1. DeletedSlot \in Slot
      BY NewSlots
    <3> QED BY <1>1, <3>1, WithIs
  <2>4. Erased(ss, tt, k)
    BY <2>3 DEF Erased
  <2>5. Hashes(tt, n, b)
    <3>1. b = <<>> /\ \A s \in 1..Len(ss) : ss[s].hashChain = 0
      BY <1>1, <1>2 DEF Hashes, Links
    <3>2. \A s \in 1..Len(tt) : tt[s].hashChain = 0
      BY <2>3, <3>1, NewSlots
    <3> QED BY <1>2, <3>1, <3>2 DEF Hashes
  <2> QED BY <2>2, <2>4, <2>5
<1>3. CASE n # 0
  <2>1. PICK H : Links(ss, n, b, H) /\ LiveOf(ss) \subseteq H
    BY <1>1, <1>3 DEF Hashes
  <2> DEFINE Next1(s) == IF ss[s].hashChain = k THEN Linked(ss[s], ss[k].hashChain) ELSE ss[s]
  <2> SUFFICES ASSUME NEW i, Is(i, Bucket(ss, n, k)), NEW uu, Is(uu, [s \in 1..Len(ss) |-> Next1(s)]),
                      NEW tt, Is(tt, With(uu, k, DeletedSlot)),
                      NEW c, Is(c, [b EXCEPT ![i] = IF @ = k THEN ss[k].hashChain ELSE @])
               PROVE  \E vv, d : /\ deletePotProperty(P(ss, sz, n, b), k) = P(vv, sz, n, d)
                                 /\ Erased(ss, vv, k) /\ Hashes(vv, n, d)
    BY DEF Is
  <2>a. /\ i = Bucket(ss, n, k) /\ uu = [s \in 1..Len(ss) |-> Next1(s)] /\ tt = With(uu, k, DeletedSlot)
        /\ c = [b EXCEPT ![i] = IF @ = k THEN ss[k].hashChain ELSE @]
    BY DEF Is
  <2>2. removeHashEntry(P(ss, sz, n, b), k) = P(uu, sz, n, c)
    <3>1. Index(ss[k].qname, [size |-> n, buckets |-> b]) = i
      BY <2>a DEF Index, Bucket
    <3>2. Unlinked(ss, k) = uu
      BY <1>1, <2>a DEF Unlinked
    <3> HIDE DEF Next1
    <3>3. removeHashEntry(P(ss, sz, n, b), k) = [slots |-> Unlinked(ss, k), size |-> sz, hash |-> [size |-> n, buckets |-> c]]
      BY <1>3, <2>a, <3>1 DEF removeHashEntry, P
    <3> QED BY <3>2, <3>3 DEF P
  <2>3. deletePotProperty(P(ss, sz, n, b), k) = P(tt, sz, n, c)
    <3>1. P(uu, sz, n, c).slots = uu
      BY ObjectIs
    <3>2. deletePotProperty(P(ss, sz, n, b), k) = [P(uu, sz, n, c) EXCEPT !.slots = tt]
      BY <2>2, <2>a, <3>1 DEF deletePotProperty
    <3>3. [P(uu, sz, n, c) EXCEPT !.slots = tt] = P(tt, sz, n, c)
      BY DEF P
    <3> QED BY <3>2, <3>3
  <2>4. ASSUME NEW s \in 1..Len(ss)
        PROVE  /\ Next1(s) \in Slot /\ Next1(s).qname = ss[s].qname /\ Next1(s).value = ss[s].value
               /\ Next1(s).attributes = ss[s].attributes
               /\ Next1(s).hashChain = IF ss[s].hashChain = k THEN ss[k].hashChain ELSE ss[s].hashChain
    <3>1. PICK x : x = ss[s]
      OBVIOUS
    <3>2. PICK l : l = ss[k].hashChain
      OBVIOUS
    <3>3. x \in Slot /\ l \in Nat
      BY <1>1, <2>1, <3>1, <3>2, LinksAre
    <3>4. /\ Linked(x, l) \in Slot /\ Linked(x, l).hashChain = l /\ Linked(x, l).qname = x.qname
          /\ Linked(x, l).value = x.value /\ Linked(x, l).attributes = x.attributes
      BY <3>3, LinkedIs
    <3>5. Next1(s) = IF x.hashChain = k THEN Linked(x, l) ELSE x
      BY <3>1, <3>2
    <3> HIDE DEF Next1
    <3>6. CASE x.hashChain = k
      BY <3>1, <3>2, <3>4, <3>5, <3>6
    <3>7. CASE x.hashChain # k
      BY <3>1, <3>3, <3>5, <3>7
    <3> QED BY <3>6, <3>7
  <2> HIDE DEF Next1
  <2>5. uu \in Seq(Slot) /\ Len(uu) = Len(ss) /\ \A s \in 1..Len(ss) : uu[s] = Next1(s)
    <3>1. uu \in [1..Len(ss) -> Slot]
      BY <2>a, <2>4
    <3> QED BY <1>1, <2>a, <3>1
  <2>6. tt \in Seq(Slot) /\ Len(tt) = Len(ss) /\ tt[k] = DeletedSlot /\ \A s \in 1..Len(ss) : s # k => tt[s] = Next1(s)
    <3>1. /\ tt \in Seq(Slot) /\ Len(tt) = Len(uu) /\ tt[k] = DeletedSlot
          /\ \A s \in 1..Len(uu) : s # k => tt[s] = uu[s]
      <4>1. DeletedSlot \in Slot /\ k \in 1..Len(uu)
        BY <1>1, <2>5, NewSlots
      <4>2. tt = With(uu, k, DeletedSlot) /\ uu \in Seq(Slot)
        BY <2>a, <2>5
      <4> QED BY <4>1, <4>2, WithIs
    <3> QED BY <2>5, <3>1
  <2>7. Erased(ss, tt, k)
    BY <2>4, <2>6 DEF Erased
  <2>8. Links(tt, n, c, H \ {k})
    <3>1. tt[k].hashChain = 0
      BY <2>6, NewSlots
    <3>2. \A s \in 1..Len(ss) : s # k =>
               /\ tt[s].qname = ss[s].qname
               /\ tt[s].hashChain = IF ss[s].hashChain = k THEN ss[k].hashChain ELSE ss[s].hashChain
      BY <2>4, <2>6
    <3>3. k \in H /\ c = [b EXCEPT ![Bucket(ss, n, k)] = IF @ = k THEN ss[k].hashChain ELSE @]
      BY <2>a, <2>1
    <3>4. tt \in Seq(Slot) /\ Len(tt) = Len(ss) /\ Links(ss, n, b, H)
      BY <2>1, <2>6
    <3> QED BY <3>1, <3>2, <3>3, <3>4, Unlink
  <2>9. LiveOf(tt) \subseteq H \ {k}
    BY <1>1, <2>1, <2>7, ErasedIs
  <2>10. Hashes(tt, n, c)
    BY <2>8, <2>9 DEF Hashes
  <2> QED BY <2>3, <2>7, <2>10
<1> QED BY <1>2, <1>3

\* Slots that keep their names and chains are found as before.
LEMMA HashesStay ==
    ASSUME NEW ss \in Seq(Slot), NEW tt \in Seq(Slot), SameNames(ss, tt), NEW n, NEW b,
           \A s \in 1..Len(ss) : tt[s].hashChain = ss[s].hashChain
    PROVE  /\ Hashes(ss, n, b) => Hashes(tt, n, b)
           /\ LiveOf(tt) = LiveOf(ss) /\ (Distinct(ss) => Distinct(tt))
<1>1. Len(tt) = Len(ss) /\ DOMAIN tt = 1..Len(ss) /\ DOMAIN ss = 1..Len(ss) /\ \A s \in 1..Len(ss) : tt[s].qname = ss[s].qname
  BY DEF SameNames
<1>2. LiveOf(tt) = LiveOf(ss) /\ LiveOf(ss) \subseteq 1..Len(ss)
  BY <1>1 DEF LiveOf
<1>3. Distinct(ss) => Distinct(tt)
  BY <1>1, <1>2 DEF Distinct
<1>4. ASSUME Hashes(ss, n, b) PROVE Hashes(tt, n, b)
  <2>1. CASE n = 0 /\ b = <<>> /\ \A s \in 1..Len(ss) : ss[s].hashChain = 0
    BY <1>1, <2>1 DEF Hashes
  <2>2. ASSUME NEW H, Links(ss, n, b, H) /\ LiveOf(ss) \subseteq H PROVE Hashes(tt, n, b)
    <3>1. Links(tt, n, b, H)
      BY <2>2, LinksStay
    <3> QED BY <1>2, <2>2, <3>1 DEF Hashes
  <2> QED BY <1>4, <2>1, <2>2 DEF Hashes
<1> QED BY <1>2, <1>3, <1>4

-----------------------------------------------------------------------------
(***************************************************************************)
(* Lookup.                                                                  *)
(***************************************************************************)

\* The names in use
NamesOf(ss) == {ss[s].qname : s \in LiveOf(ss)}

\* What a lookup of a qualified name finds
Finds(ss, q, f) ==
    \/ f = 0 /\ q \notin NamesOf(ss)
    \/ f \in LiveOf(ss) /\ ss[f].qname = q /\ q \in NamesOf(ss)

\* The slots of a name that is in use are passed by a walk along its chain, and no other
\* slots with that name.
LEMMA SlotsAre ==
    ASSUME NEW ss, NEW sz, NEW n, NEW b, Good(ss, sz, n, b), NEW q, q.name \in Name
    PROVE  {s \in Slots(P(ss, sz, n, b), q) : ss[s].qname.name = q.name} = {s \in LiveOf(ss) : ss[s].qname.name = q.name}
<1>1. /\ ss \in Seq(Slot) /\ Hashes(ss, n, b) /\ DOMAIN ss = 1..Len(ss) /\ q.name \in Names /\ q.name # Empty
      /\ LiveOf(ss) \subseteq 1..Len(ss)
  BY NamesAre DEF Good, LiveOf
<1>2. CASE n = 0
  <2>1. Slots(P(ss, sz, n, b), q) = DOMAIN ss
    BY <1>2 DEF Slots, P
  <2> QED BY <1>1, <2>1 DEF LiveOf
<1>3. CASE n # 0
  <2>1. PICK H : Links(ss, n, b, H) /\ LiveOf(ss) \subseteq H
    BY <1>1, <1>3 DEF Hashes
  <2>2. Slots(P(ss, sz, n, b), q) = ChainOf(q, ss, [size |-> n, buckets |-> b])
    BY <1>3 DEF Slots, P
  <2>3. Slots(P(ss, sz, n, b), q) = In(ss, n, H, whash[q.name] % n)
    <3>1. ChainOf(q, ss, [size |-> n, buckets |-> b]) = In(ss, n, H, whash[q.name] % n)
      BY <1>1, <2>1, ChainOfIs
    <3> QED BY <2>2, <3>1
  <2>4. H \subseteq 1..Len(ss)
    BY <2>1 DEF Links
  <2>5. \A s \in H : ss[s].qname.name = q.name => s \in In(ss, n, H, whash[q.name] % n) /\ s \in LiveOf(ss)
    BY <1>1, <2>4 DEF In, Bucket, LiveOf
  <2>6. In(ss, n, H, whash[q.name] % n) \subseteq H
    BY DEF In
  <2> QED BY <2>1, <2>3, <2>5, <2>6
<1> QED BY <1>2, <1>3

\* A lookup finds the property of that name, or none if there is none.
LEMMA FoundIs ==
    ASSUME NEW ss, NEW sz, NEW n, NEW b, Good(ss, sz, n, b), NEW q, q.name \in Name
    PROVE  Finds(ss, q, ejsLookupPotProperty(P(ss, sz, n, b), q))
<1> DEFINE S == {s \in Slots(P(ss, sz, n, b), q) : ss[s].qname = q}
           f == ejsLookupPotProperty(P(ss, sz, n, b), q)
<1>1. ss \in Seq(Slot) /\ Distinct(ss) /\ DOMAIN ss = 1..Len(ss) /\ Len(ss) \in Nat
  BY DEF Good
<1>2. S = {s \in LiveOf(ss) : ss[s].qname = q}
  <2>1. {s \in Slots(P(ss, sz, n, b), q) : ss[s].qname.name = q.name} = {s \in LiveOf(ss) : ss[s].qname.name = q.name}
    BY SlotsAre
  <2> QED BY <2>1
<1>3. f = First(S)
  BY DEF ejsLookupPotProperty, P
<1>4. S \in SUBSET (Nat \ {0}) /\ S \subseteq LiveOf(ss)
  <2>1. LiveOf(ss) \subseteq 1..Len(ss) /\ 1..Len(ss) \subseteq Nat \ {0}
    BY <1>1 DEF LiveOf
  <2> QED BY <1>2, <2>1
<1>5. S = {} <=> q \notin NamesOf(ss)
  BY <1>2 DEF NamesOf
<1>6. \A s \in S : ss[s].qname = q
  BY <1>2
<1> HIDE DEF S, f
<1>7. CASE S = {}
  BY <1>3, <1>5, <1>7, FirstNone DEF Finds, f
<1>8. CASE S # {}
  <2>1. f \in S
    BY <1>3, <1>4, <1>8, FirstIs
  <2> QED BY <1>4, <1>5, <1>6, <1>8, <2>1 DEF Finds, f
<1> QED BY <1>7, <1>8

\* What a lookup of a name without a namespace finds
FindsOnly(ss, name, u) ==
    \/ u = 0 /\ ~\E q \in NamesOf(ss) : {p \in NamesOf(ss) : p.name = name} = {q}
    \/ u \in LiveOf(ss) /\ {p \in NamesOf(ss) : p.name = name} = {ss[u].qname}

\* A lookup without a namespace finds the only property of a name.
LEMMA OnlyIs ==
    ASSUME NEW ss, NEW sz, NEW n, NEW b, Good(ss, sz, n, b), NEW name \in Name
    PROVE  FindsOnly(ss, name, lookupUnique(P(ss, sz, n, b), name))
<1> DEFINE S == {s \in Slots(P(ss, sz, n, b), Q(Empty, name)) : ss[s].qname.name = name}
           D == {p \in NamesOf(ss) : p.name = name}
           u == lookupUnique(P(ss, sz, n, b), name)
<1>1. ss \in Seq(Slot) /\ Distinct(ss) /\ DOMAIN ss = 1..Len(ss) /\ Len(ss) \in Nat
  BY DEF Good
<1>2. S = {s \in LiveOf(ss) : ss[s].qname.name = name}
  <2>1. PICK q : q = Q(Empty, name)
    OBVIOUS
  <2>2. q.name = name
    BY <2>1 DEF Q
  <2>3. {s \in Slots(P(ss, sz, n, b), q) : ss[s].qname.name = q.name} = {s \in LiveOf(ss) : ss[s].qname.name = q.name}
    BY <2>2, SlotsAre
  <2> QED BY <2>1, <2>2, <2>3
<1>3. u = IF \E s \in S : S = {s} THEN First(S) ELSE 0
  BY DEF lookupUnique, P
<1>4. S \in SUBSET (Nat \ {0}) /\ S \subseteq LiveOf(ss)
  <2>1. LiveOf(ss) \subseteq 1..Len(ss) /\ 1..Len(ss) \subseteq Nat \ {0}
    BY <1>1 DEF LiveOf
  <2> QED BY <1>2, <2>1
<1>5. D = {ss[s].qname : s \in S}
  BY <1>2 DEF NamesOf
<1>7. D \subseteq NamesOf(ss)
  OBVIOUS
<1> HIDE DEF S, D, u
<1>6. \A s, t \in S : ss[s].qname = ss[t].qname => s = t
  <2>1. \A s, t \in LiveOf(ss) : ss[s].qname = ss[t].qname => s = t
    BY <1>1 DEF Distinct
  <2> QED BY <1>4, <2>1
<1>8. CASE \E s \in S : S = {s}
  <2>1. PICK s \in S : S = {s}
    BY <1>8
  <2>2. First(S) = s
    <3>1. s \in Nat \ {0}
      BY <1>4
    <3> QED BY <2>1, <3>1, FirstOne
  <2>3. D = {ss[s].qname}
    BY <1>5, <2>1
  <2> QED BY <1>3, <1>4, <1>8, <2>1, <2>2, <2>3 DEF FindsOnly, D, u
<1>9. CASE ~\E s \in S : S = {s}
  <2>1. ~\E q \in NamesOf(ss) : D = {q}
    <3> SUFFICES ASSUME NEW q \in NamesOf(ss), D = {q} PROVE FALSE
      OBVIOUS
    <3>1. PICK s \in S : ss[s].qname = q
      BY <1>5
    <3>2. \A t \in S : t = s
      BY <1>5, <1>6, <3>1
    <3> QED BY <1>9, <3>2
  <2> QED BY <1>3, <1>9, <2>1 DEF FindsOnly, D, u
<1> QED BY <1>8, <1>9

\* The names that a name without a namespace stands for, of those there are
Seen(D, name) ==
    IF \E q \in {p \in D : p.name = name} : {p \in D : p.name = name} = {q}
    THEN {q \in {p \in D : p.name = name} : q.space \in Opens \cup {Empty}}
    ELSE {q \in {p \in D : p.name = name} : \E i \in DOMAIN OpenSpaces :
             q.space = OpenSpaces[i] /\ \A j \in 1..(i - 1) : Q(OpenSpaces[j], name) \notin D}

\* What ejsLookupVarWithNamespaces finds
Sees(ss, name, s) ==
    \/ s = 0 /\ Seen(NamesOf(ss), name) = {} /\ Q(Empty, name) \notin NamesOf(ss)
    \/ s \in LiveOf(ss) /\ Seen(NamesOf(ss), name) = {ss[s].qname}

\* Names in use have a space and a name.
LEMMA NamesOfAre ==
    ASSUME NEW ss \in Seq(Slot)
    PROVE  \A q \in NamesOf(ss) : q = Q(q.space, q.name) /\ q.name \in Name
<1>1. \A s \in LiveOf(ss) : s \in 1..Len(ss) /\ ss[s] \in Slot /\ ss[s].qname.name # Empty
  BY DEF LiveOf
<1>2. \A s \in LiveOf(ss) : ss[s].qname \in QName /\ ss[s].qname.name # Empty
  BY <1>1 DEF Slot, QName
<1>3. \A q \in QName : q = Q(q.space, q.name) /\ q.name \in Names
  BY DEF QName, Q
<1> QED BY <1>2, <1>3 DEF NamesOf, Names

\* The only property of a name is found if its namespace is open, and else the first in
\* the order of the open namespaces.
LEMMA ByNameIs ==
    ASSUME NEW ss, NEW sz, NEW n, NEW b, Good(ss, sz, n, b), NEW name \in Name
    PROVE  Sees(ss, name, ejsLookupVarWithNamespaces(P(ss, sz, n, b), name))
<1> DEFINE D == NamesOf(ss)
           M == {p \in D : p.name = name}
           only == lookupUnique(P(ss, sz, n, b), name)
           at(i) == ejsLookupPotProperty(P(ss, sz, n, b), Q(OpenSpaces[i], name))
           I == {i \in DOMAIN OpenSpaces : at(i) # 0}
           r == ejsLookupVarWithNamespaces(P(ss, sz, n, b), name)
<1>1. ss \in Seq(Slot) /\ LiveOf(ss) \subseteq 1..Len(ss) /\ Len(ss) \in Nat /\ 0 \notin LiveOf(ss)
  BY DEF Good, LiveOf
<1>2. FindsOnly(ss, name, only)
  BY OnlyIs
<1>3. \A i \in DOMAIN OpenSpaces : Finds(ss, Q(OpenSpaces[i], name), at(i))
  <2>1. \A i \in DOMAIN OpenSpaces : Q(OpenSpaces[i], name).name = name
    BY DEF Q
  <2> QED BY <2>1, FoundIs
<1>4. I \in SUBSET (Nat \ {0}) /\ I \subseteq DOMAIN OpenSpaces
  <2>1. DOMAIN OpenSpaces \subseteq Nat \ {0}
    BY NameAssumption
  <2> QED BY <2>1
<1>5. r = IF only # 0 THEN (IF ss[only].qname.space \in Opens \cup {Empty} THEN only ELSE 0)
          ELSE IF First(I) = 0 THEN 0 ELSE at(First(I))
  BY DEF ejsLookupVarWithNamespaces, P
<1>6. \A i \in DOMAIN OpenSpaces : i \in I <=> Q(OpenSpaces[i], name) \in D
  <2>1. \A i \in DOMAIN OpenSpaces : at(i) # 0 <=> Q(OpenSpaces[i], name) \in D
    BY <1>1, <1>3 DEF Finds
  <2> QED BY <2>1
<1>7. \A q \in M : q = Q(q.space, name)
  BY <1>1, NamesOfAre
<1>8. Seen(D, name) = IF \E q \in M : M = {q} THEN {q \in M : q.space \in Opens \cup {Empty}}
                      ELSE {q \in M : \E i \in DOMAIN OpenSpaces :
                               q.space = OpenSpaces[i] /\ \A j \in 1..(i - 1) : Q(OpenSpaces[j], name) \notin D}
  BY DEF Seen
<1>9. Q(Empty, name) \in D => Q(Empty, name) \in M /\ Q(Empty, name).space = Empty
  BY DEF Q
<1>10. PICK e \in DOMAIN OpenSpaces : OpenSpaces[e] = Empty
  BY NameAssumption DEF Opens
<1>11. M \subseteq D
  OBVIOUS
<1>12. \/ only = 0 /\ ~\E q \in D : M = {q}
       \/ only \in LiveOf(ss) /\ M = {ss[only].qname}
  <2> HIDE DEF only
  <2> QED BY <1>2, Zenon DEF FindsOnly
<1> HIDE DEF M, only, at, I, r, D
<1>13. CASE only # 0
  <2>1. only \in LiveOf(ss) /\ M = {ss[only].qname}
    BY <1>12, <1>13
  <2>2. Seen(D, name) = IF ss[only].qname.space \in Opens \cup {Empty} THEN {ss[only].qname} ELSE {}
    BY <1>8, <2>1
  <2>3. Q(Empty, name) \in D => ss[only].qname.space = Empty
    BY <1>9, <2>1
  <2> QED BY <1>5, <1>13, <2>1, <2>2, <2>3 DEF Sees, D, r
<1>14. CASE only = 0
  <2>1. ~\E q \in M : M = {q}
    BY <1>1, <1>11, <1>12, <1>14
  <2>2. Seen(D, name) = {q \in M : \E i \in DOMAIN OpenSpaces :
                               q.space = OpenSpaces[i] /\ \A j \in 1..(i - 1) : Q(OpenSpaces[j], name) \notin D}
    BY <1>8, <2>1
  <2>3. CASE I = {}
    <3>1. r = 0
      BY <1>5, <1>14, <2>3, FirstNone
    <3>2. \A i \in DOMAIN OpenSpaces : Q(OpenSpaces[i], name) \notin D
      BY <1>6, <2>3
    <3>3. Seen(D, name) = {}
      BY <1>7, <1>11, <2>2, <3>2
    <3>4. Q(Empty, name) \notin D
      BY <1>10, <3>2
    <3> QED BY <3>1, <3>3, <3>4 DEF Sees, D, r
  <2>4. CASE I # {}
    <3>1. PICK m : m = First(I)
      OBVIOUS
    <3>2. m \in I /\ (\A t \in I : m <= t) /\ m # 0 /\ m \in DOMAIN OpenSpaces /\ m \in Nat
      <4>1. First(I) \in I /\ \A t \in I : First(I) <= t
        BY <1>4, <2>4, FirstIs
      <4> QED BY <1>4, <3>1, <4>1
    <3>3. r = at(m)
      BY <1>5, <1>14, <3>1, <3>2
    <3>4. Q(OpenSpaces[m], name) \in D /\ at(m) \in LiveOf(ss) /\ ss[at(m)].qname = Q(OpenSpaces[m], name)
      <4>1. Q(OpenSpaces[m], name) \in D
        BY <1>6, <3>2
      <4> QED BY <1>3, <3>2, <4>1 DEF Finds, D
    <3>5. \A j \in 1..(m - 1) : Q(OpenSpaces[j], name) \notin D
      <4> SUFFICES ASSUME NEW j \in 1..(m - 1), Q(OpenSpaces[j], name) \in D PROVE FALSE
        OBVIOUS
      <4>1. j \in DOMAIN OpenSpaces /\ j < m /\ j \in Nat
        <5>1. DOMAIN OpenSpaces = 1..Len(OpenSpaces) /\ Len(OpenSpaces) \in Nat
          BY NameAssumption
        <5> QED BY <3>2, <5>1
      <4>2. m <= j
        BY <1>6, <3>2, <4>1
      <4> QED BY <3>2, <4>1, <4>2
    <3>6. PICK q : q = Q(OpenSpaces[m], name)
      OBVIOUS
    <3>7. q \in M /\ q.space = OpenSpaces[m]
      BY <3>4, <3>6 DEF M, Q
    <3>8. q \in Seen(D, name)
      BY <2>2, <3>2, <3>5, <3>7
    <3>9. ASSUME NEW p \in Seen(D, name) PROVE p = q
      <4>1. PICK i \in DOMAIN OpenSpaces :
                p.space = OpenSpaces[i] /\ \A j \in 1..(i - 1) : Q(OpenSpaces[j], name) \notin D
        BY <2>2, <3>9
      <4>2. p \in M /\ p = Q(OpenSpaces[i], name)
        BY <1>7, <2>2, <4>1
      <4>3. i \in I /\ i \in Nat /\ m <= i
        BY <1>4, <1>6, <1>11, <3>2, <4>2
      <4>4. ~(m < i)
        <5>1. m < i => m \in 1..(i - 1)
          BY <3>2, <4>3
        <5> QED BY <3>4, <4>1, <5>1
      <4>5. i = m
        BY <3>2, <4>3, <4>4
      <4> QED BY <3>6, <4>2, <4>5
    <3>10. Seen(D, name) = {q}
      BY <3>8, <3>9
    <3>11. r \in LiveOf(ss) /\ ss[r].qname = q
      BY <3>3, <3>4, <3>6
    <3> QED BY <3>10, <3>11 DEF Sees, D, r
  <2> QED BY <2>3, <2>4
<1> QED BY <1>13, <1>14

-----------------------------------------------------------------------------
(***************************************************************************)
(* The map that an object is.                                               *)
(***************************************************************************)
Prop(slot) == [value |-> slot.value, attributes |-> slot.attributes]

\* What a map of the properties in use is
Maps(ss, f) ==
    /\ f = [q \in NamesOf(ss) |-> f[q]]
    /\ \A s \in LiveOf(ss) : f[ss[s].qname] = Prop(ss[s])

\* The properties in use are a map.
LEMMA PropsAre ==
    ASSUME NEW ss, Distinct(ss)
    PROVE  Maps(ss, PropsOf(ss)) /\ DOMAIN PropsOf(ss) = NamesOf(ss)
<1>1. PropsOf(ss) = [q \in NamesOf(ss) |-> Prop(ss[CHOOSE s \in LiveOf(ss) : ss[s].qname = q])]
  BY DEF PropsOf, NamesOf, Prop
<1>2. ASSUME NEW s \in LiveOf(ss) PROVE PropsOf(ss)[ss[s].qname] = Prop(ss[s])
  <2>1. PICK q : q = ss[s].qname
    OBVIOUS
  <2>2. q \in NamesOf(ss)
    BY <2>1 DEF NamesOf
  <2>3. PICK t : t = CHOOSE u \in LiveOf(ss) : ss[u].qname = q
    OBVIOUS
  <2>4. t \in LiveOf(ss) /\ ss[t].qname = q
    BY <2>1, <2>3
  <2>5. t = s
    BY <2>1, <2>4 DEF Distinct
  <2>6. PropsOf(ss)[q] = Prop(ss[t])
    BY <1>1, <2>2, <2>3
  <2> QED BY <2>1, <2>5, <2>6
<1>3. DOMAIN PropsOf(ss) = NamesOf(ss) /\ PropsOf(ss) = [q \in NamesOf(ss) |-> PropsOf(ss)[q]]
  BY <1>1
<1> QED BY <1>2, <1>3 DEF Maps

\* A map of the properties in use is the map of them.
LEMMA PropsWhen ==
    ASSUME NEW ss, Distinct(ss), NEW f, Maps(ss, f)
    PROVE  PropsOf(ss) = f
<1>1. PropsOf(ss) = [q \in NamesOf(ss) |-> PropsOf(ss)[q]] /\ f = [q \in NamesOf(ss) |-> f[q]]
  BY PropsAre DEF Maps
<1>2. ASSUME NEW q \in NamesOf(ss) PROVE PropsOf(ss)[q] = f[q]
  <2>1. PICK s \in LiveOf(ss) : q = ss[s].qname
    BY DEF NamesOf
  <2> QED BY <2>1, PropsAre DEF Maps
<1> QED BY <1>1, <1>2

\* Slots with the names, values and attributes of others are the same map.
LEMMA SameProps ==
    ASSUME NEW ss, NEW tt, Distinct(ss), Distinct(tt),
           \A s \in LiveOf(ss) : \E t \in LiveOf(tt) : tt[t].qname = ss[s].qname,
           \A t \in LiveOf(tt) : \E s \in LiveOf(ss) : tt[t].qname = ss[s].qname /\ Prop(tt[t]) = Prop(ss[s])
    PROVE  PropsOf(tt) = PropsOf(ss)
<1>1. NamesOf(tt) = NamesOf(ss)
  BY DEF NamesOf
<1>2. Maps(ss, PropsOf(ss))
  BY PropsAre
<1>3. Maps(tt, PropsOf(ss))
  BY <1>1, <1>2 DEF Maps
<1> QED BY <1>3, PropsWhen

\* New links do not show.
LEMMA RelinkedProps ==
    ASSUME NEW ss \in Seq(Slot), Distinct(ss), NEW tt, Relinked(ss, tt)
    PROVE  PropsOf(tt) = PropsOf(ss)
<1>1. LiveOf(tt) = LiveOf(ss) /\ Distinct(tt) /\ LiveOf(ss) \subseteq 1..Len(ss)
  BY RelinkedIs DEF LiveOf
<1>2. \A s \in LiveOf(ss) : tt[s].qname = ss[s].qname /\ Prop(tt[s]) = Prop(ss[s])
  BY <1>1, RelinkedIs DEF Prop
<1> QED BY <1>1, <1>2, SameProps

\* One property has this value and these attributes, and the others are as before
Put(ss, tt, k, q, v, a) ==
    /\ k \in LiveOf(tt) /\ tt[k].qname = q /\ tt[k].value = v /\ tt[k].attributes = a
    /\ LiveOf(tt) = LiveOf(ss) \cup {k} /\ (k \in LiveOf(ss) => ss[k].qname = q)
    /\ \A s \in LiveOf(ss) : s # k => tt[s].qname = ss[s].qname /\ Prop(tt[s]) = Prop(ss[s])

\* The map with a property changed
MapWith(f, q, v, a) ==
    [p \in DOMAIN f \cup {q} |-> IF p = q THEN [value |-> v, attributes |-> a] ELSE f[p]]

\* A store to a slot is one to the map.
LEMMA PutProps ==
    ASSUME NEW ss, NEW tt, Distinct(ss), Distinct(tt), NEW k, NEW q, NEW v, NEW a, Put(ss, tt, k, q, v, a)
    PROVE  PropsOf(tt) = MapWith(PropsOf(ss), q, v, a)
<1> DEFINE g == MapWith(PropsOf(ss), q, v, a)
<1>1. DOMAIN PropsOf(ss) = NamesOf(ss) /\ \A s \in LiveOf(ss) : PropsOf(ss)[ss[s].qname] = Prop(ss[s])
  BY PropsAre DEF Maps
<1>2. g = [p \in NamesOf(ss) \cup {q} |-> IF p = q THEN [value |-> v, attributes |-> a] ELSE PropsOf(ss)[p]]
  BY <1>1 DEF MapWith
<1> HIDE DEF g
<1>3. NamesOf(tt) = NamesOf(ss) \cup {q}
  BY DEF Put, NamesOf
<1>4. g = [p \in NamesOf(tt) |-> g[p]]
  BY <1>2, <1>3
<1>5. ASSUME NEW s \in LiveOf(tt) PROVE g[tt[s].qname] = Prop(tt[s])
  <2>1. CASE s = k
    <3>1. tt[s].qname = q /\ Prop(tt[s]) = [value |-> v, attributes |-> a]
      BY <2>1 DEF Put, Prop
    <3> QED BY <1>2, <3>1
  <2>2. CASE s # k
    <3>1. s \in LiveOf(ss) /\ tt[s].qname = ss[s].qname /\ Prop(tt[s]) = Prop(ss[s])
      BY <2>2 DEF Put
    <3>2. tt[s].qname # q
      <4>1. k \in LiveOf(tt) /\ tt[k].qname = q
        BY DEF Put
      <4> QED BY <2>2, <4>1 DEF Distinct
    <3>3. ss[s].qname \in NamesOf(ss)
      BY <3>1 DEF NamesOf
    <3> QED BY <1>1, <1>2, <3>1, <3>2, <3>3
  <2> QED BY <2>1, <2>2
<1>6. Maps(tt, g)
  BY <1>4, <1>5 DEF Maps
<1> QED BY <1>6, PropsWhen DEF g

\* The deletion of a slot is that of its name.
LEMMA ErasedProps ==
    ASSUME NEW ss \in Seq(Slot), Distinct(ss), NEW k \in LiveOf(ss), NEW tt, Erased(ss, tt, k)
    PROVE  PropsOf(tt) = [p \in DOMAIN PropsOf(ss) \ {ss[k].qname} |-> PropsOf(ss)[p]]
<1> DEFINE g == [p \in DOMAIN PropsOf(ss) \ {ss[k].qname} |-> PropsOf(ss)[p]]
<1>1. DOMAIN PropsOf(ss) = NamesOf(ss) /\ \A s \in LiveOf(ss) : PropsOf(ss)[ss[s].qname] = Prop(ss[s])
  BY PropsAre DEF Maps
<1>2. k \in 1..Len(ss) /\ LiveOf(ss) \subseteq 1..Len(ss)
  BY DEF LiveOf
<1>3. LiveOf(tt) = LiveOf(ss) \ {k} /\ Distinct(tt)
  BY <1>2, ErasedIs
<1>4. \A s \in LiveOf(tt) : /\ s \in LiveOf(ss) /\ tt[s].qname = ss[s].qname /\ Prop(tt[s]) = Prop(ss[s])
                            /\ ss[s].qname # ss[k].qname
  <2>1. \A s \in LiveOf(tt) : tt[s].qname = ss[s].qname /\ Prop(tt[s]) = Prop(ss[s])
    BY <1>2, <1>3 DEF Erased, Prop
  <2>2. \A s \in LiveOf(tt) : s \in LiveOf(ss) /\ ss[s].qname # ss[k].qname
    BY <1>3 DEF Distinct
  <2> QED BY <2>1, <2>2
<1>5. NamesOf(tt) = NamesOf(ss) \ {ss[k].qname}
  BY <1>3, <1>4 DEF NamesOf
<1>6. g = [p \in NamesOf(tt) |-> PropsOf(ss)[p]]
  BY <1>1, <1>5
<1> HIDE DEF g
<1>7. g = [p \in NamesOf(tt) |-> g[p]]
  BY <1>6
<1>8. ASSUME NEW s \in LiveOf(tt) PROVE g[tt[s].qname] = Prop(tt[s])
  <2>1. tt[s].qname \in NamesOf(tt)
    BY DEF NamesOf
  <2> QED BY <1>1, <1>4, <1>6, <2>1
<1>9. Maps(tt, g)
  BY <1>7, <1>8 DEF Maps
<1> QED BY <1>3, <1>9, PropsWhen DEF g

-----------------------------------------------------------------------------
(***************************************************************************)
(* What the operations make of an object, and of the map that it is.        *)
(***************************************************************************)

\* A good object that is a map
Means(p, f) == \E ss, sz, n, b : p = P(ss, sz, n, b) /\ Good(ss, sz, n, b) /\ PropsOf(ss) = f

\* A slot with another value or other attributes
Rewritten(old, x, v, a) ==
    x \in Slot /\ x.qname = old.qname /\ x.hashChain = old.hashChain /\ x.value = v /\ x.attributes = a

\* Valued and Given leave the name and the chain of a slot alone.
LEMMA ValuedIs ==
    ASSUME NEW old \in Slot, NEW v \in Value
    PROVE  /\ Rewritten(old, Valued(old, v), v, old.attributes)
           /\ \A a \in SUBSET Attributes : Rewritten(old, Given(old, v, a), v, a)
<1>1. Rewritten(old, Valued(old, v), v, old.attributes)
  BY DEF Rewritten, Valued, Slot
<1>2. ASSUME NEW x \in Slot, NEW a \in SUBSET Attributes
      PROVE  Rewritten(x, [x EXCEPT !.attributes = a], x.value, a)
  BY DEF Rewritten, Slot
<1>3. ASSUME NEW a \in SUBSET Attributes PROVE Rewritten(old, Given(old, v, a), v, a)
  <2>1. PICK x : x = Valued(old, v)
    OBVIOUS
  <2>2. x \in Slot /\ x.qname = old.qname /\ x.hashChain = old.hashChain /\ x.value = v
    BY <1>1, <2>1 DEF Rewritten
  <2>3. Rewritten(x, [x EXCEPT !.attributes = a], x.value, a)
    BY <1>2, <2>2
  <2> QED BY <2>1, <2>2, <2>3 DEF Rewritten, Given
<1> QED BY <1>1, <1>3

\* A slot is written.
LEMMA WithWritten ==
    ASSUME NEW ss, NEW sz, NEW n, NEW b, Good(ss, sz, n, b), NEW s \in LiveOf(ss),
           NEW x, NEW v, NEW a, Rewritten(ss[s], x, v, a)
    PROVE  Good(With(ss, s, x), sz, n, b) /\ Put(ss, With(ss, s, x), s, ss[s].qname, v, a)
<1>1. /\ ss \in Seq(Slot) /\ Distinct(ss) /\ sz \in Nat /\ Len(ss) <= sz /\ Hashes(ss, n, b) /\ s \in 1..Len(ss)
      /\ LiveOf(ss) \subseteq 1..Len(ss)
  BY DEF Good, LiveOf
<1> SUFFICES ASSUME NEW tt, Is(tt, With(ss, s, x)) PROVE Good(tt, sz, n, b) /\ Put(ss, tt, s, ss[s].qname, v, a)
  BY DEF Is
<1>2. /\ tt \in Seq(Slot) /\ Len(tt) = Len(ss) /\ tt[s] = x
      /\ \A t \in 1..Len(ss) : t # s => tt[t] = ss[t]
  <2>1. x \in Slot
    BY DEF Rewritten
  <2> QED BY <1>1, <2>1, WithIs DEF Is
<1>3. x.qname = ss[s].qname /\ x.hashChain = ss[s].hashChain /\ x.value = v /\ x.attributes = a
  BY DEF Rewritten
<1>4. SameNames(ss, tt)
  BY <1>2, <1>3 DEF SameNames
<1>5. \A t \in 1..Len(ss) : tt[t].hashChain = ss[t].hashChain
  BY <1>2, <1>3
<1>6. Hashes(tt, n, b) /\ LiveOf(tt) = LiveOf(ss) /\ Distinct(tt)
  BY <1>1, <1>2, <1>4, <1>5, HashesStay
<1>7. Good(tt, sz, n, b)
  BY <1>1, <1>2, <1>6 DEF Good
<1>8. Put(ss, tt, s, ss[s].qname, v, a)
  BY <1>1, <1>2, <1>3, <1>6 DEF Put
<1> QED BY <1>7, <1>8

\* A store to a slot is one to the map.
LEMMA StoreIs ==
    ASSUME NEW ss, NEW sz, NEW n, NEW b, Good(ss, sz, n, b), NEW s \in LiveOf(ss),
           NEW x, NEW v, NEW a, Rewritten(ss[s], x, v, a)
    PROVE  Means(P(With(ss, s, x), sz, n, b), MapWith(PropsOf(ss), ss[s].qname, v, a))
<1> SUFFICES ASSUME NEW tt, Is(tt, With(ss, s, x))
             PROVE  Means(P(tt, sz, n, b), MapWith(PropsOf(ss), ss[s].qname, v, a))
  BY DEF Is
<1>1. Good(tt, sz, n, b) /\ Put(ss, tt, s, ss[s].qname, v, a)
  BY WithWritten DEF Is
<1>2. Distinct(ss) /\ Distinct(tt)
  BY <1>1 DEF Good
<1>3. PropsOf(tt) = MapWith(PropsOf(ss), ss[s].qname, v, a)
  BY <1>1, <1>2, PutProps
<1> QED BY <1>1, <1>3 DEF Means

\* A store to a new slot adds a property to the map.
LEMMA AddedIs ==
    ASSUME NEW ss, NEW sz, NEW n, NEW b, Good(ss, sz, n, b), NEW q \in QName, Absent(ss, q), q.name # Empty,
           NEW p, Added(ss, q, p)
    PROVE  /\ p.slots[Len(ss) + 1] \in Slot
           /\ p.slots[Len(ss) + 1].value = Null /\ p.slots[Len(ss) + 1].attributes = {}
           /\ \A x, v, a : Rewritten(p.slots[Len(ss) + 1], x, v, a) =>
                Means([p EXCEPT !.slots = With(p.slots, Len(ss) + 1, x)], MapWith(PropsOf(ss), q, v, a))
<1>1. ss \in Seq(Slot) /\ Distinct(ss) /\ Len(ss) \in Nat /\ LiveOf(ss) \subseteq 1..Len(ss)
  BY DEF Good, LiveOf
<1> SUFFICES ASSUME NEW k, Is(k, Len(ss) + 1), NEW uu, Is(uu, Append(ss, Named(q)))
             PROVE  /\ p.slots[k] \in Slot /\ p.slots[k].value = Null /\ p.slots[k].attributes = {}
                    /\ \A x, v, a : Rewritten(p.slots[k], x, v, a) =>
                         Means([p EXCEPT !.slots = With(p.slots, k, x)], MapWith(PropsOf(ss), q, v, a))
  BY DEF Is
<1>2. PICK tt, g, m, c : /\ p = P(tt, g, m, c) /\ g \in Nat /\ k <= g
                         /\ Relinked(uu, tt) /\ Hashes(tt, m, c) /\ Distinct(tt)
  BY DEF Added, Is
<1>3. /\ uu \in Seq(Slot) /\ Len(uu) = k /\ LiveOf(uu) = LiveOf(ss) \cup {k} /\ k \in Nat /\ k \in 1..k
      /\ uu[k] = Named(q) /\ \A s \in 1..Len(ss) : uu[s] = ss[s]
  <2>1. uu = Append(ss, Named(q)) /\ k = Len(ss) + 1
    BY DEF Is
  <2>2. /\ uu \in Seq(Slot) /\ Len(uu) = Len(ss) + 1 /\ LiveOf(uu) = LiveOf(ss) \cup {Len(ss) + 1}
        /\ uu[Len(ss) + 1] = Named(q) /\ \A s \in 1..Len(ss) : uu[s] = ss[s]
    BY <1>1, <2>1, AppendIs
  <2>3. k \in Nat /\ k \in 1..k
    BY <1>1, <2>1
  <2> QED BY <2>1, <2>2, <2>3
<1>4. /\ tt \in Seq(Slot) /\ Len(tt) = k /\ LiveOf(tt) = LiveOf(uu)
      /\ \A s \in 1..k : tt[s].qname = uu[s].qname /\ tt[s].value = uu[s].value /\ tt[s].attributes = uu[s].attributes
  BY <1>2, <1>3, RelinkedIs
<1>5. Good(tt, g, m, c)
  BY <1>2, <1>4 DEF Good
<1>6. p.slots = tt
  BY <1>2, ObjectIs
<1>7. tt[k] \in Slot /\ tt[k].qname = q /\ tt[k].value = Null /\ tt[k].attributes = {}
  <2>1. tt[k] \in Slot
    BY <1>3, <1>4
  <2>2. uu[k].qname = q /\ uu[k].value = Null /\ uu[k].attributes = {}
    BY <1>3, NewSlots
  <2> QED BY <1>3, <1>4, <2>1, <2>2
<1>8. ASSUME NEW x, NEW v, NEW a, Rewritten(tt[k], x, v, a)
      PROVE  Means([p EXCEPT !.slots = With(tt, k, x)], MapWith(PropsOf(ss), q, v, a))
  <2> SUFFICES ASSUME NEW vv, Is(vv, With(tt, k, x))
               PROVE  Means([p EXCEPT !.slots = vv], MapWith(PropsOf(ss), q, v, a))
    BY DEF Is
  <2>1. k \in LiveOf(tt)
    BY <1>3, <1>4
  <2>2. Good(vv, g, m, c) /\ Put(tt, vv, k, q, v, a)
    BY <1>5, <1>7, <1>8, <2>1, WithWritten DEF Is
  <2>3. Put(ss, vv, k, q, v, a)
    <3>1. k \notin LiveOf(ss) /\ LiveOf(vv) = LiveOf(ss) \cup {k}
      <4>1. k \notin 1..Len(ss)
        BY <1>1 DEF Is
      <4> QED BY <1>1, <1>3, <1>4, <2>2, <4>1 DEF Put
    <3>2. ASSUME NEW s \in LiveOf(ss) PROVE vv[s].qname = ss[s].qname /\ Prop(vv[s]) = Prop(ss[s])
      <4>1. s \in 1..Len(ss) /\ s \in 1..k /\ s # k /\ s \in LiveOf(tt)
        <5>1. s \in 1..Len(ss) /\ s \in LiveOf(tt)
          BY <1>1, <1>3, <1>4
        <5>2. k = Len(ss) + 1
          BY DEF Is
        <5> QED BY <1>1, <5>1, <5>2
      <4>2. vv[s].qname = tt[s].qname /\ Prop(vv[s]) = Prop(tt[s])
        BY <2>2, <4>1 DEF Put
      <4>3. tt[s].qname = ss[s].qname /\ Prop(tt[s]) = Prop(ss[s])
        BY <1>3, <1>4, <4>1 DEF Prop
      <4> QED BY <4>2, <4>3
    <3>3. k \in LiveOf(vv) /\ vv[k].qname = q /\ vv[k].value = v /\ vv[k].attributes = a
      BY <2>2 DEF Put
    <3> QED BY <3>1, <3>2, <3>3 DEF Put
  <2>4. Distinct(vv)
    BY <2>2 DEF Good
  <2>5. PropsOf(vv) = MapWith(PropsOf(ss), q, v, a)
    BY <1>1, <2>3, <2>4, PutProps
  <2>6. [p EXCEPT !.slots = vv] = P(vv, g, m, c)
    BY <1>2, ObjectIs
  <2> QED BY <2>2, <2>5, <2>6 DEF Means
<1> QED BY <1>6, <1>7, <1>8

\* A deletion is one from the map.
LEMMA DeletedIs ==
    ASSUME NEW ss, NEW sz, NEW n, NEW b, Good(ss, sz, n, b), NEW k \in LiveOf(ss)
    PROVE  Means(deletePotProperty(P(ss, sz, n, b), k),
                 [p \in DOMAIN PropsOf(ss) \ {ss[k].qname} |-> PropsOf(ss)[p]])
<1>1. ss \in Seq(Slot) /\ Distinct(ss) /\ sz \in Nat /\ Len(ss) <= sz /\ k \in 1..Len(ss)
  BY DEF Good, LiveOf
<1>2. PICK tt, c : /\ deletePotProperty(P(ss, sz, n, b), k) = P(tt, sz, n, c)
                   /\ Erased(ss, tt, k) /\ Hashes(tt, n, c)
  BY DeleteIs
<1>3. Distinct(tt)
  BY <1>1, <1>2, ErasedIs
<1>4. Good(tt, sz, n, c)
  BY <1>1, <1>2, <1>3 DEF Good, Erased
<1>5. PropsOf(tt) = [p \in DOMAIN PropsOf(ss) \ {ss[k].qname} |-> PropsOf(ss)[p]]
  BY <1>1, <1>2, ErasedProps
<1> QED BY <1>2, <1>4, <1>5 DEF Means

\* Attributes that are added to all slots are added to all of the map.
LEMMA LockedIs ==
    ASSUME NEW ss, NEW sz, NEW n, NEW b, Good(ss, sz, n, b), NEW a \in SUBSET Attributes
    PROVE  Means(P(Locked(ss, a), sz, n, b),
                 [q \in DOMAIN PropsOf(ss) |-> [PropsOf(ss)[q] EXCEPT !.attributes = @ \cup a]])
<1>1. /\ ss \in Seq(Slot) /\ Distinct(ss) /\ sz \in Nat /\ Len(ss) <= sz /\ Hashes(ss, n, b) /\ Len(ss) \in Nat
      /\ DOMAIN ss = 1..Len(ss) /\ LiveOf(ss) \subseteq 1..Len(ss) /\ \A s \in 1..Len(ss) : ss[s] \in Slot
  BY DEF Good, LiveOf
<1> DEFINE f == PropsOf(ss)
           More(r) == [r EXCEPT !.attributes = @ \cup a]
           g == [q \in DOMAIN f |-> More(f[q])]
<1> SUFFICES ASSUME NEW tt, Is(tt, Locked(ss, a)) PROVE Means(P(tt, sz, n, b), g)
  BY DEF Is
<1>2. \A x \in Slot : /\ More(x) \in Slot /\ More(x).qname = x.qname /\ More(x).hashChain = x.hashChain
                      /\ Prop(More(x)) = More(Prop(x))
  BY DEF Slot, Prop
<1>3. tt = [s \in 1..Len(ss) |-> More(ss[s])]
  BY <1>1 DEF Locked, Is
<1> HIDE DEF More
<1>4. tt \in Seq(Slot) /\ Len(tt) = Len(ss) /\ \A s \in 1..Len(ss) : tt[s] = More(ss[s])
  <2>1. \A s \in 1..Len(ss) : More(ss[s]) \in Slot
    BY <1>1, <1>2
  <2>2. tt \in [1..Len(ss) -> Slot]
    BY <1>3, <2>1
  <2> QED BY <1>1, <1>3, <2>2
<1>5. \A s \in 1..Len(ss) : /\ tt[s].qname = ss[s].qname /\ tt[s].hashChain = ss[s].hashChain
                            /\ Prop(tt[s]) = More(Prop(ss[s]))
  BY <1>1, <1>2, <1>4
<1>6. SameNames(ss, tt)
  BY <1>4, <1>5 DEF SameNames
<1>7. Hashes(tt, n, b) /\ LiveOf(tt) = LiveOf(ss) /\ Distinct(tt)
  BY <1>1, <1>4, <1>5, <1>6, HashesStay
<1>8. Good(tt, sz, n, b)
  BY <1>1, <1>4, <1>7 DEF Good
<1>9. PropsOf(tt) = g
  <2>1. DOMAIN f = NamesOf(ss) /\ \A s \in LiveOf(ss) : f[ss[s].qname] = Prop(ss[s])
    BY <1>1, PropsAre DEF Maps
  <2> HIDE DEF f
  <2>2. NamesOf(tt) = NamesOf(ss)
    BY <1>1, <1>5, <1>7 DEF NamesOf
  <2>3. ASSUME NEW s \in LiveOf(tt) PROVE g[tt[s].qname] = Prop(tt[s])
    <3>1. s \in LiveOf(ss) /\ tt[s].qname = ss[s].qname /\ Prop(tt[s]) = More(Prop(ss[s]))
      BY <1>1, <1>5, <1>7
    <3>2. ss[s].qname \in NamesOf(ss)
      BY <3>1 DEF NamesOf
    <3> QED BY <2>1, <3>1, <3>2
  <2>4. g = [q \in NamesOf(tt) |-> g[q]]
    BY <2>1, <2>2
  <2> HIDE DEF g
  <2>5. Maps(tt, g)
    BY <2>3, <2>4 DEF Maps
  <2> QED BY <1>7, <2>5, PropsWhen
<1> QED BY <1>8, <1>9 DEF Means

\* An order of slots takes every one.
LEMMA OrderIs ==
    ASSUME NEW k \in Nat, NEW o \in [1..k -> 1..k], \A i, j \in 1..k : o[i] = o[j] => i = j
    PROVE  \A t \in 1..k : \E s \in 1..k : o[s] = t
<1>1. o \in Injection(1..k, 1..k)
  BY DEF Injection, IsInjective
<1>2. IsFiniteSet(1..k)
  BY FS_Interval
<1>3. o \in Surjection(1..k, 1..k)
  BY <1>1, <1>2, FS_Injection
<1> QED BY <1>3 DEF Surjection

\* Slots in another order are the same map.
LEMMA SortedIs ==
    ASSUME NEW ss \in Seq(Slot), Distinct(ss), NEW tt \in Sorted(ss)
    PROVE  /\ tt \in Seq(Slot) /\ Len(tt) = Len(ss) /\ Distinct(tt) /\ PropsOf(tt) = PropsOf(ss)
           /\ (\A s \in 1..Len(ss) : ss[s].hashChain = 0) => \A s \in 1..Len(tt) : tt[s].hashChain = 0
<1>1. Len(ss) \in Nat /\ DOMAIN ss = 1..Len(ss) /\ LiveOf(ss) \subseteq 1..Len(ss) /\ \A s \in 1..Len(ss) : ss[s] \in Slot
  BY DEF LiveOf
<1>2. PICK o \in [1..Len(ss) -> 1..Len(ss)] :
          /\ tt = [i \in 1..Len(ss) |-> ss[o[i]]]
          /\ \A i, j \in 1..Len(ss) : o[i] = o[j] => i = j
  BY <1>1 DEF Sorted
<1>3. \A t \in 1..Len(ss) : \E s \in 1..Len(ss) : o[s] = t
  BY <1>1, <1>2, OrderIs
<1>4. tt \in Seq(Slot) /\ Len(tt) = Len(ss) /\ \A i \in 1..Len(ss) : tt[i] = ss[o[i]] /\ o[i] \in 1..Len(ss)
  <2>1. tt \in [1..Len(ss) -> Slot]
    BY <1>1, <1>2
  <2> QED BY <1>1, <1>2, <2>1
<1>5. LiveOf(tt) \subseteq 1..Len(ss) /\ \A i \in 1..Len(ss) : i \in LiveOf(tt) <=> o[i] \in LiveOf(ss)
  BY <1>1, <1>4 DEF LiveOf
<1>6. Distinct(tt)
  <2> SUFFICES ASSUME NEW i \in LiveOf(tt), NEW j \in LiveOf(tt), tt[i].qname = tt[j].qname PROVE i = j
    BY DEF Distinct
  <2>1. i \in 1..Len(ss) /\ j \in 1..Len(ss)
    BY <1>5
  <2>2. o[i] \in LiveOf(ss) /\ o[j] \in LiveOf(ss) /\ ss[o[i]].qname = ss[o[j]].qname
    BY <1>4, <1>5, <2>1
  <2>3. o[i] = o[j]
    BY <2>2 DEF Distinct
  <2> QED BY <1>2, <2>1, <2>3
<1>7. \A s \in LiveOf(ss) : \E t \in LiveOf(tt) : tt[t].qname = ss[s].qname
  <2> SUFFICES ASSUME NEW s \in LiveOf(ss) PROVE \E t \in LiveOf(tt) : tt[t].qname = ss[s].qname
    OBVIOUS
  <2>1. PICK i \in 1..Len(ss) : o[i] = s
    BY <1>1, <1>3
  <2> QED BY <1>4, <1>5, <2>1
<1>8. \A t \in LiveOf(tt) : \E s \in LiveOf(ss) : tt[t].qname = ss[s].qname /\ Prop(tt[t]) = Prop(ss[s])
  BY <1>4, <1>5
<1>9. PropsOf(tt) = PropsOf(ss)
  BY <1>6, <1>7, <1>8, SameProps
<1> QED BY <1>4, <1>6, <1>9

\* An object with its slots in another order is the same map.
LEMMA SortIs ==
    ASSUME NEW ss, NEW sz, NEW n, NEW b, Good(ss, sz, n, b), NEW tt \in Sorted(ss)
    PROVE  Means(ejsIndexProperties(P(tt, sz, n, b)), PropsOf(ss))
<1>1. /\ ss \in Seq(Slot) /\ Distinct(ss) /\ sz \in Nat /\ Len(ss) <= sz /\ Hashes(ss, n, b) /\ n \in Nat
      /\ HashMin \in Nat /\ Len(ss) \in Nat
  <2>1. /\ ss \in Seq(Slot) /\ Distinct(ss) /\ sz \in Nat /\ Len(ss) <= sz /\ Hashes(ss, n, b) /\ Len(ss) \in Nat
    BY DEF Good
  <2>2. n \in Nat
    BY <2>1 DEF Hashes, Links
  <2> QED BY <2>1, <2>2, SizeAssumption
<1>2. /\ tt \in Seq(Slot) /\ Len(tt) = Len(ss) /\ Distinct(tt) /\ PropsOf(tt) = PropsOf(ss)
      /\ (\A s \in 1..Len(ss) : ss[s].hashChain = 0) => \A s \in 1..Len(tt) : tt[s].hashChain = 0
  BY <1>1, SortedIs
<1>3. CASE n # 0 \/ Len(tt) > HashMin
  <2>1. Rehashed(tt, sz, ejsIndexProperties(P(tt, sz, n, b)))
    BY <1>1, <1>2, <1>3, IndexIs
  <2>2. PICK uu, m, c : ejsIndexProperties(P(tt, sz, n, b)) = P(uu, sz, m, c) /\ Relinked(tt, uu) /\ Hashes(uu, m, c)
    BY <2>1 DEF Rehashed
  <2>3. uu \in Seq(Slot) /\ Len(uu) = Len(tt) /\ Distinct(uu)
    BY <1>2, <2>2, RelinkedIs
  <2>4. PropsOf(uu) = PropsOf(tt)
    BY <1>2, <2>2, RelinkedProps
  <2>5. Good(uu, sz, m, c)
    BY <1>1, <1>2, <2>2, <2>3 DEF Good
  <2> QED BY <1>2, <2>2, <2>4, <2>5 DEF Means
<1>4. CASE ~(n # 0 \/ Len(tt) > HashMin)
  <2>1. n = 0 /\ Len(tt) <= HashMin
    BY <1>1, <1>2, <1>4
  <2>2. ejsIndexProperties(P(tt, sz, n, b)) = P(tt, sz, n, b)
    BY <2>1 DEF ejsIndexProperties, P
  <2>3. Hashes(tt, n, b)
    BY <1>1, <1>2, <2>1 DEF Hashes, Links
  <2>4. Good(tt, sz, n, b)
    BY <1>1, <1>2, <2>3 DEF Good
  <2> QED BY <1>2, <2>2, <2>4 DEF Means
<1> QED BY <1>3, <1>4

\* Slots without their links
Plain(ss) == [s \in DOMAIN ss |-> Linked(ss[s], 0)]

\* A copy is the same map.
LEMMA CloneIs ==
    ASSUME NEW ss, NEW sz, NEW n, NEW b, Good(ss, sz, n, b)
    PROVE  Means(IF Len(ss) > HashMin THEN ejsIndexProperties(P(Plain(ss), growSlots(0, Len(ss)), 0, <<>>))
                 ELSE P(Plain(ss), growSlots(0, Len(ss)), 0, <<>>), PropsOf(ss))
<1>1. ss \in Seq(Slot) /\ Distinct(ss) /\ Len(ss) \in Nat /\ DOMAIN ss = 1..Len(ss) /\ \A s \in 1..Len(ss) : ss[s] \in Slot
  BY DEF Good
<1> SUFFICES ASSUME NEW tt, Is(tt, Plain(ss)), NEW g, Is(g, growSlots(0, Len(ss)))
             PROVE  Means(IF Len(ss) > HashMin THEN ejsIndexProperties(P(tt, g, 0, <<>>)) ELSE P(tt, g, 0, <<>>), PropsOf(ss))
  BY DEF Is
<1>2. g \in Nat /\ Len(ss) <= g
  BY <1>1, GrowIs DEF Is
<1>3. \A s \in 1..Len(ss) :
        /\ Linked(ss[s], 0) \in Slot /\ Linked(ss[s], 0).hashChain = 0 /\ Linked(ss[s], 0).qname = ss[s].qname
        /\ Linked(ss[s], 0).value = ss[s].value /\ Linked(ss[s], 0).attributes = ss[s].attributes
  <2>1. 0 \in Nat
    OBVIOUS
  <2> QED BY <1>1, <2>1, LinkedIs
<1>4. tt = [s \in 1..Len(ss) |-> Linked(ss[s], 0)]
  BY <1>1 DEF Plain, Is
<1>5. tt \in Seq(Slot) /\ Len(tt) = Len(ss) /\ \A s \in 1..Len(ss) : tt[s] = Linked(ss[s], 0)
  <2>1. tt \in [1..Len(ss) -> Slot]
    BY <1>3, <1>4
  <2> QED BY <1>1, <1>4, <2>1
<1>6. Relinked(ss, tt) /\ \A s \in 1..Len(tt) : tt[s].hashChain = 0
  BY <1>3, <1>5 DEF Relinked, SameNames
<1>7. Distinct(tt) /\ PropsOf(tt) = PropsOf(ss)
  BY <1>1, <1>6, RelinkedIs, RelinkedProps
<1>8. Good(tt, g, 0, <<>>)
  BY <1>2, <1>5, <1>6, <1>7 DEF Good, Hashes
<1>9. CASE Len(ss) > HashMin
  <2>1. Rehashed(tt, g, ejsIndexProperties(P(tt, g, 0, <<>>)))
    <3>1. 0 \in Nat /\ (0 # 0 \/ Len(tt) > HashMin)
      BY <1>5, <1>9
    <3> QED BY <1>5, <1>7, <3>1, IndexIs
  <2>2. PICK uu, m, c : ejsIndexProperties(P(tt, g, 0, <<>>)) = P(uu, g, m, c) /\ Relinked(tt, uu) /\ Hashes(uu, m, c)
    BY <2>1 DEF Rehashed
  <2>3. uu \in Seq(Slot) /\ Len(uu) = Len(tt) /\ Distinct(uu) /\ PropsOf(uu) = PropsOf(tt)
    BY <1>5, <1>7, <2>2, RelinkedIs, RelinkedProps
  <2>4. Good(uu, g, m, c)
    BY <1>2, <1>5, <2>2, <2>3 DEF Good
  <2> QED BY <1>7, <1>9, <2>2, <2>3, <2>4 DEF Means
<1>10. CASE ~(Len(ss) > HashMin)
  BY <1>7, <1>8, <1>10 DEF Means
<1> QED BY <1>9, <1>10

-----------------------------------------------------------------------------
(***************************************************************************)
(* The steps of a script.                                                   *)
(***************************************************************************)
IInv ==
    /\ Good(slots, size, hash.size, hash.buckets)
    /\ hash = [size |-> hash.size, buckets |-> hash.buckets]
    /\ dynamic \in BOOLEAN

props == PropsOf(slots)

\* The object is good, and a map of its names.
LEMMA PotIs ==
    ASSUME IInv
    PROVE  /\ Pot = P(slots, size, hash.size, hash.buckets) /\ Good(slots, size, hash.size, hash.buckets)
           /\ slots \in Seq(Slot) /\ NumProp \in Nat /\ Distinct(slots) /\ DOMAIN props = NamesOf(slots)
           /\ \A s \in LiveOf(slots) : /\ s # 0 /\ slots[s] \in Slot /\ slots[s].qname \in DOMAIN props
                                       /\ props[slots[s].qname] = Prop(slots[s])
<1>1. Pot = P(slots, size, hash.size, hash.buckets)
  <2>1. hash = [size |-> hash.size, buckets |-> hash.buckets]
    BY DEF IInv
  <2> QED BY <2>1 DEF Pot, P
<1>2. Good(slots, size, hash.size, hash.buckets)
  BY DEF IInv
<1>3. slots \in Seq(Slot) /\ NumProp \in Nat /\ Distinct(slots)
  BY <1>2 DEF Good, NumProp
<1>4. DOMAIN props = NamesOf(slots) /\ \A s \in LiveOf(slots) : props[slots[s].qname] = Prop(slots[s])
  BY <1>3, PropsAre DEF Maps, props
<1>5. \A s \in LiveOf(slots) : s # 0 /\ slots[s] \in Slot /\ slots[s].qname \in NamesOf(slots)
  BY <1>3 DEF LiveOf, NamesOf
<1> QED BY <1>1, <1>2, <1>3, <1>4, <1>5

\* The object becomes what an operation made of it.
LEMMA Becoming ==
    ASSUME NEW p, NEW f, Means(p, f), Becomes(p), dynamic' \in BOOLEAN
    PROVE  IInv' /\ props' = f
<1>1. PICK ss, sz, n, b : p = P(ss, sz, n, b) /\ Good(ss, sz, n, b) /\ PropsOf(ss) = f
  BY DEF Means
<1>2. slots' = ss /\ size' = sz /\ hash' = [size |-> n, buckets |-> b]
  BY <1>1 DEF Becomes, P
<1>3. hash'.size = n /\ hash'.buckets = b
  BY <1>2
<1>4. IInv'
  BY <1>1, <1>2, <1>3 DEF IInv
<1> QED BY <1>1, <1>2, <1>4 DEF props

\* An operation that only answers leaves all as it is.
LEMMA Staying ==
    ASSUME IInv, UNCHANGED <<slots, size, hash, dynamic>>
    PROVE  IInv' /\ props' = props
BY DEF IInv, props

\* What a step of the map is, in terms of the map that the object is
MapFails == result' = "throws" /\ props' = props /\ dynamic' = dynamic
MapAnswers(r) == result' = r /\ props' = props /\ dynamic' = dynamic
MapDoes(r) == result' = r /\ dynamic' = dynamic
MapReads(found) ==
    \/ found = {} /\ MapAnswers(Null)
    \/ \E q \in found : MapAnswers(props[q].value)
MapWrites(found, q0, v) ==
    \/ found = {} /\ ~dynamic /\ MapFails
    \/ found = {} /\ dynamic /\ props' = MapWith(props, q0, v, {}) /\ MapDoes("done")
    \/ \E q \in found :
        IF "readonly" \in props[q].attributes /\ props[q].value \notin {Null, v} THEN MapFails
        ELSE props' = MapWith(props, q, v, props[q].attributes) /\ MapDoes("done")
MapDeletes(found, ambiguous) ==
    \/ found = {} /\ MapAnswers("done")
    \/ \E q \in found :
        IF "fixed" \in props[q].attributes THEN MapAnswers("kept")
        ELSE IF ambiguous THEN MapFails
        ELSE props' = [p \in DOMAIN props \ {q} |-> props[p]] /\ MapDoes("done")
MapDefines(q, v, a) ==
    IF q \in DOMAIN props /\ "fixed" \in props[q].attributes THEN MapFails
    ELSE props' = MapWith(props, q, v, a) /\ MapDoes("done")
MapLocks(a) ==
    /\ props' = [q \in DOMAIN props |-> [props[q] EXCEPT !.attributes = @ \cup a]]
    /\ dynamic' = FALSE
    /\ result' = "done"

\* These are the steps of the map.
LEMMA MapSteps ==
    /\ \A found : Map!Reads(found) <=> MapReads(found)
    /\ \A found, q, v : Map!Writes(found, q, v) <=> MapWrites(found, q, v)
    /\ \A found, ambiguous : Map!Deletes(found, ambiguous) <=> MapDeletes(found, ambiguous)
    /\ \A q, v, a : Map!Defines(q, v, a) <=> MapDefines(q, v, a)
    /\ \A a : Map!Locks(a) <=> MapLocks(a)
    /\ \A r : Map!Answers(r) <=> MapAnswers(r)
    /\ \A q : Map!Present(q) = {q} \cap DOMAIN props
    /\ \A name : Map!Visible(name) = Seen(DOMAIN props, name)
    /\ \A name : Map!Named(name) = {p \in DOMAIN props : p.name = name}
    /\ Map!Name = Name
<1>1. \A found : Map!Reads(found) <=> MapReads(found)
  BY DEF Map!Reads, Map!Answers, Map!ValueOf, MapReads, MapAnswers, props
<1>2. \A found, q, v : Map!Writes(found, q, v) <=> MapWrites(found, q, v)
  BY DEF Map!Writes, Map!Fails, Map!Does, Map!With, Map!Has, Map!ValueOf, MapWrites, MapFails, MapDoes, MapWith, props
<1>3. \A found, ambiguous : Map!Deletes(found, ambiguous) <=> MapDeletes(found, ambiguous)
  BY DEF Map!Deletes, Map!Fails, Map!Answers, Map!Does, Map!Has, MapDeletes, MapFails, MapAnswers, MapDoes, props
<1>4. \A q, v, a : Map!Defines(q, v, a) <=> MapDefines(q, v, a)
  BY DEF Map!Defines, Map!Fails, Map!Does, Map!With, Map!Has, MapDefines, MapFails, MapDoes, MapWith, props
<1>5. \A a : Map!Locks(a) <=> MapLocks(a)
  BY DEF Map!Locks, MapLocks, props
<1>6. \A r : Map!Answers(r) <=> MapAnswers(r)
  BY DEF Map!Answers, MapAnswers, props
<1>7. \A q : Map!Present(q) = {q} \cap DOMAIN props
  BY DEF Map!Present, props
<1>8. \A name : Map!Visible(name) = Seen(DOMAIN props, name)
  BY DEF Map!Visible, Map!Named, Map!Opens, Map!Q, Seen, Opens, Q, props
<1>9. \A name : Map!Named(name) = {p \in DOMAIN props : p.name = name}
  BY DEF Map!Named, props
<1>10. Map!Name = Name
  BY DEF Map!Name, Name
<1> QED BY <1>1, <1>2, <1>3, <1>4, <1>5, <1>6, <1>7, <1>8, <1>9, <1>10

\* A slot is that of the only name found
FoundAs(s, found) == (s = 0 /\ found = {}) \/ (s \in LiveOf(slots) /\ found = {slots[s].qname})

\* Lookups find what is found in the map.
LEMMA Lookups ==
    ASSUME IInv
    PROVE  /\ \A q : q.name \in Name =>
                /\ FoundAs(ejsLookupPotProperty(Pot, q), {q} \cap DOMAIN props)
                /\ {q} \cap DOMAIN props = {} => Absent(slots, q)
           /\ \A name \in Name :
                /\ FoundAs(ejsLookupVarWithNamespaces(Pot, name), Seen(DOMAIN props, name))
                /\ Seen(DOMAIN props, name) = {} => Absent(slots, Q(Empty, name))
                /\ lookupUnique(Pot, name) # 0 <=>
                     \E q \in {p \in DOMAIN props : p.name = name} : {p \in DOMAIN props : p.name = name} = {q}
<1>1. /\ Pot = P(slots, size, hash.size, hash.buckets) /\ Good(slots, size, hash.size, hash.buckets)
      /\ DOMAIN props = NamesOf(slots) /\ 0 \notin LiveOf(slots)
      /\ \A s \in LiveOf(slots) : slots[s].qname \in NamesOf(slots)
  BY PotIs
<1>2. \A q : q \notin NamesOf(slots) => Absent(slots, q)
  BY <1>1 DEF Absent
<1>3. ASSUME NEW q, q.name \in Name
      PROVE  /\ FoundAs(ejsLookupPotProperty(Pot, q), {q} \cap DOMAIN props)
             /\ {q} \cap DOMAIN props = {} => Absent(slots, q)
  <2>1. Finds(slots, q, ejsLookupPotProperty(P(slots, size, hash.size, hash.buckets), q))
    BY <1>1, <1>3, FoundIs
  <2>2. FoundAs(ejsLookupPotProperty(Pot, q), {q} \cap DOMAIN props)
    BY <1>1, <2>1 DEF Finds, FoundAs
  <2> QED BY <1>1, <1>2, <2>2
<1>4. ASSUME NEW name \in Name
      PROVE  /\ FoundAs(ejsLookupVarWithNamespaces(Pot, name), Seen(DOMAIN props, name))
             /\ Seen(DOMAIN props, name) = {} => Absent(slots, Q(Empty, name))
  <2>1. Sees(slots, name, ejsLookupVarWithNamespaces(P(slots, size, hash.size, hash.buckets), name))
    BY <1>1, ByNameIs
  <2> QED BY <1>1, <1>2, <2>1 DEF Sees, FoundAs
<1>5. ASSUME NEW name \in Name
      PROVE  lookupUnique(Pot, name) # 0 <=>
               \E q \in {p \in DOMAIN props : p.name = name} : {p \in DOMAIN props : p.name = name} = {q}
  <2> DEFINE M == {p \in NamesOf(slots) : p.name = name}
  <2>1. FindsOnly(slots, name, lookupUnique(P(slots, size, hash.size, hash.buckets), name))
    BY <1>1, OnlyIs
  <2>2. PICK u : u = lookupUnique(Pot, name)
    OBVIOUS
  <2>3. \/ u = 0 /\ ~\E q \in NamesOf(slots) : M = {q}
        \/ u \in LiveOf(slots) /\ M = {slots[u].qname}
    BY <1>1, <2>1, <2>2, Zenon DEF FindsOnly
  <2>4. M \subseteq NamesOf(slots)
    OBVIOUS
  <2> HIDE DEF M
  <2>5. u # 0 <=> \E q \in M : M = {q}
    BY <1>1, <2>3, <2>4
  <2> QED BY <1>1, <2>2, <2>5 DEF M
<1> QED BY <1>3, <1>4, <1>5

\* A read of a property is one of the map.
LEMMA GetStep ==
    ASSUME IInv, NEW s, NEW found, FoundAs(s, found), Get(s)
    PROVE  IInv' /\ MapReads(found)
<1>1. UNCHANGED <<slots, size, hash, dynamic>> /\ result' = IF s = 0 THEN Null ELSE slots[s].value
  BY DEF Get, Answers
<1>2. IInv' /\ props' = props /\ dynamic' = dynamic
  BY <1>1, Staying
<1>3. CASE s = 0 /\ found = {}
  BY <1>1, <1>2, <1>3 DEF MapReads, MapAnswers
<1>4. CASE s \in LiveOf(slots) /\ found = {slots[s].qname}
  <2>1. s # 0 /\ props[slots[s].qname] = Prop(slots[s])
    BY <1>4, PotIs
  <2>2. props[slots[s].qname].value = slots[s].value
    BY <2>1 DEF Prop
  <2> QED BY <1>1, <1>2, <1>4, <2>1, <2>2 DEF MapReads, MapAnswers
<1> QED BY <1>3, <1>4 DEF FoundAs

\* A store to a property, or of a new one, is one to the map.
LEMMA PutStep ==
    ASSUME IInv, NEW s, NEW found, FoundAs(s, found), NEW q \in QName, q.name # Empty,
           found = {} => Absent(slots, q), NEW v \in Value, storeProperty(s, q, v)
    PROVE  IInv' /\ MapWrites(found, q, v)
<1>1. Pot = P(slots, size, hash.size, hash.buckets) /\ Good(slots, size, hash.size, hash.buckets) /\ NumProp \in Nat
      /\ dynamic \in BOOLEAN
  BY PotIs DEF IInv
<1>2. Pot.slots = slots
  BY DEF Pot
<1>3. CASE s = 0 /\ found = {} /\ ~dynamic
  <2>1. UNCHANGED <<slots, size, hash, dynamic>> /\ result' = "throws"
    BY <1>3 DEF storeProperty, Fails
  <2>2. IInv' /\ props' = props /\ dynamic' = dynamic
    BY <2>1, Staying
  <2> QED BY <1>3, <2>1, <2>2 DEF MapWrites, MapFails
<1>4. CASE s = 0 /\ found = {} /\ dynamic
  <2>1. PICK p : p = AddSlot(Pot, q)
    OBVIOUS
  <2>2. storePropertyToSlot(p, NumProp + 1, v)
    BY <1>4, <2>1 DEF storeProperty
  <2>3. Added(slots, q, p)
    BY <1>1, <1>4, <2>1, AddSlotIs
  <2>4. PICK k : k = NumProp + 1
    OBVIOUS
  <2>5. /\ p.slots[k] \in Slot /\ p.slots[k].value = Null /\ p.slots[k].attributes = {}
        /\ \A x, w, a : Rewritten(p.slots[k], x, w, a) =>
                Means([p EXCEPT !.slots = With(p.slots, k, x)], MapWith(props, q, w, a))
    <3>1. k = Len(slots) + 1
      BY <2>4 DEF NumProp
    <3> QED BY <1>1, <1>4, <2>3, <3>1, AddedIs DEF props
  <2>6. PICK x : x = Valued(p.slots[k], v)
    OBVIOUS
  <2>7. Rewritten(p.slots[k], x, v, {})
    BY <2>5, <2>6, ValuedIs
  <2>8. Means([p EXCEPT !.slots = With(p.slots, k, x)], MapWith(props, q, v, {}))
    BY <2>5, <2>7
  <2>9. Becomes([p EXCEPT !.slots = With(p.slots, k, x)]) /\ result' = "done" /\ dynamic' = dynamic
    <3>1. ~("readonly" \in p.slots[k].attributes)
      BY <2>5
    <3>2. Does([p EXCEPT !.slots = With(p.slots, k, Valued(p.slots[k], v))], "done")
      BY <2>2, <2>4, <3>1 DEF storePropertyToSlot
    <3> QED BY <2>6, <3>2 DEF Does
  <2>10. IInv' /\ props' = MapWith(props, q, v, {})
    BY <1>1, <2>8, <2>9, Becoming
  <2> QED BY <1>4, <2>9, <2>10 DEF MapWrites, MapDoes
<1>5. CASE s \in LiveOf(slots) /\ found = {slots[s].qname}
  <2>1. s # 0 /\ slots[s] \in Slot /\ props[slots[s].qname] = Prop(slots[s])
    BY <1>5, PotIs
  <2>2. PICK r : r = slots[s].qname
    OBVIOUS
  <2>3. props[r].value = slots[s].value /\ props[r].attributes = slots[s].attributes
    BY <2>1, <2>2 DEF Prop
  <2>4. storePropertyToSlot(Pot, s, v)
    BY <2>1 DEF storeProperty
  <2>5. CASE "readonly" \in slots[s].attributes /\ slots[s].value \notin {Null, v}
    <3>1. UNCHANGED <<slots, size, hash, dynamic>> /\ result' = "throws"
      BY <1>2, <2>4, <2>5 DEF storePropertyToSlot, Fails
    <3>2. IInv' /\ props' = props /\ dynamic' = dynamic
      BY <3>1, Staying
    <3> QED BY <1>5, <2>2, <2>3, <2>5, <3>1, <3>2 DEF MapWrites, MapFails
  <2>6. CASE ~("readonly" \in slots[s].attributes /\ slots[s].value \notin {Null, v})
    <3>1. PICK x : x = Valued(slots[s], v)
      OBVIOUS
    <3>2. Does([Pot EXCEPT !.slots = With(slots, s, x)], "done")
      BY <1>2, <2>4, <2>6, <3>1 DEF storePropertyToSlot
    <3>3. [Pot EXCEPT !.slots = With(slots, s, x)] = P(With(slots, s, x), size, hash.size, hash.buckets)
      BY <1>1, ObjectIs
    <3>4. Rewritten(slots[s], x, v, slots[s].attributes)
      BY <2>1, <3>1, ValuedIs
    <3>5. Means(P(With(slots, s, x), size, hash.size, hash.buckets), MapWith(PropsOf(slots), slots[s].qname, v, slots[s].attributes))
      BY <1>1, <1>5, <3>4, StoreIs
    <3>6. Becomes(P(With(slots, s, x), size, hash.size, hash.buckets)) /\ result' = "done" /\ dynamic' = dynamic
      BY <3>2, <3>3 DEF Does
    <3>7. IInv' /\ props' = MapWith(props, r, v, slots[s].attributes)
      BY <1>1, <2>2, <3>5, <3>6, Becoming DEF props
    <3> QED BY <1>5, <2>2, <2>3, <2>6, <3>6, <3>7 DEF MapWrites, MapDoes
  <2> QED BY <2>5, <2>6
<1> QED BY <1>1, <1>3, <1>4, <1>5 DEF FoundAs

\* A deletion is one from the map.
LEMMA DeleteStep ==
    ASSUME IInv, NEW s, NEW found, FoundAs(s, found), NEW named, Delete(s, named)
    PROVE  IInv' /\ MapDeletes(found, ~named)
<1>1. /\ Pot = P(slots, size, hash.size, hash.buckets) /\ Good(slots, size, hash.size, hash.buckets)
      /\ dynamic \in BOOLEAN
  BY PotIs DEF IInv
<1>2. CASE s = 0 /\ found = {}
  <2>1. UNCHANGED <<slots, size, hash, dynamic>> /\ result' = "done"
    BY <1>2 DEF Delete, Answers
  <2>2. IInv' /\ props' = props /\ dynamic' = dynamic
    BY <2>1, Staying
  <2> QED BY <1>2, <2>1, <2>2 DEF MapDeletes, MapAnswers
<1>3. CASE s \in LiveOf(slots) /\ found = {slots[s].qname}
  <2>1. s # 0 /\ props[slots[s].qname] = Prop(slots[s])
    BY <1>3, PotIs
  <2>2. PICK r : r = slots[s].qname
    OBVIOUS
  <2>3. props[r].attributes = slots[s].attributes
    BY <2>1, <2>2 DEF Prop
  <2>4. CASE "fixed" \in slots[s].attributes
    <3>1. UNCHANGED <<slots, size, hash, dynamic>> /\ result' = "kept"
      BY <2>1, <2>4 DEF Delete, Answers
    <3>2. IInv' /\ props' = props /\ dynamic' = dynamic
      BY <3>1, Staying
    <3> QED BY <1>3, <2>2, <2>3, <2>4, <3>1, <3>2 DEF MapDeletes, MapAnswers
  <2>5. CASE "fixed" \notin slots[s].attributes /\ ~named
    <3>1. UNCHANGED <<slots, size, hash, dynamic>> /\ result' = "throws"
      BY <2>1, <2>5 DEF Delete, Fails
    <3>2. IInv' /\ props' = props /\ dynamic' = dynamic
      BY <3>1, Staying
    <3> QED BY <1>3, <2>2, <2>3, <2>5, <3>1, <3>2 DEF MapDeletes, MapFails
  <2>6. CASE "fixed" \notin slots[s].attributes /\ named
    <3>1. Does(deletePotProperty(Pot, s), "done")
      BY <2>1, <2>6 DEF Delete
    <3>2. Becomes(deletePotProperty(Pot, s)) /\ result' = "done" /\ dynamic' = dynamic
      BY <3>1 DEF Does
    <3>3. Means(deletePotProperty(Pot, s), [p \in DOMAIN props \ {slots[s].qname} |-> props[p]])
      BY <1>1, <1>3, DeletedIs DEF props
    <3>4. IInv' /\ props' = [p \in DOMAIN props \ {slots[s].qname} |-> props[p]]
      <4> SUFFICES ASSUME NEW p, Is(p, deletePotProperty(Pot, s)),
                          NEW f, Is(f, [t \in DOMAIN props \ {slots[s].qname} |-> props[t]])
                   PROVE  IInv' /\ props' = f
        BY DEF Is
      <4>1. Means(p, f) /\ Becomes(p) /\ dynamic' \in BOOLEAN
        BY <1>1, <3>2, <3>3 DEF Is
      <4> QED BY <4>1, Becoming
    <3> QED BY <1>3, <2>2, <2>3, <2>6, <3>2, <3>4 DEF MapDeletes, MapDoes
  <2> QED BY <2>4, <2>5, <2>6
<1> QED BY <1>2, <1>3 DEF FoundAs

\* A definition of a property is one of the map.
LEMMA DefineStep ==
    ASSUME IInv, NEW q \in QNames, NEW v \in Value, NEW a \in Options, defineProperty(q, v, a)
    PROVE  IInv' /\ MapDefines(q, v, a)
<1>1. /\ Pot = P(slots, size, hash.size, hash.buckets) /\ Good(slots, size, hash.size, hash.buckets)
      /\ dynamic \in BOOLEAN /\ NumProp \in Nat /\ Pot.slots = slots
  BY PotIs DEF IInv, Pot
<1>2. q \in QName /\ q.name \in Name /\ q.name # Empty /\ a \in SUBSET Attributes
  <2>1. q \in QName /\ q.name \in Name /\ q.name # Empty
    BY NamesAre
  <2>2. {"fixed", "readonly"} \subseteq Attributes
    BY DEF Attributes
  <2> QED BY <2>1, <2>2, OptionAssumption
<1> SUFFICES ASSUME NEW s, Is(s, ejsLookupPotProperty(Pot, q)) PROVE IInv' /\ MapDefines(q, v, a)
  BY DEF Is
<1>3. FoundAs(s, {q} \cap DOMAIN props) /\ ({q} \cap DOMAIN props = {} => Absent(slots, q))
  BY <1>2, Lookups DEF Is
<1>4. CASE s = 0
  <2>1. q \notin DOMAIN props /\ Absent(slots, q)
    <3>1. 0 \notin LiveOf(slots)
      BY PotIs
    <3> QED BY <1>3, <1>4, <3>1 DEF FoundAs
  <2>2. PICK p : p = AddSlot(Pot, q)
    OBVIOUS
  <2>3. PICK k : k = NumProp + 1
    OBVIOUS
  <2>4. Does([p EXCEPT !.slots = With(p.slots, k, Given(p.slots[k], v, a))], "done")
    BY <1>4, <2>2, <2>3 DEF defineProperty, Is
  <2>5. Added(slots, q, p)
    BY <1>1, <1>2, <2>1, <2>2, AddSlotIs
  <2>6. /\ p.slots[k] \in Slot
        /\ \A x, w, c : Rewritten(p.slots[k], x, w, c) =>
                Means([p EXCEPT !.slots = With(p.slots, k, x)], MapWith(props, q, w, c))
    <3>1. k = Len(slots) + 1
      BY <2>3 DEF NumProp
    <3> QED BY <1>1, <1>2, <2>1, <2>5, <3>1, AddedIs DEF props
  <2>7. PICK x : x = Given(p.slots[k], v, a)
    OBVIOUS
  <2>8. Rewritten(p.slots[k], x, v, a)
    BY <1>2, <2>6, <2>7, ValuedIs
  <2>9. Means([p EXCEPT !.slots = With(p.slots, k, x)], MapWith(props, q, v, a))
    BY <2>6, <2>8
  <2>10. Becomes([p EXCEPT !.slots = With(p.slots, k, x)]) /\ result' = "done" /\ dynamic' = dynamic
    BY <2>4, <2>7 DEF Does
  <2>11. IInv' /\ props' = MapWith(props, q, v, a)
    BY <1>1, <2>9, <2>10, Becoming
  <2> QED BY <2>1, <2>10, <2>11 DEF MapDefines, MapDoes
<1>5. CASE s # 0
  <2>1. s \in LiveOf(slots) /\ slots[s].qname = q /\ q \in DOMAIN props
    BY <1>3, <1>5 DEF FoundAs
  <2>2. slots[s] \in Slot /\ props[q] = Prop(slots[s])
    BY <2>1, PotIs
  <2>3. props[q].attributes = slots[s].attributes
    BY <2>2 DEF Prop
  <2>4. CASE "fixed" \in slots[s].attributes
    <3>1. UNCHANGED <<slots, size, hash, dynamic>> /\ result' = "throws"
      BY <1>5, <2>4 DEF defineProperty, Fails, Is
    <3>2. IInv' /\ props' = props /\ dynamic' = dynamic
      BY <3>1, Staying
    <3> QED BY <2>1, <2>3, <2>4, <3>1, <3>2 DEF MapDefines, MapFails
  <2>5. CASE "fixed" \notin slots[s].attributes
    <3>1. PICK x : x = Given(slots[s], v, a)
      OBVIOUS
    <3>2. Does([Pot EXCEPT !.slots = With(slots, s, x)], "done")
      BY <1>1, <1>5, <2>5, <3>1 DEF defineProperty, Is
    <3>3. [Pot EXCEPT !.slots = With(slots, s, x)] = P(With(slots, s, x), size, hash.size, hash.buckets)
      BY <1>1, ObjectIs
    <3>4. Rewritten(slots[s], x, v, a)
      BY <1>2, <2>2, <3>1, ValuedIs
    <3>5. Means(P(With(slots, s, x), size, hash.size, hash.buckets), MapWith(PropsOf(slots), slots[s].qname, v, a))
      BY <1>1, <2>1, <3>4, StoreIs
    <3>6. Becomes(P(With(slots, s, x), size, hash.size, hash.buckets)) /\ result' = "done" /\ dynamic' = dynamic
      BY <3>2, <3>3 DEF Does
    <3>7. IInv' /\ props' = MapWith(props, q, v, a)
      BY <1>1, <2>1, <3>5, <3>6, Becoming DEF props
    <3> QED BY <2>1, <2>3, <2>5, <3>6, <3>7 DEF MapDefines, MapDoes
  <2> QED BY <2>4, <2>5
<1> QED BY <1>4, <1>5

\* Freezing, sealing and preventing extensions are locks of the map.
LEMMA LockStep ==
    ASSUME IInv, NEW a \in SUBSET Attributes, Lock(a)
    PROVE  IInv' /\ MapLocks(a)
<1>1. Pot = P(slots, size, hash.size, hash.buckets) /\ Good(slots, size, hash.size, hash.buckets) /\ Pot.slots = slots
  BY PotIs DEF Pot
<1> SUFFICES ASSUME NEW p, Is(p, P(Locked(slots, a), size, hash.size, hash.buckets)),
                    NEW f, Is(f, [q \in DOMAIN props |-> [props[q] EXCEPT !.attributes = @ \cup a]])
             PROVE  IInv' /\ MapLocks(a)
  BY DEF Is
<1>2. Means(p, f)
  BY <1>1, LockedIs DEF Is, props
<1>3. Becomes(p) /\ dynamic' = FALSE /\ result' = "done"
  <2>1. Becomes([Pot EXCEPT !.slots = Locked(slots, a)]) /\ dynamic' = FALSE /\ result' = "done"
    BY DEF Lock
  <2>2. [Pot EXCEPT !.slots = Locked(slots, a)] = P(Locked(slots, a), size, hash.size, hash.buckets)
    BY <1>1, ObjectIs
  <2> QED BY <2>1, <2>2 DEF Is
<1>4. IInv' /\ props' = f
  BY <1>2, <1>3, Becoming
<1> QED BY <1>3, <1>4 DEF MapLocks, Is

\* Sorting does not show.
LEMMA SortStep ==
    ASSUME IInv, sortProperties
    PROVE  IInv' /\ MapAnswers("done")
<1>1. Pot = P(slots, size, hash.size, hash.buckets) /\ Good(slots, size, hash.size, hash.buckets) /\ dynamic \in BOOLEAN
  BY PotIs DEF IInv
<1>2. PICK ss \in Sorted(slots) : Becomes(ejsIndexProperties([Pot EXCEPT !.slots = ss])) /\ result' = "done" /\ dynamic' = dynamic
  BY DEF sortProperties
<1>3. [Pot EXCEPT !.slots = ss] = P(ss, size, hash.size, hash.buckets)
  BY <1>1, ObjectIs
<1>4. Means(ejsIndexProperties(P(ss, size, hash.size, hash.buckets)), props)
  BY <1>1, SortIs DEF props
<1>5. IInv' /\ props' = props
  BY <1>1, <1>2, <1>3, <1>4, Becoming
<1> QED BY <1>2, <1>5 DEF MapAnswers

\* A copy does not show.
LEMMA CloneStep ==
    ASSUME IInv, Clone
    PROVE  IInv' /\ MapAnswers("done")
<1>1. Good(slots, size, hash.size, hash.buckets) /\ dynamic \in BOOLEAN
  BY DEF IInv
<1> SUFFICES ASSUME NEW p, Is(p, IF Len(slots) > HashMin
                                  THEN ejsIndexProperties(P(Plain(slots), growSlots(0, Len(slots)), 0, <<>>))
                                  ELSE P(Plain(slots), growSlots(0, Len(slots)), 0, <<>>))
             PROVE  IInv' /\ MapAnswers("done")
  BY DEF Is
<1>2. Means(p, props)
  BY <1>1, CloneIs DEF Is, props
<1>3. Becomes(p) /\ result' = "done" /\ dynamic' = dynamic
  BY DEF Clone, Is, Plain, P, NoHash, NumProp
<1>4. IInv' /\ props' = props
  BY <1>1, <1>2, <1>3, Becoming
<1> QED BY <1>3, <1>4 DEF MapAnswers

\* Every step of a script is one of the map.
LEMMA Stepping ==
    ASSUME IInv, Next
    PROVE  IInv' /\ Map!MapNext
<1>1. ASSUME NEW name \in Name, GetByName(name) PROVE IInv' /\ Map!MapNext
  <2>1. IInv' /\ MapReads(Seen(DOMAIN props, name))
    BY <1>1, Lookups, GetStep DEF GetByName
  <2>2. Map!Reads(Map!Visible(name)) /\ name \in Map!Name
    BY <2>1, MapSteps
  <2>3. PICK v \in Value : v = Null
    BY NamesAre
  <2> QED BY <2>1, <2>2, <2>3 DEF Map!MapNext
<1>2. ASSUME NEW name \in Name, DeleteByName(name) PROVE IInv' /\ Map!MapNext
  <2>1. IInv' /\ MapDeletes(Seen(DOMAIN props, name), ~(lookupUnique(Pot, name) # 0))
    BY <1>2, Lookups, DeleteStep DEF DeleteByName
  <2>2. (~(lookupUnique(Pot, name) # 0)) = (~\E q \in Map!Named(name) : Map!Named(name) = {q})
    BY Lookups, MapSteps
  <2>3. Map!Deletes(Map!Visible(name), ~\E q \in Map!Named(name) : Map!Named(name) = {q}) /\ name \in Map!Name
    BY <2>1, <2>2, MapSteps
  <2> QED BY <2>1, <2>3 DEF Map!MapNext
<1>3. ASSUME NEW name \in Name, NEW v \in Value, PutByName(name, v) PROVE IInv' /\ Map!MapNext
  <2>1. Q(Empty, name) \in QName /\ Q(Empty, name).name # Empty
    BY NamesAre DEF Q
  <2>2. IInv' /\ MapWrites(Seen(DOMAIN props, name), Q(Empty, name), v)
    BY <1>3, <2>1, Lookups, PutStep DEF PutByName
  <2>3. Map!Writes(Map!Visible(name), Map!Q(Empty, name), v) /\ name \in Map!Name
    BY <2>2, MapSteps DEF Q, Map!Q
  <2> QED BY <2>2, <2>3 DEF Map!MapNext
<1>4. \A q \in QNames : q \in QName /\ q.name \in Name /\ q.name # Empty
  BY NamesAre
<1>5. ASSUME NEW q \in QNames, q.space # Empty, GetByQName(q) PROVE IInv' /\ Map!MapNext
  <2>1. IInv' /\ MapReads({q} \cap DOMAIN props)
    BY <1>4, <1>5, Lookups, GetStep DEF GetByQName
  <2>2. Map!Reads(Map!Present(q))
    BY <2>1, MapSteps
  <2>3. PICK v \in Value : v = Null
    BY NamesAre
  <2> QED BY <1>5, <2>1, <2>2, <2>3 DEF Map!MapNext
<1>6. ASSUME NEW q \in QNames, q.space # Empty, DeleteByQName(q) PROVE IInv' /\ Map!MapNext
  <2>1. IInv' /\ MapDeletes({q} \cap DOMAIN props, ~TRUE)
    BY <1>4, <1>6, Lookups, DeleteStep DEF DeleteByQName
  <2>2. Map!Deletes(Map!Present(q), FALSE)
    BY <2>1, MapSteps
  <2>3. PICK v \in Value : v = Null
    BY NamesAre
  <2> QED BY <1>6, <2>1, <2>2, <2>3 DEF Map!MapNext
<1>7. ASSUME NEW q \in QNames, q.space # Empty, NEW v \in Value, PutByQName(q, v) PROVE IInv' /\ Map!MapNext
  <2>1. IInv' /\ MapWrites({q} \cap DOMAIN props, q, v)
    BY <1>4, <1>7, Lookups, PutStep DEF PutByQName
  <2>2. Map!Writes(Map!Present(q), q, v)
    BY <2>1, MapSteps
  <2> QED BY <1>7, <2>1, <2>2 DEF Map!MapNext
<1>8. ASSUME NEW q \in QNames, NEW v \in Value, NEW a \in Options, defineProperty(q, v, a) PROVE IInv' /\ Map!MapNext
  <2>1. IInv' /\ MapDefines(q, v, a)
    BY <1>8, DefineStep
  <2>2. Map!Defines(q, v, a)
    BY <2>1, MapSteps
  <2> QED BY <2>1, <2>2 DEF Map!MapNext
<1>9. ASSUME NEW a \in {{}, {"fixed"}, {"fixed", "readonly"}}, Lock(a) PROVE IInv' /\ Map!MapNext
  <2>1. a \in SUBSET Attributes
    BY DEF Attributes
  <2>2. IInv' /\ MapLocks(a)
    BY <1>9, <2>1, LockStep
  <2>3. Map!Locks(a)
    BY <2>2, MapSteps
  <2> QED BY <2>2, <2>3 DEF Map!MapNext
<1>10. ASSUME sortProperties \/ Clone PROVE IInv' /\ Map!MapNext
  <2>1. IInv' /\ MapAnswers("done")
    BY <1>10, SortStep, CloneStep
  <2>2. Map!Answers("done")
    BY <2>1, MapSteps
  <2> QED BY <2>1, <2>2 DEF Map!MapNext
<1>11. (Freeze \/ Seal \/ PreventExtensions) => \E a \in {{}, {"fixed"}, {"fixed", "readonly"}} : Lock(a)
  BY DEF Freeze, Seal, PreventExtensions
<1> QED BY <1>1, <1>2, <1>3, <1>5, <1>6, <1>7, <1>8, <1>9, <1>10, <1>11 DEF Next

\* An object that is made is good, and the empty map.
LEMMA Starting == ASSUME Init PROVE IInv /\ Map!MapInit
<1>1. slots = <<>> /\ size = 0 /\ hash = NoHash /\ dynamic = TRUE /\ result = "done"
  BY DEF Init
<1>2. hash.size = 0 /\ hash.buckets = <<>> /\ hash = [size |-> hash.size, buckets |-> hash.buckets]
  BY <1>1 DEF NoHash
<1>3. <<>> \in Seq(Slot) /\ Len(<<>>) = 0 /\ LiveOf(<<>>) = {}
  BY DEF LiveOf
<1>4. Good(slots, size, hash.size, hash.buckets)
  BY <1>1, <1>2, <1>3 DEF Good, Distinct, Hashes
<1>5. PropsOf(slots) = [q \in {} |-> [value |-> Null, attributes |-> {}]]
  <2>1. PropsOf(<<>>) = [q \in {} |-> [value |-> Null, attributes |-> {}]]
    BY <1>3 DEF PropsOf
  <2> QED BY <1>1, <2>1
<1> QED BY <1>1, <1>2, <1>4, <1>5 DEF IInv, Map!MapInit

\* A step that changes nothing leaves the object good.
LEMMA Stuttering == ASSUME IInv, UNCHANGED vars PROVE IInv' /\ UNCHANGED Map!mapVars
<1>1. UNCHANGED <<slots, size, hash, dynamic>> /\ result' = result
  BY DEF vars
<1>2. IInv' /\ props' = props
  BY <1>1, Staying
<1> QED BY <1>1, <1>2 DEF Map!mapVars, props

\* The hash of an object links all names in use and none of them twice, in every state.
THEOREM Invariance == Spec => []IInv
<1>1. Init => IInv
  BY Starting
<1>2. IInv /\ [Next]_vars => IInv'
  BY Stepping, Stuttering
<1> QED BY <1>1, <1>2, PTL DEF Spec

\* To a script an object is a map: whatever was added, deleted, sorted, copied and hashed
\* anew, lookups, stores, deletions and definitions (ejsPot.c:228 to 496, ejsScope.c:174)
\* do what they would to a map.
THEOREM ObjectIsMap == Spec => IsMap
<1>1. Init => Map!MapInit
  BY Starting
<1>2. IInv /\ [Next]_vars => [Map!MapNext]_(Map!mapVars)
  BY Stepping, Stuttering
<1> QED BY <1>1, <1>2, Invariance, PTL DEF Spec, IsMap, Map!MapSpec

-----------------------------------------------------------------------------
(***************************************************************************)
(* The hash.                                                                *)
(***************************************************************************)

\* A slot with a next has links to a later slot of its bucket, with none between them.
LEMMA NextIs ==
    ASSUME NEW ss, NEW n, NEW b, NEW H, Links(ss, n, b, H), NEW s \in 1..Len(ss), ss[s].hashChain # 0
    PROVE  /\ s \in H /\ s \in Nat /\ ss[s].hashChain \in H /\ ss[s].hashChain \in Nat /\ ss[s].hashChain > s
           /\ Bucket(ss, n, ss[s].hashChain) = Bucket(ss, n, s)
           /\ \A t \in H : t > s /\ Bucket(ss, n, t) = Bucket(ss, n, s) => ss[s].hashChain <= t
<1>1. s \in H /\ ss[s].hashChain = First(Behind(ss, n, H, s)) /\ H \in SUBSET (Nat \ {0})
  <2>1. H \in SUBSET (Nat \ {0})
    BY LinksAre
  <2> QED BY <2>1 DEF Links
<1>2. Behind(ss, n, H, s) \in SUBSET (Nat \ {0})
  BY LinksAre
<1>3. Behind(ss, n, H, s) # {}
  BY <1>1, FirstNone
<1>4. ss[s].hashChain \in Behind(ss, n, H, s) /\ \A t \in Behind(ss, n, H, s) : ss[s].hashChain <= t
  BY <1>1, <1>2, <1>3, FirstIs
<1> QED BY <1>1, <1>4 DEF Behind

\* Chains ascend, share no slot, and pass no head of another.
LEMMA ChainsAre ==
    ASSUME NEW ss, NEW n, NEW b, NEW H, Links(ss, n, b, H)
    PROVE  \A s \in 1..Len(ss) :
               /\ ss[s].hashChain # 0 => ss[s].hashChain > s
               /\ \A t \in 1..Len(ss) : ss[s].hashChain # 0 /\ ss[s].hashChain = ss[t].hashChain => s = t
               /\ \A i \in 0..(n - 1) : ss[s].hashChain # 0 => ss[s].hashChain # b[i]
<1>1. ASSUME NEW s \in 1..Len(ss), ss[s].hashChain # 0 PROVE ss[s].hashChain > s
  BY <1>1, NextIs
<1>2. ASSUME NEW s \in 1..Len(ss), NEW t \in 1..Len(ss), ss[s].hashChain # 0, ss[s].hashChain = ss[t].hashChain, s < t
      PROVE  FALSE
  <2>1. PICK k : k = ss[s].hashChain
    OBVIOUS
  <2>2. t \in H /\ t > s /\ Bucket(ss, n, t) = Bucket(ss, n, k) /\ k > t /\ t \in Nat /\ k \in Nat
    BY <1>2, <2>1, NextIs
  <2>3. Bucket(ss, n, k) = Bucket(ss, n, s)
    BY <1>2, <2>1, NextIs
  <2>4. k <= t
    BY <1>2, <2>1, <2>2, <2>3, NextIs
  <2> QED BY <2>2, <2>4
<1>3. ASSUME NEW s \in 1..Len(ss), NEW i \in 0..(n - 1), ss[s].hashChain # 0, ss[s].hashChain = b[i]
      PROVE  FALSE
  <2>1. PICK k : k = ss[s].hashChain
    OBVIOUS
  <2>2. s \in H /\ s \in Nat /\ k \in Nat /\ k > s /\ Bucket(ss, n, k) = Bucket(ss, n, s)
    BY <1>3, <2>1, NextIs
  <2> DEFINE M == In(ss, n, H, i)
  <2>3. M \in SUBSET (Nat \ {0}) /\ k = First(M)
    <3>1. k = First(M)
      BY <1>3, <2>1 DEF Links
    <3> QED BY <3>1, LinksAre
  <2> HIDE DEF M
  <2>4. M # {}
    BY <1>3, <2>1, <2>3, FirstNone
  <2>5. k \in M /\ \A t \in M : k <= t
    BY <2>3, <2>4, FirstIs
  <2>6. s \in M
    BY <2>2, <2>5 DEF M, In
  <2> QED BY <2>2, <2>5, <2>6
<1>4. ASSUME NEW s \in 1..Len(ss), NEW t \in 1..Len(ss), ss[s].hashChain # 0, ss[s].hashChain = ss[t].hashChain
      PROVE  s = t
  <2>1. s \in Nat /\ t \in Nat
    BY <1>4, NextIs
  <2> QED BY <1>2, <1>4, <2>1
<1> QED BY <1>1, <1>3, <1>4

\* The hash is that of its buckets.
LEMMA HashIs ==
    ASSUME IInv, hash.size # 0
    PROVE  \E H : Links(slots, hash.size, hash.buckets, H)
<1>1. Hashes(slots, hash.size, hash.buckets)
  BY DEF IInv, Good
<1> QED BY <1>1 DEF Hashes

\* The hash of an object finds every property and comes to an end, in every state.
LEMMA HashWorks == ASSUME IInv PROVE HashFinds
<1>1. slots \in Seq(Slot) /\ Distinct(slots) /\ DOMAIN slots = 1..Len(slots)
  <2>1. slots \in Seq(Slot) /\ Distinct(slots)
    BY PotIs
  <2> QED BY <2>1
<1>2. ChainsEnd
  <2> SUFFICES ASSUME hash.size # 0, NEW s \in 1..Len(slots)
               PROVE  /\ slots[s].hashChain # 0 => slots[s].hashChain > s
                      /\ \A t \in 1..Len(slots) : slots[s].hashChain # 0 /\ slots[s].hashChain = slots[t].hashChain => s = t
                      /\ slots[s].hashChain \notin {hash.buckets[i] : i \in DOMAIN hash.buckets} \ {0}
    BY <1>1 DEF ChainsEnd
  <2>1. PICK H : Links(slots, hash.size, hash.buckets, H)
    BY HashIs
  <2>2. DOMAIN hash.buckets = 0..(hash.size - 1)
    BY <2>1 DEF Links
  <2>3. /\ slots[s].hashChain # 0 => slots[s].hashChain > s
        /\ \A t \in 1..Len(slots) : slots[s].hashChain # 0 /\ slots[s].hashChain = slots[t].hashChain => s = t
        /\ \A i \in 0..(hash.size - 1) : slots[s].hashChain # 0 => slots[s].hashChain # hash.buckets[i]
    BY <2>1, ChainsAre
  <2> QED BY <2>2, <2>3
<1>3. LookupFinds
  <2> SUFFICES ASSUME NEW s \in LiveOf(slots) PROVE ejsLookupPotProperty(Pot, slots[s].qname) = s
    BY DEF LookupFinds, Live
  <2>1. PICK q : q = slots[s].qname
    OBVIOUS
  <2>2. q.name \in Name /\ q \in DOMAIN props
    <3>1. q \in NamesOf(slots)
      BY <2>1 DEF NamesOf
    <3>2. q \in DOMAIN props
      BY <3>1, PotIs
    <3> QED BY <1>1, <3>1, <3>2, NamesOfAre
  <2>3. FoundAs(ejsLookupPotProperty(Pot, q), {q} \cap DOMAIN props)
    BY <2>2, Lookups
  <2>4. PICK f : f = ejsLookupPotProperty(Pot, q)
    OBVIOUS
  <2>5. f \in LiveOf(slots) /\ slots[f].qname = q
    BY <2>2, <2>3, <2>4 DEF FoundAs
  <2>6. f = s
    BY <1>1, <2>1, <2>5 DEF Distinct
  <2> QED BY <2>1, <2>4, <2>6
<1> QED BY <1>2, <1>3 DEF HashFinds

\* Whatever slots are linked, unlinked and hashed anew, every property is found by its name
\* and every walk along a chain ends (ejsLookupPotProperty, ejsPot.c:319; assertions of
\* ejsPot.c:842).
THEOREM HashAlwaysFinds == Spec => []HashFinds
BY Invariance, HashWorks, PTL

\* Links and heads of chains are slots that there are.
LEMMA LinksWithin ==
    ASSUME NEW ss, NEW n, NEW b, NEW H, Links(ss, n, b, H)
    PROVE  /\ \A s \in 1..Len(ss) : ss[s].hashChain \in 0..Len(ss)
           /\ \A i \in 0..(n - 1) : b[i] \in 0..Len(ss)
<1>1. \A k : k = 0 \/ k \in H => k \in 0..Len(ss)
  <2>1. H \subseteq 1..Len(ss) /\ Len(ss) \in Nat
    BY LinksAre
  <2>2. \A k \in 1..Len(ss) : k \in 0..Len(ss)
    BY <2>1
  <2>3. 0 \in 0..Len(ss)
    BY <2>1
  <2> QED BY <2>1, <2>2, <2>3
<1>2. ASSUME NEW s \in 1..Len(ss) PROVE ss[s].hashChain \in 0..Len(ss)
  <2>1. ss[s].hashChain = 0 \/ ss[s].hashChain \in H
    BY NextIs
  <2> QED BY <1>1, <2>1
<1>3. ASSUME NEW i \in 0..(n - 1) PROVE b[i] \in 0..Len(ss)
  <2> DEFINE M == In(ss, n, H, i)
  <2>1. M \in SUBSET (Nat \ {0}) /\ b[i] = First(M)
    <3>1. b[i] = First(M)
      BY DEF Links
    <3> QED BY <3>1, LinksAre
  <2>2. M \subseteq H
    BY DEF In
  <2> HIDE DEF M
  <2>3. b[i] = 0 \/ b[i] \in M
    BY <2>1, FirstIs
  <2> QED BY <1>1, <2>2, <2>3
<1> QED BY <1>2, <1>3

\* Slots, space and hash are what they should be.
LEMMA Typing == ASSUME IInv PROVE TypeOK
<1>1. /\ slots \in Seq(Slot) /\ NumProp <= size /\ Hashes(slots, hash.size, hash.buckets) /\ dynamic \in BOOLEAN
      /\ DOMAIN slots = 1..Len(slots) /\ Len(slots) \in Nat /\ \A s \in 1..Len(slots) : slots[s] \in Slot
  BY DEF IInv, Good, NumProp
<1>2. hash.size \in Nat /\ hash.buckets \in [0..(hash.size - 1) -> 0..NumProp] /\ \A s \in 1..Len(slots) : slots[s].hashChain \in 0..NumProp
  <2>1. CASE hash.size = 0 /\ hash.buckets = <<>> /\ \A s \in 1..Len(slots) : slots[s].hashChain = 0
    <3>1. <<>> \in [0..(0 - 1) -> 0..NumProp]
      OBVIOUS
    <3> QED BY <1>1, <2>1, <3>1 DEF NumProp
  <2>2. ASSUME NEW H, Links(slots, hash.size, hash.buckets, H)
        PROVE  /\ hash.size \in Nat /\ hash.buckets \in [0..(hash.size - 1) -> 0..NumProp]
               /\ \A s \in 1..Len(slots) : slots[s].hashChain \in 0..NumProp
    <3>1. hash.size \in Nat /\ hash.buckets \in [0..(hash.size - 1) -> Nat]
      BY <2>2, LinksAre
    <3>2. /\ \A s \in 1..Len(slots) : slots[s].hashChain \in 0..Len(slots)
          /\ \A i \in 0..(hash.size - 1) : hash.buckets[i] \in 0..Len(slots)
      BY <2>2, LinksWithin
    <3> QED BY <3>1, <3>2 DEF NumProp
  <2> QED BY <1>1, <2>1, <2>2 DEF Hashes
<1>3. ASSUME NEW s \in 1..Len(slots) PROVE slots[s] \in SlotType
  <2>1. PICK x : x = slots[s]
    OBVIOUS
  <2>2. x \in Slot /\ x.hashChain \in 0..NumProp
    BY <1>1, <1>2, <2>1
  <2>3. x \in SlotType
    BY <2>2 DEF Slot, SlotType
  <2> QED BY <2>1, <2>3
<1>4. slots \in Seq(SlotType)
  <2>1. slots = [s \in 1..Len(slots) |-> slots[s]]
    BY <1>1
  <2>2. slots \in [1..Len(slots) -> SlotType]
    BY <1>3, <2>1
  <2> QED BY <1>1, <2>2
<1> QED BY <1>1, <1>2, <1>4 DEF TypeOK

\* Slots and buckets stay within the slots there are.
THEOREM TypeCorrect == Spec => []TypeOK
BY Invariance, Typing, PTL
=============================================================================
