-------------------------- MODULE EjsByteArrayProofs --------------------------
(***************************************************************************)
(* Theorems about EjsByteArray, for any sizes of blocks, any arguments of   *)
(* calls, any number of bytes and any depth of observers.                   *)
(***************************************************************************)
EXTENDS EjsByteArray, SequenceTheorems, TLAPS

-----------------------------------------------------------------------------
(***************************************************************************)
(* The bytes between two positions.                                         *)
(***************************************************************************)

\* A function on 1..n is a sequence.
LEMMA FunctionIsSequence ==
    ASSUME NEW S, NEW n \in Nat, NEW f \in [1..n -> S]
    PROVE  f \in Seq(S) /\ Len(f) = n
OBVIOUS

\* The bytes between two positions
Window(v, r, w) == SubSeq(v, r + 1, w)

\* What is between the positions, byte by byte.
LEMMA WindowIs ==
    ASSUME NEW v \in Seq(Nat), NEW r \in Nat, NEW w \in Nat, r <= w, w <= Len(v)
    PROVE  /\ Window(v, r, w) \in Seq(Nat) /\ Len(Window(v, r, w)) = w - r
           /\ \A i \in 1..w - r : Window(v, r, w)[i] = v[r + i]
<1> DEFINE m == r + 1
<1>1. m \in Int /\ w \in Int /\ \A i \in m..w : v[i] \in Nat
  BY LenProperties
<1> HIDE DEF m
<1>2. /\ SubSeq(v, m, w) \in Seq(Nat)
      /\ Len(SubSeq(v, m, w)) = IF m <= w THEN w - m + 1 ELSE 0
      /\ \A i \in 1..w - m + 1 : SubSeq(v, m, w)[i] = v[m + i - 1]
  BY <1>1, SubSeqProperties
<1> QED BY <1>2 DEF m, Window

\* Positions in order and within the block
Span(v, r, w) == v \in Seq(Nat) /\ r \in Nat /\ w \in Nat /\ r <= w /\ w <= Len(v)

\* Bytes are the same, between two positions and between two others
Matches(v, r, w, v2, r2, w2) == w2 - r2 = w - r /\ \A i \in 1..w - r : v2[r2 + i] = v[r + i]

\* New bytes are put behind the old ones
Filled(v, w, v2, w2, n, first) ==
    /\ v2 \in Seq(Nat) /\ n \in Nat /\ first \in Nat /\ w2 = w + n /\ w2 <= Len(v2)
    /\ \A i \in 1..w : v2[i] = v[i]
    /\ \A i \in 1..n : v2[w + i] = first + i - 1

\* The bytes that are written
NewBytes(n, first) == [i \in 1..n |-> first + i - 1]

\* Two runs of the same bytes are one.
LEMMA SameWindow ==
    ASSUME NEW v, NEW r, NEW w, Span(v, r, w), NEW v2, NEW r2, NEW w2, Span(v2, r2, w2), Matches(v, r, w, v2, r2, w2)
    PROVE  Window(v2, r2, w2) = Window(v, r, w)
<1> DEFINE a == Window(v, r, w)
           b == Window(v2, r2, w2)
<1>1. a \in Seq(Nat) /\ Len(a) = w - r /\ \A i \in 1..w - r : a[i] = v[r + i]
  BY WindowIs DEF Span
<1>2. b \in Seq(Nat) /\ Len(b) = w2 - r2 /\ \A i \in 1..w2 - r2 : b[i] = v2[r2 + i]
  BY WindowIs DEF Span
<1> HIDE DEF a, b
<1>3. b = a
  BY <1>1, <1>2, SeqEqual DEF Matches
<1> QED BY <1>3 DEF a, b

\* Bytes that are put behind the others are the last ones.
LEMMA WindowWritten ==
    ASSUME NEW v, NEW r, NEW w, Span(v, r, w),
           NEW v2, NEW w2, NEW n, NEW first, Filled(v, w, v2, w2, n, first)
    PROVE  Window(v2, r, w2) = Window(v, r, w) \o NewBytes(n, first)
<1> DEFINE a == Window(v, r, w)
           b == Window(v2, r, w2)
           c == NewBytes(n, first)
           m == w - r
<1>0. /\ v \in Seq(Nat) /\ r \in Nat /\ w \in Nat /\ r <= w /\ w <= Len(v)
      /\ v2 \in Seq(Nat) /\ n \in Nat /\ first \in Nat /\ w2 = w + n /\ w2 <= Len(v2)
  BY DEF Span, Filled
<1>1. a \in Seq(Nat) /\ Len(a) = m /\ \A i \in 1..m : a[i] = v[r + i]
  BY <1>0, WindowIs
<1>2. b \in Seq(Nat) /\ Len(b) = m + n /\ \A i \in 1..m + n : b[i] = v2[r + i]
  <2>1. w2 \in Nat /\ r <= w2 /\ w2 <= Len(v2) /\ w2 - r = m + n
    BY <1>0
  <2> HIDE DEF m
  <2>2. b \in Seq(Nat) /\ Len(b) = w2 - r /\ \A i \in 1..w2 - r : b[i] = v2[r + i]
    BY <1>0, <2>1, WindowIs
  <2> QED BY <2>1, <2>2
<1>3. c \in Seq(Nat) /\ Len(c) = n /\ \A i \in 1..n : c[i] = first + i - 1
  <2>1. c \in [1..n -> Nat] /\ \A i \in 1..n : c[i] = first + i - 1
    BY <1>0 DEF NewBytes
  <2> HIDE DEF c
  <2> QED BY <1>0, <2>1, FunctionIsSequence
<1>4. m \in Nat /\ w = r + m
  BY <1>0
<1> HIDE DEF a, b, c, m
<1>5. /\ a \o c \in Seq(Nat) /\ Len(a \o c) = m + n
      /\ \A i \in 1..m + n : (a \o c)[i] = IF i <= m THEN a[i] ELSE c[i - m]
  <2>1. /\ a \o c \in Seq(Nat) /\ Len(a \o c) = Len(a) + Len(c)
        /\ \A i \in 1..Len(a) + Len(c) : (a \o c)[i] = IF i <= Len(a) THEN a[i] ELSE c[i - Len(a)]
    BY <1>1, <1>3, ConcatProperties
  <2> QED BY <1>1, <1>3, <2>1
<1>6. \A i \in 1..m + n : b[i] = (a \o c)[i]
  <2> SUFFICES ASSUME NEW i \in 1..m + n PROVE b[i] = (a \o c)[i]
    OBVIOUS
  <2>1. b[i] = v2[r + i] /\ (a \o c)[i] = IF i <= m THEN a[i] ELSE c[i - m]
    BY <1>2, <1>5
  <2>2. CASE i <= m
    <3>1. i \in 1..m /\ r + i \in 1..w
      BY <1>0, <1>4, <2>2
    <3> QED BY <1>1, <2>1, <2>2, <3>1 DEF Filled
  <2>3. CASE i > m
    <3> DEFINE k == i - m
    <3>1. k \in 1..n /\ r + i = w + k /\ ~(i <= m)
      BY <1>0, <1>4, <2>3
    <3> HIDE DEF k
    <3>2. b[i] = v2[w + k] /\ v2[w + k] = first + k - 1 /\ c[k] = first + k - 1
      BY <1>3, <2>1, <3>1 DEF Filled
    <3>3. (a \o c)[i] = c[k]
      BY <2>1, <3>1 DEF k
    <3> QED BY <3>2, <3>3
  <2>4. i <= m \/ i > m
    BY <1>0, <1>4
  <2> QED BY <2>2, <2>3, <2>4
<1>7. b = a \o c
  BY <1>2, <1>5, <1>6, SeqEqual
<1> QED BY <1>7 DEF a, b, c

\* A part of what is between the positions is what is between two others.
LEMMA WindowPart ==
    ASSUME NEW v, NEW r, NEW w, Span(v, r, w), NEW x \in 0..w - r, NEW y \in 0..w - r
    PROVE  Window(Window(v, r, w), x, y) = Window(v, r + x, r + y)
<1> DEFINE a == Window(v, r, w)
           rx == r + x
           ry == r + y
<1>0. v \in Seq(Nat) /\ r \in Nat /\ w \in Nat /\ r <= w /\ w <= Len(v)
  BY DEF Span
<1>1. a \in Seq(Nat) /\ Len(a) = w - r /\ \A i \in 1..w - r : a[i] = v[r + i]
  BY <1>0, WindowIs
<1> HIDE DEF a
<1>2. CASE y <= x
  <2>1. Window(a, x, y) = <<>>
    BY <1>0, <1>2, SubSeqEmpty DEF Window
  <2>2. rx + 1 \in Int /\ ry \in Int /\ ry < rx + 1
    BY <1>0, <1>2
  <2> HIDE DEF rx, ry
  <2>3. Window(v, rx, ry) = <<>>
    BY <2>2, SubSeqEmpty DEF Window
  <2> QED BY <2>1, <2>3 DEF a, rx, ry
<1>3. CASE x < y
  <2>1. Span(a, x, y) /\ Span(v, rx, ry)
    BY <1>0, <1>1, <1>3 DEF Span
  <2>2. Matches(v, rx, ry, a, x, y)
    BY <1>0, <1>1, <1>3 DEF Matches
  <2> HIDE DEF rx, ry
  <2>3. Window(a, x, y) = Window(v, rx, ry)
    BY <2>1, <2>2, SameWindow
  <2> QED BY <2>3 DEF a, rx, ry
<1> QED BY <1>0, <1>2, <1>3

-----------------------------------------------------------------------------
(***************************************************************************)
(* Steps of the block and its positions, and what they are to the queue.    *)
(***************************************************************************)
bytes == Window(value, readPosition, writePosition)

BlockOK ==
    /\ value \in Seq(Nat) /\ readPosition \in Nat /\ writePosition \in Nat
    /\ readPosition <= writePosition /\ writePosition <= Len(value)
    /\ growInc \in Nat /\ next \in Nat

Allowed == Queue!Next \/ Queue!Idle

\* The bytes between the positions are as many as their distance.
LEMMA BytesAre ==
    ASSUME BlockOK
    PROVE  bytes \in Seq(Nat) /\ Len(bytes) = availableBytes /\ availableBytes \in Nat
<1> DEFINE v == value
           r == readPosition
           w == writePosition
<1>1. v \in Seq(Nat) /\ r \in Nat /\ w \in Nat /\ r <= w /\ w <= Len(v) /\ w - r \in Nat
  BY DEF BlockOK
<1> HIDE DEF v, r, w
<1>2. Window(v, r, w) \in Seq(Nat) /\ Len(Window(v, r, w)) = w - r
  BY <1>1, WindowIs
<1> QED BY <1>1, <1>2 DEF v, r, w, bytes, availableBytes

\* A step that leaves the bytes and returns none is none of the queue.
LEMMA IdleStep ==
    ASSUME bytes' = bytes, next' = next, Quiet
    PROVE  Allowed
BY DEF Allowed, Queue!Idle, Quiet, Did, bytes, Window

\* What is put behind the bytes is written, if only nothing.
LEMMA WriteStep ==
    ASSUME BlockOK, NEW n \in Nat, bytes' = bytes \o NewBytes(n, next), next' = next + n, Quiet
    PROVE  Allowed
<1>1. CASE n = 0
  <2>1. NewBytes(n, next) = <<>>
    BY <1>1 DEF NewBytes
  <2>2. bytes \o <<>> = bytes
    BY BytesAre, ConcatEmptySeq
  <2>3. bytes' = bytes /\ next' = next
    <3>1. bytes' = bytes
      BY <2>1, <2>2
    <3>2. next' = next
      BY <1>1 DEF BlockOK
    <3> QED BY <3>1, <3>2
  <2> QED BY <2>3, IdleStep
<1>2. CASE n > 0
  <2>1. n \in 1..(next' - next)
    BY <1>2 DEF BlockOK
  <2>2. Queue!Write(n)
    BY DEF Queue!Write, Quiet, Did, bytes, Window, NewBytes
  <2> QED BY <2>1, <2>2 DEF Allowed, Queue!Next
<1> QED BY <1>1, <1>2

\* A part of the bytes, as positions of the block.
LEMMA PartIs ==
    ASSUME BlockOK, NEW x \in 0..availableBytes, NEW y \in 0..availableBytes
    PROVE  Window(bytes, x, y) = Window(value, readPosition + x, readPosition + y)
<1> DEFINE v == value
           r == readPosition
           w == writePosition
<1>1. Span(v, r, w) /\ x \in 0..w - r /\ y \in 0..w - r
  BY DEF BlockOK, availableBytes, Span
<1> HIDE DEF v, r, w
<1>2. Window(Window(v, r, w), x, y) = Window(v, r + x, r + y)
  BY <1>1, WindowPart
<1> QED BY <1>2 DEF v, r, w, bytes

\* The first bytes are returned and the others stay.
LEMMA ReadStep ==
    ASSUME BlockOK, NEW n \in 0..availableBytes, bytes' = Window(bytes, n, Len(bytes)), next' = next, Got(n)
    PROVE  Allowed
<1>1. bytes \in Seq(Nat) /\ Len(bytes) = availableBytes /\ availableBytes \in Nat /\ n \in Nat /\ n <= Len(bytes)
  BY BytesAre
<1>2. taken' = Window(bytes, 0, n)
  <2>1. Window(bytes, 0, n) = Window(value, readPosition + 0, readPosition + n)
    BY <1>1, PartIs
  <2>2. readPosition + 0 = readPosition
    BY DEF BlockOK
  <2> QED BY <2>1, <2>2 DEF Got, Did, Window
<1>3. CASE n = 0
  <2>1. SubSeq(bytes, 1, Len(bytes)) = bytes
    BY <1>1, SubSeqFull
  <2>2. SubSeq(bytes, 1, 0) = <<>>
    BY <1>1, SubSeqEmpty
  <2>3. bytes' = bytes /\ taken' = <<>>
    BY <1>2, <1>3, <2>1, <2>2 DEF Window
  <2> QED BY <2>3, IdleStep DEF Got, Quiet, Did
<1>4. CASE n > 0
  <2>1. n \in 1..Len(bytes)
    BY <1>1, <1>4
  <2>2. ~drops'
    BY DEF Got, Did
  <2>3. taken' = SubSeq(bytes, 1, n) /\ bytes' = SubSeq(bytes, n + 1, Len(bytes))
    BY <1>2 DEF Window
  <2>5. Queue!Read(n)
    BY <2>2, <2>3 DEF Queue!Read, bytes, Window
  <2>4. n \in 1..Len(SubSeq(value, readPosition + 1, writePosition))
    BY <2>1 DEF bytes, Window
  <2> QED BY <2>4, <2>5 DEF Allowed, Queue!Next
<1> QED BY <1>1, <1>3, <1>4

\* Bytes at the ends go because they are asked to.
LEMMA DropStep ==
    ASSUME BlockOK, NEW x \in 0..availableBytes, NEW y \in 0..availableBytes,
           bytes' = Window(bytes, x, y), next' = next, Drops
    PROVE  Allowed
<1>1. Len(bytes) = availableBytes /\ availableBytes \in Nat
  BY BytesAre
<1>2. x + 1 \in 1..Len(bytes) + 1 /\ y \in 0..Len(bytes)
  BY <1>1
<1>3. Queue!Discard(x + 1, y)
  BY DEF Queue!Discard, Drops, Did, bytes, Window
<1>4. /\ x + 1 \in 1..Len(SubSeq(value, readPosition + 1, writePosition)) + 1
      /\ y \in 0..Len(SubSeq(value, readPosition + 1, writePosition))
  BY <1>2 DEF bytes, Window
<1> QED BY <1>3, <1>4 DEF Allowed, Queue!Next

\* Positions that are both 0 leave no bytes between them.
LEMMA NoBytes ==
    ASSUME readPosition' = 0, writePosition' = 0
    PROVE  bytes' = <<>>
BY SubSeqEmpty DEF bytes, Window

\* flush and close: all bytes go.
LEMMA AllDropped ==
    ASSUME BlockOK, readPosition' = 0, writePosition' = 0, next' = next, Drops
    PROVE  Allowed
<1>1. Window(bytes, 0, 0) = <<>>
  BY SubSeqEmpty DEF Window
<1>2. availableBytes \in Nat
  BY BytesAre
<1> QED BY <1>1, <1>2, NoBytes, DropStep

\* An empty array may have its positions set to 0 (getInput).
LEMMA EmptyReset ==
    ASSUME BlockOK, availableBytes = 0, readPosition' = 0, writePosition' = 0, next' = next, Quiet
    PROVE  Allowed
<1>1. bytes = <<>>
  BY BytesAre, EmptySeq
<1> QED BY <1>1, NoBytes, IdleStep

\* The block grows behind its bytes (ejsGrowByteArray).
LEMMA GrownIs ==
    ASSUME BlockOK, NEW require \in Nat
    PROVE  /\ Grown(require) \in Seq(Nat) /\ Len(value) <= Len(Grown(require))
           /\ \A i \in 1..Len(value) : Grown(require)[i] = value[i]
<1> DEFINE k == IF room < require THEN Higher(require, growInc) ELSE 0
           more == [i \in 1..k |-> 0]
<1>1. k \in Nat
  BY DEF BlockOK, Higher
<1> HIDE DEF k
<1>2. more \in Seq(Nat) /\ Len(more) = k
  <2>1. more \in [1..k -> Nat]
    BY <1>1
  <2> HIDE DEF more
  <2> QED BY <1>1, <2>1, FunctionIsSequence
<1>3. value \in Seq(Nat) /\ Len(value) \in Nat
  BY LenProperties DEF BlockOK
<1> HIDE DEF more
<1>4. /\ value \o more \in Seq(Nat) /\ Len(value \o more) = Len(value) + Len(more)
      /\ \A i \in 1..Len(value) + Len(more) :
           (value \o more)[i] = IF i <= Len(value) THEN value[i] ELSE more[i - Len(value)]
  BY <1>2, <1>3, ConcatProperties
<1>5. Grown(require) = value \o more
  BY DEF Grown, more, k
<1>6. \A i \in 1..Len(value) : i \in 1..Len(value) + Len(more) /\ i <= Len(value)
  BY <1>1, <1>2, <1>3
<1> QED BY <1>1, <1>2, <1>3, <1>4, <1>5, <1>6

\* The next increment is a number (ejsGrowByteArray).
LEMMA GrowIncIs ==
    ASSUME Arguments, BlockOK, NEW require \in Nat, ejsGrowByteArray(require)
    PROVE  growInc' \in Nat
BY DEF Arguments, BlockOK, ejsGrowByteArray, Lower

\* Bytes that are put at the write position are written: the old ones stay, and
\* the new ones are behind them.
LEMMA PutStep ==
    ASSUME Arguments, BlockOK, NEW count \in Nat, NEW require \in Nat, Put(writePosition, count, require),
           readPosition' = readPosition, Quiet
    PROVE  BlockOK' /\ Allowed
<1> DEFINE g == Grown(require)
           w == writePosition
<1>1. g \in Seq(Nat) /\ Len(value) <= Len(g) /\ \A i \in 1..Len(value) : g[i] = value[i]
  BY GrownIs
<1>2. Len(g) \in Nat /\ DOMAIN g = 1..Len(g) /\ \A i \in 1..Len(g) : g[i] \in Nat
  BY <1>1, LenProperties
<1>3. /\ value \in Seq(Nat) /\ Len(value) \in Nat /\ w \in Nat /\ readPosition \in Nat /\ next \in Nat
      /\ readPosition <= w /\ w <= Len(value)
  BY LenProperties DEF BlockOK
<1>4. /\ w + count <= Len(g) /\ writePosition' = w + count /\ next' = next + count
      /\ value' = [i \in DOMAIN g |-> IF i - w \in 1..count THEN next + i - w - 1 ELSE g[i]]
      /\ ejsGrowByteArray(require)
  BY DEF Put
<1> HIDE DEF g, w
<1>5. value' \in Seq(Nat) /\ Len(value') = Len(g)
  <2>1. value' \in [1..Len(g) -> Nat]
    BY <1>2, <1>3, <1>4
  <2> QED BY <1>2, <2>1, FunctionIsSequence
<1>6. growInc' \in Nat
  BY <1>4, GrowIncIs
<1>7. BlockOK'
  BY <1>2, <1>3, <1>4, <1>5, <1>6 DEF BlockOK
<1>8. Filled(value, w, value', w + count, count, next)
  <2>1. ASSUME NEW i \in 1..w PROVE value'[i] = value[i]
    <3>1. i \in 1..Len(g) /\ i \in 1..Len(value) /\ ~(i - w \in 1..count)
      BY <1>1, <1>2, <1>3
    <3> QED BY <1>1, <1>2, <1>4, <3>1
  <2>2. ASSUME NEW i \in 1..count PROVE value'[w + i] = next + i - 1
    <3>1. w + i \in 1..Len(g) /\ (w + i) - w \in 1..count /\ next + (w + i) - w - 1 = next + i - 1
      BY <1>2, <1>3, <1>4
    <3> QED BY <1>2, <1>4, <3>1
  <2> QED BY <1>3, <1>4, <1>5, <2>1, <2>2 DEF Filled
<1>9. bytes' = bytes \o NewBytes(count, next)
  <2> DEFINE v == value
             v2 == value'
             r == readPosition
             first == next
             w2 == writePosition'
  <2>1. Span(v, r, w) /\ Filled(v, w, v2, w2, count, first)
    BY <1>3, <1>4, <1>8 DEF Span
  <2> HIDE DEF v, v2, r, first, w2
  <2>2. Window(v2, r, w2) = Window(v, r, w) \o NewBytes(count, first)
    BY <2>1, WindowWritten
  <2> QED BY <2>2 DEF v, v2, r, first, bytes, w, w2
<1>10. Allowed
  BY <1>4, <1>9, WriteStep
<1> QED BY <1>7, <1>10

\* A read at the read position takes the first bytes, and empties the array if
\* they were all (adjustReadPosition).
LEMMA TakeStep ==
    ASSUME BlockOK, NEW n \in 0..availableBytes, Got(n), UNCHANGED <<block, next>>,
           \/ readPosition' = readPosition + n /\ writePosition' = writePosition
           \/ readPosition + n = writePosition /\ readPosition' = 0 /\ writePosition' = 0
    PROVE  BlockOK' /\ Allowed
<1>1. Len(bytes) = availableBytes /\ availableBytes \in Nat /\ n \in 0..availableBytes /\ availableBytes \in 0..availableBytes
  BY BytesAre
<1>2. BlockOK'
  <2>1. n \in Nat /\ readPosition + n <= writePosition
    BY <1>1 DEF BlockOK, availableBytes
  <2> QED BY <2>1 DEF BlockOK, block
<1>3. bytes' = Window(bytes, n, Len(bytes))
  <2>1. Window(bytes, n, availableBytes) = Window(value, readPosition + n, readPosition + availableBytes)
    BY <1>1, PartIs
  <2>2. readPosition + availableBytes = writePosition
    BY DEF BlockOK, availableBytes
  <2>3. CASE readPosition' = readPosition + n /\ writePosition' = writePosition
    BY <1>1, <2>1, <2>2, <2>3 DEF block, bytes
  <2>4. CASE readPosition + n = writePosition /\ readPosition' = 0 /\ writePosition' = 0
    <3>1. n = availableBytes
      BY <1>1, <2>4 DEF BlockOK, availableBytes
    <3>2. Window(bytes, n, n) = <<>>
      BY <1>1, SubSeqEmpty DEF Window
    <3> QED BY <1>1, <2>4, <3>1, <3>2, NoBytes
  <2> QED BY <2>3, <2>4
<1>4. Allowed
  BY <1>3, ReadStep
<1> QED BY <1>2, <1>4

-----------------------------------------------------------------------------
(***************************************************************************)
(* The stack of calls and observers.                                        *)
(***************************************************************************)
Names == Events \cup {"writeNumber", "write", "readNumber", "readString", "read", "flush", "closing"}
Places == {"begin", "end", "room", "done", "next", "copy", "take", "reset", "zero"}

\* What may be written: other ByteArrays to those that grow and have no reader
Kinds == IF resizable /\ "readable" \notin listening THEN {"string", "bytes"} ELSE {"string"}

FrameSet(kinds) ==
    [call : Names, at : Places, need : Int, pieces : Seq([kind : kinds, length : Nat]), offset : Nat]

\* What a call needs is a number of bytes, and what waits for room is a piece
Sound(f) ==
    /\ f.call \in {"writeNumber", "readNumber", "read"} => f.need >= 0
    /\ (f.call = "write" /\ f.at \in {"room", "copy"}) => f.pieces # <<>>
    /\ f.at = "copy" => f.call = "write"

\* No call is about to copy an array
Plain(st, kinds) == st \in Seq(FrameSet(kinds)) /\ \A i \in 1..Len(st) : Sound(st[i]) /\ st[i].at # "copy"

\* A call that is about to copy an array is on top, and is told where to put it
StackOK(st, kinds, w) ==
    st # <<>> =>
        /\ Plain(Front(st), kinds) /\ Last(st) \in FrameSet(kinds) /\ Sound(Last(st))
        /\ st = Append(Front(st), Last(st))
        /\ Last(st).at = "copy" => Last(st).offset = w /\ Head(Last(st).pieces).kind = "bytes"

\* The events of observers, and those that wait for them
ListenersOK ==
    /\ listening \subseteq Events /\ pending \in [Events -> Nat] /\ reader \in BOOLEAN
    /\ reader => "readable" \in listening

\* A stack with one more frame.
LEMMA Pushed ==
    ASSUME NEW S, NEW st \in Seq(S), NEW f \in S
    PROVE  /\ Append(st, f) \in Seq(S) /\ Append(st, f) # <<>>
           /\ Front(Append(st, f)) = st /\ Last(Append(st, f)) = f
<1> DEFINE r == Append(st, f)
           n == Len(st)
<1>1. n \in Nat /\ \A i \in 1..n : st[i] \in S
  BY LenProperties
<1>2. /\ r \in Seq(S) /\ Len(r) = n + 1
      /\ \A i \in 1..n : r[i] = st[i]
      /\ r[n + 1] = f
  BY AppendProperties
<1> HIDE DEF r
<1>3. /\ SubSeq(r, 1, n) \in Seq(S) /\ Len(SubSeq(r, 1, n)) = n
      /\ \A i \in 1..n : SubSeq(r, 1, n)[i] = r[i]
  <2>1. 1 \in Int /\ n \in Int /\ \A i \in 1..n : r[i] \in S
    BY <1>1, <1>2
  <2> HIDE DEF n
  <2>2. /\ SubSeq(r, 1, n) \in Seq(S) /\ Len(SubSeq(r, 1, n)) = IF 1 <= n THEN n - 1 + 1 ELSE 0
        /\ \A i \in 1..n - 1 + 1 : SubSeq(r, 1, n)[i] = r[1 + i - 1]
    BY <2>1, SubSeqProperties
  <2> QED BY <1>1, <2>2
<1>4. SubSeq(r, 1, n) = st
  BY <1>1, <1>2, <1>3, SeqEqual
<1>5. Front(r) = st /\ Last(r) = f
  BY <1>1, <1>2, <1>4 DEF Front, Last
<1>6. r # <<>>
  BY <1>1, <1>2
<1> QED BY <1>2, <1>5, <1>6 DEF r

\* Without a frame on top, a stack is the one below it.
LEMMA Popped ==
    ASSUME NEW S, NEW st \in Seq(S), st # <<>>
    PROVE  /\ Front(st) \in Seq(S) /\ Last(st) \in S /\ st = Append(Front(st), Last(st))
           /\ Len(Front(st)) = Len(st) - 1 /\ \A i \in 1..Len(st) - 1 : Front(st)[i] = st[i]
<1> DEFINE n == Len(st)
           m == n - 1
           r == SubSeq(st, 1, m)
<1>1. n \in Nat /\ n >= 1 /\ \A i \in 1..n : st[i] \in S
  BY LenProperties, EmptySeq
<1>2. /\ r \in Seq(S) /\ Len(r) = m /\ \A i \in 1..m : r[i] = st[i]
  <2>1. 1 \in Int /\ m \in Int /\ \A i \in 1..m : st[i] \in S
    BY <1>1
  <2> HIDE DEF m
  <2>2. /\ r \in Seq(S) /\ Len(r) = IF 1 <= m THEN m - 1 + 1 ELSE 0
        /\ \A i \in 1..m - 1 + 1 : r[i] = st[1 + i - 1]
    BY <2>1, SubSeqProperties
  <2>3. m \in Nat
    BY <1>1 DEF m
  <2> QED BY <2>2, <2>3
<1> HIDE DEF r
<1>3. Last(st) = st[n] /\ Last(st) \in S
  BY <1>1 DEF Last
<1> DEFINE f == Last(st)
<1> HIDE DEF f, n
<1>4. /\ Append(r, f) \in Seq(S) /\ Len(Append(r, f)) = m + 1
      /\ \A i \in 1..m : Append(r, f)[i] = r[i]
      /\ Append(r, f)[m + 1] = f
  BY <1>2, <1>3, AppendProperties DEF f
<1>5. Append(r, f) = st
  <2>1. n = m + 1 /\ Len(Append(r, f)) = Len(st)
    BY <1>1, <1>4 DEF n
  <2>2. \A i \in 1..Len(st) : Append(r, f)[i] = st[i]
    BY <1>1, <1>2, <1>3, <1>4, <2>1 DEF f, n
  <2> QED BY <1>4, <2>1, <2>2, SeqEqual
<1>6. Front(st) = r
  BY DEF Front, r, n
<1> QED BY <1>2, <1>3, <1>5, <1>6 DEF f, n

\* What is plain stays so with a plain frame on top (a call or an observer).
LEMMA PushPlain ==
    ASSUME NEW kinds, NEW st, Plain(st, kinds), NEW f \in FrameSet(kinds), Sound(f), f.at # "copy"
    PROVE  Plain(Append(st, f), kinds)
<1>1. st \in Seq(FrameSet(kinds)) /\ Len(st) \in Nat
  BY LenProperties DEF Plain
<1>2. /\ Append(st, f) \in Seq(FrameSet(kinds)) /\ Len(Append(st, f)) = Len(st) + 1
      /\ \A i \in 1..Len(st) : Append(st, f)[i] = st[i]
      /\ Append(st, f)[Len(st) + 1] = f
  BY <1>1, AppendProperties
<1>3. ASSUME NEW i \in 1..Len(st) + 1 PROVE Sound(Append(st, f)[i]) /\ Append(st, f)[i].at # "copy"
  <2>1. CASE i = Len(st) + 1
    BY <1>2, <2>1
  <2>2. CASE i # Len(st) + 1
    <3>1. i \in 1..Len(st)
      BY <1>1, <2>2
    <3> QED BY <1>2, <3>1 DEF Plain
  <2> QED BY <2>1, <2>2
<1> QED BY <1>2, <1>3 DEF Plain

\* A plain stack is one in order, wherever the write position is.
LEMMA PlainIsOK ==
    ASSUME NEW kinds, NEW st, Plain(st, kinds), NEW w
    PROVE  StackOK(st, kinds, w)
<1> SUFFICES ASSUME st # <<>> PROVE StackOK(st, kinds, w)
  BY DEF StackOK
<1>1. st \in Seq(FrameSet(kinds)) /\ Len(st) \in Nat /\ Len(st) >= 1
  BY LenProperties, EmptySeq DEF Plain
<1>2. /\ Front(st) \in Seq(FrameSet(kinds)) /\ Last(st) \in FrameSet(kinds) /\ st = Append(Front(st), Last(st))
      /\ Len(Front(st)) = Len(st) - 1 /\ \A i \in 1..Len(st) - 1 : Front(st)[i] = st[i]
  BY <1>1, Popped
<1>3. Sound(Last(st)) /\ Last(st).at # "copy"
  BY <1>1 DEF Plain, Last
<1>4. Plain(Front(st), kinds)
  BY <1>1, <1>2 DEF Plain
<1> QED BY <1>2, <1>3, <1>4 DEF StackOK

\* A stack that nobody is about to copy an array to is plain.
LEMMA OKIsPlain ==
    ASSUME NEW kinds, NEW st, NEW w, StackOK(st, kinds, w), st # <<>> => Last(st).at # "copy"
    PROVE  Plain(st, kinds)
<1>1. CASE st = <<>>
  BY <1>1, EmptySeq DEF Plain
<1>2. CASE st # <<>>
  <2> DEFINE a == Front(st)
             f == Last(st)
  <2>1. Plain(a, kinds) /\ f \in FrameSet(kinds) /\ Sound(f) /\ f.at # "copy" /\ st = Append(a, f)
    BY <1>2 DEF StackOK
  <2> HIDE DEF a, f
  <2> QED BY <2>1, PushPlain
<1> QED BY <1>1, <1>2

\* With a sound frame on top of a plain stack, the stack is in order.
LEMMA PushOK ==
    ASSUME NEW kinds, NEW st, Plain(st, kinds), NEW f \in FrameSet(kinds), Sound(f), NEW w,
           f.at = "copy" => f.offset = w /\ Head(f.pieces).kind = "bytes"
    PROVE  StackOK(Append(st, f), kinds, w)
<1>1. /\ Append(st, f) \in Seq(FrameSet(kinds)) /\ Front(Append(st, f)) = st /\ Last(Append(st, f)) = f
  BY Pushed DEF Plain
<1> QED BY <1>1 DEF StackOK

\* ejsSendEvent leaves a plain stack plain.
LEMMA SendsPlain ==
    ASSUME NEW kinds, NEW frames, Plain(frames, kinds), ListenersOK, NEW event \in Events, Sends(event, frames)
    PROVE  Plain(stack', kinds) /\ pending' \in [Events -> Nat]
<1>1. CASE stack' = frames
  BY <1>1 DEF Sends, ListenersOK
<1>2. CASE stack' = Append(frames, Observer(event)) /\ UNCHANGED pending
  <2> DEFINE f == Observer(event)
  <2>1. f \in FrameSet(kinds) /\ Sound(f) /\ f.at # "copy"
    BY EmptySeq DEF Observer, Frame, FrameSet, Names, Places, Sound, Events
  <2> HIDE DEF f
  <2>2. Plain(Append(frames, f), kinds)
    BY <2>1, PushPlain
  <2> QED BY <1>2, <2>2 DEF f, ListenersOK
<1> QED BY <1>1, <1>2 DEF Sends

-----------------------------------------------------------------------------
(***************************************************************************)
(* An observer that reads all it is told of, and who is going to tell it.   *)
(***************************************************************************)

\* A read of all there is is under way, or the observer is called once more
Deep(st, waits) ==
    \/ \E i \in 1..Len(st) : st[i].call = "readString" /\ st[i].need < 0
    \/ waits["readable"] > 0 /\ \E i \in 1..Len(st) : st[i].call = "readable"

\* The observer is about to read, or a write goes on that tells it in the end
OnTop(st, left) ==
    /\ st # <<>>
    /\ \/ Last(st).call = "write" /\ Last(st).at = "next"
       \/ Last(st).call = "write" /\ Last(st).at = "room" /\ Head(Last(st).pieces).length <= left
       \/ Last(st).call = "readable" /\ Last(st).at = "begin"

Told == (reader /\ availableBytes > 0) => (Deep(stack, pending) \/ OnTop(stack, room))

\* The inductive invariant
IInv == BlockOK /\ ListenersOK /\ StackOK(stack, Kinds, writePosition) /\ Told

\* What is under way goes on under another frame.
LEMMA DeepPush ==
    ASSUME NEW S, NEW st \in Seq(S), NEW f \in S, NEW waits, Deep(st, waits)
    PROVE  Deep(Append(st, f), waits)
<1>1. /\ Len(st) \in Nat /\ Len(Append(st, f)) = Len(st) + 1
      /\ \A i \in 1..Len(st) : Append(st, f)[i] = st[i]
  BY LenProperties, AppendProperties
<1>2. \A i \in 1..Len(st) : i \in 1..Len(Append(st, f))
  BY <1>1
<1> QED BY <1>1, <1>2 DEF Deep

\* What is under way goes on when a frame goes that had no part in it.
LEMMA DeepPop ==
    ASSUME NEW S, NEW st \in Seq(S), NEW f \in S, NEW waits, Deep(Append(st, f), waits),
           ~(f.call = "readString" /\ f.need < 0), ~(f.call = "readable" /\ waits["readable"] > 0)
    PROVE  Deep(st, waits)
<1>1. /\ Len(st) \in Nat /\ Len(Append(st, f)) = Len(st) + 1
      /\ \A i \in 1..Len(st) : Append(st, f)[i] = st[i]
      /\ Append(st, f)[Len(st) + 1] = f
  BY LenProperties, AppendProperties
<1>2. \A i \in 1..Len(Append(st, f)) : i \in 1..Len(st) \/ i = Len(st) + 1
  BY <1>1
<1>3. CASE \E i \in 1..Len(Append(st, f)) : Append(st, f)[i].call = "readString" /\ Append(st, f)[i].need < 0
  BY <1>1, <1>2, <1>3 DEF Deep
<1>4. CASE waits["readable"] > 0 /\ \E i \in 1..Len(Append(st, f)) : Append(st, f)[i].call = "readable"
  BY <1>1, <1>2, <1>4 DEF Deep
<1> QED BY <1>3, <1>4 DEF Deep

\* Events that are sent leave what is under way, and more may wait.
LEMMA DeepSends ==
    ASSUME NEW kinds, NEW frames, Plain(frames, kinds), ListenersOK, NEW event \in Events,
           Sends(event, frames) \/ Goes(frames), Deep(frames, pending)
    PROVE  Deep(stack', pending')
<1>1. CASE stack' = frames /\ pending' = pending
  BY <1>1
<1>2. CASE stack' = frames /\ pending' = [pending EXCEPT ![event] = @ + 1]
  <2>1. pending'["readable"] \in Nat /\ (pending["readable"] > 0 => pending'["readable"] > 0)
    BY <1>2 DEF ListenersOK, Events
  <2> QED BY <1>2, <2>1 DEF Deep
<1>3. CASE stack' = Append(frames, Observer(event)) /\ pending' = pending
  <2> DEFINE f == Observer(event)
  <2>1. f \in FrameSet(kinds) /\ frames \in Seq(FrameSet(kinds))
    BY EmptySeq DEF Observer, Frame, FrameSet, Names, Places, Events, Plain
  <2> HIDE DEF f
  <2>2. Deep(Append(frames, f), pending)
    BY <2>1, DeepPush
  <2> QED BY <1>3, <2>2 DEF f
<1> QED BY <1>1, <1>2, <1>3 DEF Sends, Goes

\* The observer that reads all is told of what was written: it is called at once,
\* or once more if it runs.
LEMMA ReaderIsTold ==
    ASSUME NEW kinds, NEW frames, Plain(frames, kinds), ListenersOK, reader, Sends("readable", frames),
           Runs("readable") => \E i \in 1..Len(frames) : frames[i].call = "readable", NEW left
    PROVE  Deep(stack', pending') \/ OnTop(stack', left)
<1>1. "readable" \in listening /\ "readable" \in Events
  BY DEF ListenersOK, Events
<1>2. CASE Runs("readable")
  <2>1. stack' = frames /\ pending' = [pending EXCEPT !["readable"] = @ + 1]
    BY <1>1, <1>2 DEF Sends
  <2>2. pending'["readable"] > 0
    BY <1>1, <2>1 DEF ListenersOK
  <2> QED BY <1>2, <2>1, <2>2 DEF Deep
<1>3. CASE ~Runs("readable")
  <2> DEFINE f == Observer("readable")
  <2>1. stack' = Append(frames, f)
    BY <1>1, <1>3 DEF Sends
  <2>2. f \in FrameSet(kinds) /\ f.call = "readable" /\ f.at = "begin" /\ frames \in Seq(FrameSet(kinds))
    BY <1>1, EmptySeq DEF Observer, Frame, FrameSet, Names, Places, Plain
  <2> HIDE DEF f
  <2>3. stack' # <<>> /\ Last(stack') = f
    BY <2>1, <2>2, Pushed
  <2> QED BY <2>2, <2>3 DEF OnTop
<1> QED BY <1>2, <1>3

\* The frame on top stands for another of the same call.
LEMMA RunsStill ==
    ASSUME NEW S, NEW st \in Seq(S), NEW f \in S, NEW g \in S, f.call = g.call, stack = Append(st, f), Runs("readable")
    PROVE  \E i \in 1..Len(Append(st, g)) : Append(st, g)[i].call = "readable"
<1>1. /\ Len(st) \in Nat /\ Len(Append(st, g)) = Len(st) + 1
      /\ \A i \in 1..Len(st) : Append(st, g)[i] = st[i]
      /\ Append(st, g)[Len(st) + 1] = g
  BY LenProperties, AppendProperties
<1>2. /\ stack \in Seq(S) /\ Len(stack) = Len(st) + 1
      /\ \A i \in 1..Len(st) : stack[i] = st[i]
      /\ stack[Len(st) + 1] = f
  BY LenProperties, AppendProperties
<1>3. PICK i \in 1..Len(st) + 1 : stack[i].call = "readable"
  BY <1>1, <1>2, LenProperties DEF Runs
<1>4. i \in 1..Len(st) \/ i = Len(st) + 1
  BY <1>1
<1> QED BY <1>1, <1>2, <1>3, <1>4

\* The parts of the invariant after a step that leaves the listeners.
LEMMA Concludes ==
    ASSUME IInv, BlockOK', UNCHANGED <<listening, reader, resizable>>, pending' \in [Events -> Nat],
           StackOK(stack', Kinds, writePosition'), Told'
    PROVE  IInv'
<1>1. Kinds' = Kinds
  BY DEF Kinds
<1>2. ListenersOK'
  BY DEF IInv, ListenersOK
<1> QED BY <1>1, <1>2 DEF IInv

\* A script or an observer may make calls on top of a plain stack, and tells
\* nobody itself: an observer that only reads makes none.
LEMMA Scripts ==
    ASSUME IInv, MayCall
    PROVE  Plain(stack, Kinds) /\ (reader /\ availableBytes > 0 => Deep(stack, pending))
<1>1. stack # <<>> => Last(stack).call \in Events /\ ~(reader /\ Last(stack).call = "readable")
  BY DEF MayCall, Scripted, OnlyReads, Top
<1>2. stack # <<>> => Last(stack).at # "copy"
  BY <1>1 DEF IInv, StackOK, Sound, Events
<1>3. StackOK(stack, Kinds, writePosition)
  BY DEF IInv
<1>4. Plain(stack, Kinds)
  BY <1>2, <1>3, OKIsPlain
<1>5. ~(reader /\ OnTop(stack, room))
  BY <1>1 DEF OnTop, Events
<1> QED BY <1>4, <1>5 DEF IInv, Told

-----------------------------------------------------------------------------
(***************************************************************************)
(* Steps of any kind: what goes on under a new stack.                       *)
(***************************************************************************)

\* A frame that a call starts with.
LEMMA FrameIs ==
    ASSUME NEW kinds, NEW name \in Names, NEW place \in Places, NEW need \in Int, place # "copy",
           name = "write" => place # "room", name \in {"writeNumber", "readNumber", "read"} => need >= 0
    PROVE  Frame(name, place, need) \in FrameSet(kinds) /\ Sound(Frame(name, place, need))
           /\ Frame(name, place, need).at # "copy" /\ Frame(name, place, need).call = name
           /\ Frame(name, place, need).need = need
BY EmptySeq DEF Frame, FrameSet, Sound

\* The frame on top and those below it.
LEMMA TopIs ==
    ASSUME IInv, stack # <<>>
    PROVE  /\ Plain(Below, Kinds) /\ Top \in FrameSet(Kinds) /\ Sound(Top) /\ stack = Append(Below, Top)
           /\ Top.at = "copy" => Top.offset = writePosition /\ Head(Top.pieces).kind = "bytes"
BY DEF IInv, StackOK, Top, Below

\* What is under way below the frame on top, if that one has no part in it.
LEMMA BelowDeep ==
    ASSUME IInv, stack # <<>>, Deep(stack, pending), ~(Top.call = "readString" /\ Top.need < 0),
           ~(Top.call = "readable" /\ pending["readable"] > 0)
    PROVE  Deep(Below, pending)
<1> DEFINE st == Below
           f == Top
           S == FrameSet(Kinds)
<1>1. st \in Seq(S) /\ f \in S /\ stack = Append(st, f) /\ Deep(Append(st, f), pending)
  BY TopIs DEF Plain
<1>2. ~(f.call = "readString" /\ f.need < 0) /\ ~(f.call = "readable" /\ pending["readable"] > 0)
  OBVIOUS
<1> HIDE DEF st, f, S
<1>3. Deep(st, pending)
  BY <1>1, <1>2, DeepPop
<1> QED BY <1>3 DEF st

\* A step goes on under a plain stack, where a reader is still to be told of what
\* is left.
LEMMA PlainStep ==
    ASSUME IInv, BlockOK', UNCHANGED <<listening, reader, resizable>>, NEW frames, Plain(frames, Kinds),
           NEW event \in Events, Sends(event, frames) \/ Goes(frames),
           (reader /\ availableBytes' > 0) => Deep(frames, pending)
    PROVE  IInv'
<1>1. ListenersOK
  BY DEF IInv
<1>2. Plain(stack', Kinds) /\ pending' \in [Events -> Nat]
  <2>1. CASE Sends(event, frames)
    BY <1>1, <2>1, SendsPlain
  <2>2. CASE Goes(frames)
    BY <1>1, <2>2 DEF Goes, ListenersOK
  <2> QED BY <2>1, <2>2
<1>3. StackOK(stack', Kinds, writePosition')
  BY <1>2, PlainIsOK
<1>4. Told'
  <2> SUFFICES ASSUME reader', availableBytes' > 0 PROVE Deep(stack', pending')
    BY DEF Told
  <2>1. Deep(frames, pending)
    OBVIOUS
  <2> QED BY <1>1, <2>1, DeepSends
<1> QED BY <1>2, <1>3, <1>4, Concludes

\* A call that a script or an observer makes: an event may be sent, and an empty
\* array may have its positions set to 0.
LEMMA CallStep ==
    ASSUME IInv, MayCall, Quiet, UNCHANGED <<block, next>>,
           UNCHANGED positions \/ (availableBytes = 0 /\ readPosition' = 0 /\ writePosition' = 0),
           NEW f \in FrameSet(Kinds), Sound(f), f.at # "copy",
           NEW event \in Events, Sends(event, Append(stack, f)) \/ Goes(Append(stack, f))
    PROVE  IInv' /\ Allowed
<1> DEFINE frames == Append(stack, f)
<1>1. Plain(stack, Kinds) /\ ((reader /\ availableBytes > 0) => Deep(stack, pending)) /\ BlockOK
  BY Scripts DEF IInv
<1>2. Plain(frames, Kinds)
  BY <1>1, PushPlain
<1>3. BlockOK'
  BY <1>1 DEF BlockOK, block, positions
<1>4. availableBytes' > 0 => availableBytes > 0
  BY <1>1 DEF availableBytes, positions, BlockOK
<1>5. (reader /\ availableBytes' > 0) => Deep(frames, pending)
  <2> SUFFICES ASSUME reader, availableBytes' > 0 PROVE Deep(frames, pending)
    OBVIOUS
  <2>1. Deep(stack, pending) /\ stack \in Seq(FrameSet(Kinds))
    BY <1>1, <1>4 DEF Plain
  <2> QED BY <2>1, DeepPush
<1>6. UNCHANGED <<listening, reader, resizable>> /\ (Sends(event, frames) \/ Goes(frames))
  BY DEF Quiet, Did, block
<1> HIDE DEF frames
<1>7. IInv'
  BY <1>2, <1>3, <1>5, <1>6, PlainStep
<1>8. Allowed
  <2>1. CASE UNCHANGED positions
    BY <2>1, IdleStep DEF block, positions, bytes, Window
  <2>2. CASE availableBytes = 0 /\ readPosition' = 0 /\ writePosition' = 0
    BY <1>1, <2>2, EmptyReset
  <2> QED BY <2>1, <2>2
<1> QED BY <1>7, <1>8

\* A write to an array that is full and does not grow throws, and its call ends.
LEMMA FailStep ==
    ASSUME IInv, NEW require \in Int, stack # <<>>, Top.call \in {"writeNumber", "write"}, Fails(require),
           reader => ~OnTop(stack, room)
    PROVE  IInv' /\ Allowed
<1>1. /\ UNCHANGED <<listening, reader, resizable>> /\ UNCHANGED <<block, positions, next>> /\ Goes(Below) /\ Quiet
      /\ BlockOK
  BY DEF Fails, Quiet, Did, block, IInv
<1>2. BlockOK'
  BY <1>1 DEF BlockOK, block, positions
<1>3. Plain(Below, Kinds)
  BY TopIs
<1>4. (reader /\ availableBytes' > 0) => Deep(Below, pending)
  <2> SUFFICES ASSUME reader, availableBytes' > 0 PROVE Deep(Below, pending)
    OBVIOUS
  <2>1. availableBytes > 0
    BY <1>1 DEF availableBytes, positions
  <2>2. Deep(stack, pending)
    BY <2>1 DEF IInv, Told
  <2> QED BY <2>2, BelowDeep
<1>5. "readable" \in Events
  BY DEF Events
<1> DEFINE frames == Below
<1>6. Plain(frames, Kinds) /\ Goes(frames) /\ ((reader /\ availableBytes' > 0) => Deep(frames, pending))
  BY <1>1, <1>3, <1>4
<1> HIDE DEF frames
<1>7. IInv'
  BY <1>1, <1>2, <1>5, <1>6, PlainStep
<1>8. Allowed
  BY <1>1, IdleStep DEF block, positions, bytes, Window
<1> QED BY <1>7, <1>8

\* A call ends and leaves the bytes: nothing else has changed.
LEMMA PopStep ==
    ASSUME IInv, stack # <<>>, Top.call \notin Events, ~(Top.call = "readString" /\ Top.need < 0),
           Goes(Below), Quiet, UNCHANGED <<block, positions, next>>, ~OnTop(stack, room)
    PROVE  IInv' /\ Allowed
<1>1. UNCHANGED <<listening, reader, resizable>> /\ BlockOK /\ Top.call # "readable"
  BY DEF Quiet, Did, block, IInv, Events
<1>2. BlockOK'
  BY <1>1 DEF BlockOK, block, positions
<1>3. Plain(Below, Kinds)
  BY TopIs
<1>4. (reader /\ availableBytes' > 0) => Deep(Below, pending)
  <2> SUFFICES ASSUME reader, availableBytes' > 0 PROVE Deep(Below, pending)
    OBVIOUS
  <2>1. availableBytes > 0
    BY DEF availableBytes, positions
  <2>2. Deep(stack, pending)
    BY <2>1 DEF IInv, Told
  <2> QED BY <1>1, <2>2, BelowDeep
<1>5. "readable" \in Events
  BY DEF Events
<1> DEFINE frames == Below
<1>6. Plain(frames, Kinds) /\ Goes(frames) /\ ((reader /\ availableBytes' > 0) => Deep(frames, pending))
  BY <1>3, <1>4
<1> HIDE DEF frames
<1>7. IInv'
  BY <1>1, <1>2, <1>5, <1>6, PlainStep
<1>8. Allowed
  BY IdleStep DEF block, positions, bytes, Window
<1> QED BY <1>7, <1>8

-----------------------------------------------------------------------------
(***************************************************************************)
(* The steps of the module, one by one.                                     *)
(***************************************************************************)

\* The calls that push a frame: writeNumber, readNumber, readString, read, flush
\* and close.
LEMMA PushStep ==
    ASSUME Arguments, IInv, Calls, NEW name \in Names \ {"write"}, NEW place \in Places, NEW need \in Int, place # "copy",
           name \in {"writeNumber", "readNumber", "read"} => need >= 0,
           UNCHANGED <<block, next>>,
           UNCHANGED positions \/ (availableBytes = 0 /\ readPosition' = 0 /\ writePosition' = 0),
           NEW event \in Events,
           \/ Sends(event, Append(stack, Frame(name, place, need)))
           \/ Goes(Append(stack, Frame(name, place, need)))
    PROVE  IInv' /\ Allowed
<1> DEFINE f == Frame(name, place, need)
<1>1. f \in FrameSet(Kinds) /\ Sound(f) /\ f.at # "copy"
  BY FrameIs
<1>2. MayCall /\ Quiet /\ (Sends(event, Append(stack, f)) \/ Goes(Append(stack, f)))
  BY DEF Calls
<1> HIDE DEF f
<1> QED BY <1>1, <1>2, CallStep

\* A number is going to be written (writeByte, writeShort, writeInteger).
LEMMA WriteNumberStep ==
    ASSUME Arguments, IInv, NEW width \in Widths, writeNumber(width)
    PROVE  IInv' /\ Allowed
<1>1. width \in Int /\ width >= 0
  BY DEF Arguments
<1>2. "readable" \in Events /\ "writeNumber" \in Names \ {"write"} /\ "room" \in Places /\ "room" # "copy"
  BY DEF Events, Names, Places
<1>3. /\ Calls /\ UNCHANGED <<block, next>> /\ UNCHANGED positions
      /\ \/ Sends("readable", Append(stack, Frame("writeNumber", "room", width)))
         \/ Goes(Append(stack, Frame("writeNumber", "room", width)))
  BY DEF writeNumber, makesRoom
<1> QED BY <1>1, <1>2, <1>3, PushStep

\* A number is going to be read (readByte, readInteger).
LEMMA ReadNumberStep ==
    ASSUME Arguments, IInv, NEW width \in Widths, readNumber(width)
    PROVE  IInv' /\ Allowed
<1>1. width \in Int /\ width >= 0
  BY DEF Arguments
<1>2. "writable" \in Events /\ "readNumber" \in Names \ {"write"} /\ "take" \in Places /\ "take" # "copy"
  BY DEF Events, Names, Places
<1>3. /\ Calls /\ UNCHANGED <<block, next>>
      /\ UNCHANGED positions \/ (availableBytes = 0 /\ readPosition' = 0 /\ writePosition' = 0)
      /\ \/ Sends("writable", Append(stack, Frame("readNumber", "take", width)))
         \/ Goes(Append(stack, Frame("readNumber", "take", width)))
  BY DEF readNumber, getInput
<1> QED BY <1>1, <1>2, <1>3, PushStep

\* A string is going to be read (readString).
LEMMA ReadStringStep ==
    ASSUME Arguments, IInv, NEW count \in Counts, readString(count)
    PROVE  IInv' /\ Allowed
<1>1. count \in Int
  BY DEF Arguments
<1>2. "writable" \in Events /\ "readString" \in Names \ {"write"} /\ "take" \in Places /\ "take" # "copy"
  BY DEF Events, Names, Places
<1>3. /\ Calls /\ UNCHANGED <<block, next>>
      /\ UNCHANGED positions \/ (availableBytes = 0 /\ readPosition' = 0 /\ writePosition' = 0)
      /\ \/ Sends("writable", Append(stack, Frame("readString", "take", count)))
         \/ Goes(Append(stack, Frame("readString", "take", count)))
  BY DEF readString, getInput
<1> QED BY <1>1, <1>2, <1>3, PushStep

\* Bytes are going to be read into another array (read).
LEMMA ReadBytesStep ==
    ASSUME Arguments, IInv, NEW count \in Counts, count > 0, read(count)
    PROVE  IInv' /\ Allowed
<1>1. count \in Int /\ count >= 0
  BY DEF Arguments
<1>2. "writable" \in Events /\ "read" \in Names \ {"write"} /\ "take" \in Places /\ "take" # "copy"
  BY DEF Events, Names, Places
<1>3. /\ Calls /\ UNCHANGED <<block, next>>
      /\ UNCHANGED positions \/ (availableBytes = 0 /\ readPosition' = 0 /\ writePosition' = 0)
      /\ \/ Sends("writable", Append(stack, Frame("read", "take", count)))
         \/ Goes(Append(stack, Frame("read", "take", count)))
  BY DEF read, getInput
<1> QED BY <1>1, <1>2, <1>3, PushStep

\* An array is going to be flushed: its observers may take what there is.
LEMMA FlushStep ==
    ASSUME Arguments, IInv, flush
    PROVE  IInv' /\ Allowed
<1>1. "flush" \in Events /\ "flush" \in Names \ {"write"} /\ "reset" \in Places /\ "reset" # "copy" /\ 0 \in Int
  BY DEF Events, Names, Places
<1>2. /\ Calls /\ UNCHANGED <<block, next>> /\ UNCHANGED positions
      /\ Sends("flush", Append(stack, Frame("flush", "reset", 0))) \/ Goes(Append(stack, Frame("flush", "reset", 0)))
  BY DEF flush
<1> QED BY <1>1, <1>2, PushStep

\* An array is going to be closed: its observers are told.
LEMMA CloseStep ==
    ASSUME Arguments, IInv, close
    PROVE  IInv' /\ Allowed
<1>1. "close" \in Events /\ "closing" \in Names \ {"write"} /\ "reset" \in Places /\ "reset" # "copy" /\ 0 \in Int
  BY DEF Events, Names, Places
<1>2. /\ Calls /\ UNCHANGED <<block, next>> /\ UNCHANGED positions
      /\ Sends("close", Append(stack, Frame("closing", "reset", 0)))
  BY DEF close
<1> QED BY <1>1, <1>2, PushStep

\* What may be written as pieces: arrays only where they may be copied.
LEMMA PiecesAre ==
    ASSUME Arguments, ~Copies, NEW pieces \in Writes,
           (\E i \in DOMAIN pieces : pieces[i].kind = "bytes") => Copies \/ (resizable /\ "readable" \notin listening)
    PROVE  pieces \in Seq([kind : Kinds, length : Nat])
<1> DEFINE S == [kind : {"string", "bytes"}, length : Nat]
           R == [kind : Kinds, length : Nat]
<1>1. pieces \in Seq(S)
  BY DEF Arguments
<1>2. Len(pieces) \in Nat /\ DOMAIN pieces = 1..Len(pieces) /\ \A i \in 1..Len(pieces) : pieces[i] \in S
  BY <1>1, LenProperties
<1>3. ASSUME NEW i \in 1..Len(pieces) PROVE pieces[i] \in R
  <2>1. pieces[i].kind \in Kinds
    BY <1>2 DEF Kinds
  <2> QED BY <1>2, <2>1
<1>4. pieces = [i \in 1..Len(pieces) |-> pieces[i]]
  BY <1>1
<1> HIDE DEF R, S
<1>5. pieces \in [1..Len(pieces) -> R]
  BY <1>3, <1>4
<1>6. pieces \in Seq(R)
  BY <1>2, <1>5, FunctionIsSequence
<1> QED BY <1>6 DEF R

\* Strings and arrays are going to be written (write).
LEMMA WriteCallStep ==
    ASSUME Arguments, ~Copies, IInv, NEW pieces \in Writes, ejsWriteToByteArray(pieces)
    PROVE  IInv' /\ Allowed
<1> DEFINE f == [Frame("write", "next", 0) EXCEPT !.pieces = pieces]
<1>1. pieces \in Seq([kind : Kinds, length : Nat])
  BY PiecesAre DEF ejsWriteToByteArray
<1>2. f = [call |-> "write", at |-> "next", need |-> 0, pieces |-> pieces, offset |-> 0]
  BY DEF Frame
<1>3. f \in FrameSet(Kinds) /\ Sound(f) /\ f.at # "copy" /\ f.call = "write" /\ f.at = "next"
  BY <1>1, <1>2 DEF FrameSet, Sound, Names, Places
<1>4. /\ MayCall /\ Quiet /\ UNCHANGED <<block, next>> /\ Goes(Append(stack, f))
      /\ UNCHANGED positions \/ (availableBytes = 0 /\ readPosition' = 0 /\ writePosition' = 0)
  BY DEF ejsWriteToByteArray, Calls
<1>5. "readable" \in Events
  BY DEF Events
<1> HIDE DEF f
<1> QED BY <1>3, <1>4, <1>5, CallStep

\* The piece that a write is about to put.
LEMMA PieceIs ==
    ASSUME IInv, stack # <<>>, Top.pieces # <<>>
    PROVE  Piece1 \in [kind : Kinds, length : Nat] /\ Tail(Top.pieces) \in Seq([kind : Kinds, length : Nat])
<1> DEFINE R == [kind : Kinds, length : Nat]
           s == Top.pieces
<1>1. s \in Seq(R) /\ s # <<>>
  BY TopIs DEF FrameSet
<1> HIDE DEF R, s
<1>2. Head(s) \in R /\ Tail(s) \in Seq(R)
  BY <1>1, HeadTailProperties
<1> QED BY <1>2 DEF R, s, Piece1

\* The frame on top after a step of its call.
LEMMA FrameAt ==
    ASSUME IInv, stack # <<>>, NEW place \in Places, place # "copy", place # "room" \/ Top.pieces # <<>>
    PROVE  /\ [Top EXCEPT !.at = place] \in FrameSet(Kinds) /\ Sound([Top EXCEPT !.at = place])
           /\ [Top EXCEPT !.at = place].call = Top.call /\ [Top EXCEPT !.at = place].at = place
           /\ [Top EXCEPT !.at = place].pieces = Top.pieces /\ [Top EXCEPT !.at = place].need = Top.need
<1> DEFINE f == Top
<1>1. f \in FrameSet(Kinds) /\ Sound(f) /\ (place # "room" \/ f.pieces # <<>>)
  BY TopIs
<1> HIDE DEF f
<1>2. /\ [f EXCEPT !.at = place] \in FrameSet(Kinds) /\ Sound([f EXCEPT !.at = place])
      /\ [f EXCEPT !.at = place].call = f.call /\ [f EXCEPT !.at = place].at = place
      /\ [f EXCEPT !.at = place].pieces = f.pieces /\ [f EXCEPT !.at = place].need = f.need
  BY <1>1 DEF FrameSet, Sound
<1> QED BY <1>2 DEF f

\* A step that tells a reader of what is there.
LEMMA TellStep ==
    ASSUME IInv, BlockOK', UNCHANGED <<listening, reader, resizable>>, stack # <<>>,
           NEW g \in FrameSet(Kinds), Sound(g), g.at # "copy", g.call = Top.call,
           Sends("readable", Append(Below, g))
    PROVE  IInv'
<1> DEFINE st == Below
           f == Top
<1>1. Plain(st, Kinds) /\ f \in FrameSet(Kinds) /\ stack = Append(st, f) /\ st \in Seq(FrameSet(Kinds)) /\ f.call = g.call
  BY TopIs DEF Plain
<1>2. Sends("readable", Append(st, g)) /\ ListenersOK /\ "readable" \in Events
  BY DEF IInv, Events
<1> HIDE DEF st, f
<1>3. Plain(Append(st, g), Kinds)
  BY <1>1, PushPlain
<1> DEFINE frames == Append(st, g)
<1>4. Runs("readable") => \E i \in 1..Len(frames) : frames[i].call = "readable"
  BY <1>1, RunsStill
<1>5. Plain(frames, Kinds) /\ Sends("readable", frames)
  BY <1>2, <1>3
<1> HIDE DEF frames
<1>6. Plain(stack', Kinds) /\ pending' \in [Events -> Nat]
  BY <1>2, <1>5, SendsPlain
<1>7. StackOK(stack', Kinds, writePosition')
  BY <1>6, PlainIsOK
<1>8. Told'
  <2> DEFINE left == room'
  <2> HIDE DEF left
  <2>1. reader => Deep(stack', pending') \/ OnTop(stack', left)
    BY <1>2, <1>4, <1>5, ReaderIsTold
  <2> QED BY <2>1 DEF Told, left
<1> QED BY <1>6, <1>7, <1>8, Concludes

\* A step after which a write goes on, that tells a reader in the end.
LEMMA WriteGoesOn ==
    ASSUME IInv, BlockOK', UNCHANGED <<listening, reader, resizable>>, stack # <<>>,
           NEW g \in FrameSet(Kinds), Sound(g), g.call = "write", Goes(Append(Below, g)),
           g.at = "copy" => g.offset = writePosition' /\ Head(g.pieces).kind = "bytes",
           (reader /\ availableBytes' > 0) => g.at = "next" \/ (g.at = "room" /\ Head(g.pieces).length <= room')
    PROVE  IInv'
<1> DEFINE st == Below
           w == writePosition'
           left == room'
<1>1. Plain(st, Kinds) /\ stack' = Append(st, g) /\ pending' = pending /\ st \in Seq(FrameSet(Kinds))
  BY TopIs DEF Plain, Goes
<1>2. /\ g.at = "copy" => g.offset = w /\ Head(g.pieces).kind = "bytes"
      /\ (reader /\ availableBytes' > 0) => g.at = "next" \/ (g.at = "room" /\ Head(g.pieces).length <= left)
  OBVIOUS
<1> HIDE DEF st, w, left
<1>3. StackOK(stack', Kinds, w)
  BY <1>1, <1>2, PushOK
<1>4. stack' # <<>> /\ Last(stack') = g
  BY <1>1, Pushed
<1>5. (reader /\ availableBytes' > 0) => OnTop(stack', left)
  BY <1>2, <1>4 DEF OnTop
<1>6. Told'
  BY <1>5 DEF Told, left
<1>7. pending' \in [Events -> Nat]
  BY <1>1 DEF IInv, ListenersOK
<1> QED BY <1>3, <1>6, <1>7, Concludes DEF w

\* The number is put and readers are told, or there is no room for it.
LEMMA PutNumberStep ==
    ASSUME Arguments, IInv, putNumber
    PROVE  IInv' /\ Allowed
<1>1. stack # <<>> /\ Top.call = "writeNumber" /\ Top.at = "room"
  BY DEF putNumber, At
<1>2. Top.need \in Nat
  <2>1. Top \in FrameSet(Kinds) /\ Sound(Top)
    BY <1>1, TopIs
  <2>2. Top.need \in Int
    BY <2>1 DEF FrameSet
  <2>3. Top.need >= 0
    BY <1>1, <2>1 DEF Sound
  <2> QED BY <2>2, <2>3
<1>3. CASE Fails(Top.need)
  <2>1. ~OnTop(stack, room)
    BY <1>1 DEF OnTop, Top
  <2> QED BY <1>1, <1>2, <1>3, <2>1, FailStep
<1>4. CASE /\ Put(writePosition, Top.need, Top.need)
           /\ Sends("readable", Append(Below, [Top EXCEPT !.at = "done"]))
           /\ Quiet /\ UNCHANGED <<readPosition, ops>>
  <2>1. BlockOK' /\ Allowed
    BY <1>2, <1>4, PutStep DEF IInv
  <2>2. UNCHANGED <<listening, reader, resizable>>
    BY <1>4 DEF Quiet, Did, Put, ejsGrowByteArray
  <2> DEFINE g == [Top EXCEPT !.at = "done"]
  <2>3. g \in FrameSet(Kinds) /\ Sound(g) /\ g.at # "copy" /\ g.call = Top.call
    BY <1>1, FrameAt DEF Places
  <2>4. Sends("readable", Append(Below, g))
    BY <1>4
  <2> HIDE DEF g
  <2>5. IInv'
    BY <1>1, <2>1, <2>2, <2>3, <2>4, TellStep
  <2> QED BY <2>1, <2>5
<1> QED BY <1>3, <1>4 DEF putNumber

\* write comes to its next piece, for which readers may have to make room.
LEMMA WritePieceStep ==
    ASSUME IInv, writePiece
    PROVE  IInv' /\ Allowed
<1>1. /\ stack # <<>> /\ Top.call = "write" /\ Top.at = "next" /\ Top.pieces # <<>>
      /\ Quiet /\ UNCHANGED <<block, positions, next>>
      /\ makesRoom(Piece1.length, Append(Below, [Top EXCEPT !.at = "room"]))
  BY DEF writePiece, At
<1>2. BlockOK' /\ UNCHANGED <<listening, reader, resizable>>
  BY <1>1 DEF IInv, BlockOK, block, positions, Quiet, Did
<1>3. Allowed
  BY <1>1, IdleStep DEF block, positions, bytes, Window
<1> DEFINE g == [Top EXCEPT !.at = "room"]
<1>4. /\ g \in FrameSet(Kinds) /\ Sound(g) /\ g.at = "room" /\ g.call = Top.call /\ g.pieces = Top.pieces
  BY <1>1, FrameAt DEF Places
<1>5. IF room < Piece1.length /\ availableBytes > 0 THEN Sends("readable", Append(Below, g)) ELSE Goes(Append(Below, g))
  BY <1>1 DEF makesRoom
<1>6. Head(g.pieces).length = Piece1.length /\ Piece1.length \in Nat
  BY <1>1, <1>4, PieceIs DEF Piece1
<1>7. room \in Int /\ availableBytes \in Nat /\ room' = room /\ availableBytes' = availableBytes
  BY <1>1, BytesAre, LenProperties DEF IInv, BlockOK, room, availableBytes, size, block, positions
<1> HIDE DEF g
<1>8. CASE room < Piece1.length /\ availableBytes > 0
  <2>1. Sends("readable", Append(Below, g)) /\ g.at # "copy"
    BY <1>4, <1>5, <1>8
  <2> QED BY <1>1, <1>2, <1>3, <1>4, <2>1, TellStep
<1>9. CASE ~(room < Piece1.length /\ availableBytes > 0)
  <2>1. Goes(Append(Below, g)) /\ g.call = "write" /\ g.at # "copy"
    BY <1>1, <1>4, <1>5, <1>9
  <2>2. availableBytes' > 0 => Head(g.pieces).length <= room'
    BY <1>6, <1>7, <1>9
  <2>3. (reader /\ availableBytes' > 0) => g.at = "next" \/ (g.at = "room" /\ Head(g.pieces).length <= room')
    BY <1>4, <2>2
  <2>4. g.at = "copy" => g.offset = writePosition' /\ Head(g.pieces).kind = "bytes"
    BY <2>1
  <2>5. IInv'
    BY <1>1, <1>2, <1>4, <2>1, <2>3, <2>4, WriteGoesOn
  <2> QED BY <1>3, <2>5
<1> QED BY <1>8, <1>9

\* What a write goes on with when a piece is put.
LEMMA WrittenIs ==
    ASSUME IInv, stack # <<>>, Top.call = "write", Top.pieces # <<>>
    PROVE  Written \in FrameSet(Kinds) /\ Sound(Written) /\ Written.call = "write" /\ Written.at = "next"
<1> DEFINE f == Top
           R == [kind : Kinds, length : Nat]
<1>1. f \in FrameSet(Kinds) /\ f.call = "write" /\ Tail(f.pieces) \in Seq(R)
  BY TopIs, PieceIs
<1>2. Written = [f EXCEPT !.at = "next", !.pieces = Tail(@)]
  BY DEF Written
<1> HIDE DEF f
<1>3. Written = [call |-> "write", at |-> "next", need |-> f.need, pieces |-> Tail(f.pieces), offset |-> f.offset]
  BY <1>1, <1>2 DEF FrameSet
<1> QED BY <1>1, <1>3 DEF FrameSet, Sound, Names, Places

\* A call that waits for room to write has a piece to put.
LEMMA WaitsForRoom ==
    ASSUME IInv, At("write", "room") \/ At("write", "copy")
    PROVE  stack # <<>> /\ Top.call = "write" /\ Top.pieces # <<>> /\ Piece1.length \in Nat
<1>1. stack # <<>> /\ Top.call = "write" /\ Top.at \in {"room", "copy"}
  BY DEF At
<1>2. Top.pieces # <<>>
  BY <1>1, TopIs DEF Sound
<1> QED BY <1>1, <1>2, PieceIs

\* A string is put, or there is no room for it.
LEMMA PutStringStep ==
    ASSUME Arguments, IInv, putString
    PROVE  IInv' /\ Allowed
<1>1. stack # <<>> /\ Top.call = "write" /\ Top.at = "room" /\ Top.pieces # <<>> /\ Piece1.length \in Nat
  BY WaitsForRoom DEF putString, At
<1>2. CASE Fails(Piece1.length)
  <2>1. room < Piece1.length /\ room \in Int
    BY <1>2, LenProperties DEF Fails, NoRoom, IInv, BlockOK, room, size
  <2>2. ~OnTop(stack, room)
    BY <1>1, <2>1 DEF OnTop, Top, Piece1
  <2> QED BY <1>1, <1>2, <2>2, FailStep
<1>3. CASE /\ Put(writePosition, Piece1.length, Piece1.length)
           /\ Goes(Append(Below, Written)) /\ Quiet /\ UNCHANGED <<readPosition, ops>>
  <2>1. BlockOK' /\ Allowed
    BY <1>1, <1>3, PutStep DEF IInv
  <2>2. UNCHANGED <<listening, reader, resizable>>
    BY <1>3 DEF Quiet, Did, Put, ejsGrowByteArray
  <2>3. Written \in FrameSet(Kinds) /\ Sound(Written) /\ Written.call = "write" /\ Written.at = "next"
    BY <1>1, WrittenIs
  <2> DEFINE g == Written
  <2>4. g \in FrameSet(Kinds) /\ Sound(g) /\ g.call = "write" /\ g.at = "next" /\ Goes(Append(Below, g))
    BY <1>3, <2>3
  <2> HIDE DEF g
  <2>5. IInv'
    BY <1>1, <2>1, <2>2, <2>4, WriteGoesOn
  <2> QED BY <2>1, <2>5
<1> QED BY <1>2, <1>3 DEF putString

\* Arrays are only written to an array that grows and that nobody reads.
LEMMA CopiesAlone ==
    ASSUME IInv, stack # <<>>, Top.pieces # <<>>, Piece1.kind = "bytes"
    PROVE  resizable /\ "readable" \notin listening /\ ~reader
<1>1. "bytes" \in Kinds
  BY PieceIs
<1> QED BY <1>1 DEF Kinds, IInv, ListenersOK

\* Room is made for an array, once by write and once by ejsCopyToByteArray.
LEMMA CopyRoomStep ==
    ASSUME Arguments, IInv, copyRoom
    PROVE  IInv' /\ Allowed
<1>1. stack # <<>> /\ Top.call = "write" /\ Top.at = "room" /\ Top.pieces # <<>> /\ Piece1.length \in Nat
      /\ Piece1.kind = "bytes"
  BY WaitsForRoom DEF copyRoom, At
<1>2. resizable /\ "readable" \notin listening /\ ~reader
  BY <1>1, CopiesAlone
<1> DEFINE g == [Top EXCEPT !.at = "copy", !.offset = writePosition]
           n == Piece1.length
<1>3. /\ value' = Grown(n) /\ ejsGrowByteArray(n)
      /\ Sends("readable", Append(Below, g)) \/ Goes(Append(Below, g))
      /\ Quiet /\ UNCHANGED <<positions, next, ops>>
  BY <1>2 DEF copyRoom, Fails, NoRoom
<1>4. g \in FrameSet(Kinds) /\ Sound(g) /\ g.call = "write" /\ g.at = "copy" /\ g.offset = writePosition
      /\ Head(g.pieces).kind = "bytes"
  <2> DEFINE f == Top
             w == writePosition
  <2>1. f \in FrameSet(Kinds) /\ f.call = "write" /\ f.pieces # <<>> /\ w \in Nat /\ Head(f.pieces).kind = "bytes"
    BY <1>1, TopIs DEF IInv, BlockOK, Piece1
  <2> HIDE DEF f, w
  <2>2. [f EXCEPT !.at = "copy", !.offset = w] =
        [call |-> f.call, at |-> "copy", need |-> f.need, pieces |-> f.pieces, offset |-> w]
    <3> DEFINE h == [f EXCEPT !.at = "copy"]
    <3>1. h = [call |-> f.call, at |-> "copy", need |-> f.need, pieces |-> f.pieces, offset |-> f.offset]
      BY <2>1 DEF FrameSet
    <3> HIDE DEF h
    <3>2. [h EXCEPT !.offset = w] =
          [call |-> f.call, at |-> "copy", need |-> f.need, pieces |-> f.pieces, offset |-> w]
      BY <3>1
    <3> QED BY <3>2 DEF h
  <2>3. /\ [f EXCEPT !.at = "copy", !.offset = w] \in FrameSet(Kinds)
        /\ Sound([f EXCEPT !.at = "copy", !.offset = w])
    <3> DEFINE h == [call |-> f.call, at |-> "copy", need |-> f.need, pieces |-> f.pieces, offset |-> w]
    <3>1. f.need \in Int /\ f.call \in Names /\ f.pieces \in Seq([kind : Kinds, length : Nat]) /\ "copy" \in Places
      BY <2>1 DEF FrameSet, Places
    <3>2. h \in FrameSet(Kinds)
      BY <2>1, <3>1 DEF FrameSet
    <3>3. Sound(h)
      BY <2>1 DEF Sound
    <3> QED BY <2>2, <3>2, <3>3
  <2> QED BY <2>1, <2>2, <2>3 DEF f, w
<1>5. Goes(Append(Below, g))
  BY <1>2, <1>3 DEF Sends, Goes
<1>6. BlockOK'
  <2>1. value' \in Seq(Nat) /\ Len(value) <= Len(value') /\ Len(value) \in Nat /\ Len(value') \in Nat
    BY <1>1, <1>3, GrownIs, LenProperties DEF IInv, BlockOK
  <2>2. growInc' \in Nat
    BY <1>1, <1>3, GrowIncIs DEF IInv
  <2> QED BY <1>3, <2>1, <2>2 DEF IInv, BlockOK, positions
<1>7. bytes' = bytes
  <2> DEFINE v == value
             r == readPosition
             w == writePosition
             v2 == value'
  <2>1. v2 \in Seq(Nat) /\ Len(v) <= Len(v2) /\ Len(v) \in Nat /\ Len(v2) \in Nat
    BY <1>1, <1>3, GrownIs, LenProperties DEF IInv, BlockOK
  <2>2. \A i \in 1..Len(v) : v2[i] = v[i]
    BY <1>1, <1>3, GrownIs DEF IInv
  <2>3. v \in Seq(Nat) /\ r \in Nat /\ w \in Nat /\ r <= w /\ w <= Len(v)
    BY DEF IInv, BlockOK
  <2> HIDE DEF v, r, w, v2
  <2>4. Span(v, r, w) /\ Span(v2, r, w)
    BY <2>1, <2>3 DEF Span
  <2>5. Matches(v, r, w, v2, r, w)
    <3>1. \A i \in 1..w - r : r + i \in 1..Len(v)
      BY <2>1, <2>3
    <3> QED BY <2>2, <2>3, <3>1 DEF Matches
  <2>6. Window(v2, r, w) = Window(v, r, w)
    BY <2>4, <2>5, SameWindow
  <2> QED BY <1>3, <2>6 DEF v, r, w, v2, bytes, positions
<1>8. Allowed
  BY <1>3, <1>7, IdleStep
<1>9. UNCHANGED <<listening, reader, resizable>> /\ writePosition' = writePosition
  BY <1>3 DEF Quiet, Did, ejsGrowByteArray, positions
<1> HIDE DEF g, n
<1>10. g.at = "copy" => g.offset = writePosition' /\ Head(g.pieces).kind = "bytes"
  BY <1>4, <1>9
<1>11. IInv'
  BY <1>1, <1>2, <1>4, <1>5, <1>6, <1>9, <1>10, WriteGoesOn
<1> QED BY <1>8, <1>11

\* The array is copied to where write was when it asked for it.
LEMMA CopyStep ==
    ASSUME Arguments, IInv, ejsCopyToByteArray
    PROVE  IInv' /\ Allowed
<1>1. stack # <<>> /\ Top.call = "write" /\ Top.at = "copy" /\ Top.pieces # <<>> /\ Piece1.length \in Nat
  BY WaitsForRoom DEF ejsCopyToByteArray, At
<1>2. Top.offset = writePosition /\ Piece1.kind = "bytes"
  BY <1>1, TopIs DEF Piece1
<1>3. resizable /\ ~reader
  BY <1>1, <1>2, CopiesAlone
<1>4. writePosition + Piece1.length \in Nat
  BY <1>1 DEF IInv, BlockOK
<1>5. /\ Put(writePosition, Piece1.length, writePosition + Piece1.length)
      /\ Goes(Append(Below, Written)) /\ Quiet /\ UNCHANGED <<readPosition, ops>>
  BY <1>2, <1>3 DEF ejsCopyToByteArray, NoRoom
<1>6. BlockOK' /\ Allowed
  BY <1>1, <1>4, <1>5, PutStep DEF IInv
<1>7. UNCHANGED <<listening, reader, resizable>>
  BY <1>5 DEF Quiet, Did, Put, ejsGrowByteArray
<1> DEFINE g == Written
<1>8. g \in FrameSet(Kinds) /\ Sound(g) /\ g.call = "write" /\ g.at = "next" /\ Goes(Append(Below, g))
  BY <1>1, <1>5, WrittenIs
<1> HIDE DEF g
<1>9. IInv'
  BY <1>1, <1>6, <1>7, <1>8, WriteGoesOn
<1> QED BY <1>6, <1>9

\* All pieces are written, and readers are told.
LEMMA WriteEndsStep ==
    ASSUME IInv, writeEnds
    PROVE  IInv' /\ Allowed
<1>1. /\ stack # <<>> /\ Top.call = "write" /\ Top.at = "next"
      /\ Quiet /\ UNCHANGED <<block, positions, next>>
  BY DEF writeEnds, At
<1>2. BlockOK' /\ UNCHANGED <<listening, reader, resizable>> /\ availableBytes' = availableBytes
  BY <1>1 DEF IInv, BlockOK, block, positions, Quiet, Did, availableBytes
<1>3. Allowed
  BY <1>1, IdleStep DEF block, positions, bytes, Window
<1>4. CASE availableBytes > 0
  <2> DEFINE g == [Top EXCEPT !.at = "done"]
  <2>1. g \in FrameSet(Kinds) /\ Sound(g) /\ g.at # "copy" /\ g.call = Top.call
    BY <1>1, FrameAt DEF Places
  <2>2. Sends("readable", Append(Below, g))
    BY <1>4 DEF writeEnds
  <2> HIDE DEF g
  <2>3. IInv'
    BY <1>1, <1>2, <2>1, <2>2, TellStep
  <2> QED BY <1>3, <2>3
<1>5. CASE ~(availableBytes > 0)
  <2> DEFINE frames == Below
  <2>1. Plain(frames, Kinds)
    BY <1>1, TopIs
  <2>2. Goes(frames) /\ ((reader /\ availableBytes' > 0) => Deep(frames, pending)) /\ "readable" \in Events
    BY <1>2, <1>5 DEF writeEnds, Events
  <2> HIDE DEF frames
  <2>3. IInv'
    BY <1>2, <2>1, <2>2, PlainStep
  <2> QED BY <1>3, <2>3
<1> QED BY <1>4, <1>5

-----------------------------------------------------------------------------
\* Reads and what they leave

\* A call that has taken its bytes goes on with another frame or ends.
LEMMA TakenStep ==
    ASSUME IInv, stack # <<>>, Top.call \in {"readNumber", "read", "readString"}, BlockOK',
           UNCHANGED <<listening, reader, resizable>>,
           NEW frames, \/ frames = Below
                       \/ \E g \in FrameSet(Kinds) : Sound(g) /\ g.at # "copy" /\ frames = Append(Below, g),
           NEW event \in Events, Sends(event, frames) \/ Goes(frames),
           availableBytes' > 0 => availableBytes > 0 /\ ~(Top.call = "readString" /\ Top.need < 0)
    PROVE  IInv'
<1>1. Plain(Below, Kinds)
  BY TopIs
<1>2. (reader /\ availableBytes' > 0) => Deep(Below, pending)
  <2> SUFFICES ASSUME reader, availableBytes' > 0 PROVE Deep(Below, pending)
    OBVIOUS
  <2>1. ~OnTop(stack, room)
    BY DEF OnTop, Top
  <2>2. Deep(stack, pending)
    BY <2>1 DEF IInv, Told
  <2> QED BY <2>2, BelowDeep
<1> DEFINE st == Below
<1>3. Plain(st, Kinds) /\ ((reader /\ availableBytes' > 0) => Deep(st, pending)) /\ st \in Seq(FrameSet(Kinds))
      /\ (frames = st \/ \E g \in FrameSet(Kinds) : Sound(g) /\ g.at # "copy" /\ frames = Append(st, g))
  BY <1>1, <1>2 DEF Plain
<1> HIDE DEF st
<1>4. Plain(frames, Kinds) /\ ((reader /\ availableBytes' > 0) => Deep(frames, pending))
  <2>1. CASE frames = st
    BY <1>3, <2>1
  <2>2. ASSUME NEW g \in FrameSet(Kinds), Sound(g), g.at # "copy", frames = Append(st, g)
        PROVE  Plain(frames, Kinds) /\ ((reader /\ availableBytes' > 0) => Deep(frames, pending))
    <3>1. Plain(Append(st, g), Kinds)
      BY <1>3, <2>2, PushPlain
    <3>2. Deep(st, pending) => Deep(Append(st, g), pending)
      BY <1>3, DeepPush
    <3> QED BY <1>3, <2>2, <3>1, <3>2
  <2> QED BY <1>3, <2>1, <2>2
<1> QED BY <1>4, PlainStep

\* What adjustReadPosition does to the positions.
LEMMA AdjustIs ==
    ASSUME BlockOK, NEW n \in 0..availableBytes, adjustReadPosition(n)
    PROVE  /\ \/ readPosition' = readPosition + n /\ writePosition' = writePosition
              \/ readPosition + n = writePosition /\ readPosition' = 0 /\ writePosition' = 0
           /\ availableBytes' > 0 => availableBytes > 0 /\ n < availableBytes
BY BytesAre DEF adjustReadPosition, BlockOK, availableBytes

\* The number is taken, if its bytes are there.
LEMMA TakeNumberStep ==
    ASSUME IInv, takeNumber
    PROVE  IInv' /\ Allowed
<1>1. stack # <<>> /\ Top.call = "readNumber" /\ Goes(Below) /\ UNCHANGED <<block, next>>
  BY DEF takeNumber, At
<1>2. CASE availableBytes < Top.need
  <2>1. Quiet /\ UNCHANGED <<block, positions, next>>
    BY <1>1, <1>2 DEF takeNumber
  <2>2. ~OnTop(stack, room) /\ Top.call \notin Events /\ Top.call # "readString"
    BY <1>1 DEF OnTop, Top, Events
  <2> QED BY <1>1, <2>1, <2>2, PopStep
<1>3. CASE ~(availableBytes < Top.need)
  <2> DEFINE n == Top.need
  <2>1. Got(n) /\ adjustReadPosition(n)
    BY <1>3 DEF takeNumber
  <2>2. n \in 0..availableBytes
    <3>1. Top \in FrameSet(Kinds) /\ Sound(Top)
      BY <1>1, TopIs
    <3>2. n \in Int
      BY <3>1 DEF FrameSet
    <3>3. n >= 0
      BY <1>1, <3>1 DEF Sound
    <3> QED BY <1>3, <3>2, <3>3, BytesAre DEF IInv
  <2>3. UNCHANGED <<listening, reader, resizable>>
    BY <1>1, <2>1 DEF Got, Did, block
  <2> HIDE DEF n
  <2>4. /\ \/ readPosition' = readPosition + n /\ writePosition' = writePosition
           \/ readPosition + n = writePosition /\ readPosition' = 0 /\ writePosition' = 0
        /\ availableBytes' > 0 => availableBytes > 0
    BY <2>1, <2>2, AdjustIs DEF IInv
  <2>5. BlockOK' /\ Allowed
    BY <1>1, <2>1, <2>2, <2>4, TakeStep DEF IInv
  <2> DEFINE frames == Below
  <2>6. frames = Below /\ Goes(frames) /\ "readable" \in Events
    BY <1>1 DEF Events
  <2> HIDE DEF frames
  <2>7. IInv'
    BY <1>1, <2>3, <2>4, <2>5, <2>6, TakenStep
  <2> QED BY <2>5, <2>7
<1> QED BY <1>2, <1>3

\* The bytes of the string are taken, as many as there are.
LEMMA TakeStringStep ==
    ASSUME IInv, takeString
    PROVE  IInv' /\ Allowed
<1> DEFINE n == IF Top.need < 0 THEN availableBytes ELSE Lower(Top.need, availableBytes)
<1>1. /\ stack # <<>> /\ Top.call = "readString" /\ Goes(Below) /\ UNCHANGED <<block, next>>
      /\ Got(n) /\ adjustReadPosition(n)
  BY DEF takeString, At
<1>2. n \in 0..availableBytes /\ (Top.need < 0 => n = availableBytes)
  <2>1. Top.need \in Int
    BY <1>1, TopIs DEF FrameSet
  <2>2. availableBytes \in Nat
    BY BytesAre DEF IInv
  <2> QED BY <2>1, <2>2 DEF Lower
<1>3. UNCHANGED <<listening, reader, resizable>>
  BY <1>1 DEF Got, Did, block
<1> HIDE DEF n
<1>4. /\ \/ readPosition' = readPosition + n /\ writePosition' = writePosition
         \/ readPosition + n = writePosition /\ readPosition' = 0 /\ writePosition' = 0
      /\ availableBytes' > 0 => availableBytes > 0 /\ n < availableBytes
  BY <1>1, <1>2, AdjustIs DEF IInv
<1>5. BlockOK' /\ Allowed
  BY <1>1, <1>2, <1>4, TakeStep DEF IInv
<1> DEFINE frames == Below
<1>6. frames = Below /\ Goes(frames) /\ "readable" \in Events
  BY <1>1 DEF Events
<1>7. availableBytes' > 0 => availableBytes > 0 /\ ~(Top.call = "readString" /\ Top.need < 0)
  BY <1>2, <1>4, BytesAre DEF IInv
<1> HIDE DEF frames
<1>8. IInv'
  BY <1>1, <1>3, <1>5, <1>6, <1>7, TakenStep
<1> QED BY <1>5, <1>8

\* Bytes are taken for the other array, and writers may be told.
LEMMA TakeBytesStep ==
    ASSUME IInv, takeBytes
    PROVE  IInv' /\ Allowed
<1>1. stack # <<>> /\ Top.call = "read" /\ UNCHANGED <<block, next>>
  BY DEF takeBytes, At
<1>2. CASE availableBytes < 1
  <2>1. Quiet /\ Goes(Below) /\ UNCHANGED <<block, positions, next>>
    BY <1>1, <1>2 DEF takeBytes
  <2>2. ~OnTop(stack, room) /\ Top.call \notin Events /\ Top.call # "readString"
    BY <1>1 DEF OnTop, Top, Events
  <2> QED BY <1>1, <2>1, <2>2, PopStep
<1>3. CASE ~(availableBytes < 1)
  <2> DEFINE n == Lower(availableBytes, Top.need)
             g == [Top EXCEPT !.at = "done"]
             frames == IF availableBytes > n THEN Append(Below, g) ELSE Below
  <2>1. /\ Got(n) /\ readPosition' = readPosition + n /\ writePosition' = writePosition
        /\ Sends("writable", frames) \/ Goes(frames)
    BY <1>3 DEF takeBytes
  <2>2. n \in 0..availableBytes /\ availableBytes \in Nat
    <3>1. Top \in FrameSet(Kinds) /\ Sound(Top)
      BY <1>1, TopIs
    <3>2. Top.need \in Int
      BY <3>1 DEF FrameSet
    <3>3. Top.need >= 0
      BY <1>1, <3>1 DEF Sound
    <3> QED BY <1>3, <3>2, <3>3, BytesAre DEF IInv, Lower
  <2>3. UNCHANGED <<listening, reader, resizable>>
    BY <1>1, <2>1 DEF Got, Did, block
  <2>4. g \in FrameSet(Kinds) /\ Sound(g) /\ g.at # "copy"
    BY <1>1, FrameAt DEF Places
  <2>5. \/ frames = Below
        \/ \E h \in FrameSet(Kinds) : Sound(h) /\ h.at # "copy" /\ frames = Append(Below, h)
    BY <2>4
  <2> HIDE DEF n, g, frames
  <2>6. BlockOK' /\ Allowed
    BY <1>1, <2>1, <2>2, TakeStep DEF IInv
  <2>7. availableBytes' > 0 => availableBytes > 0 /\ ~(Top.call = "readString" /\ Top.need < 0)
    BY <1>1, <1>3, <2>2
  <2>8. "writable" \in Events
    BY DEF Events
  <2>9. IInv'
    BY <1>1, <2>1, <2>3, <2>5, <2>6, <2>7, <2>8, TakenStep
  <2> QED BY <2>6, <2>9
<1> QED BY <1>2, <1>3

\* An observer that only reads asks for all there is.
LEMMA ReadAllStep ==
    ASSUME IInv, ReadAll
    PROVE  IInv' /\ Allowed
<1> DEFINE g == [Top EXCEPT !.at = "end"]
           f == Frame("readString", "take", -1)
           st == Append(Below, g)
           frames == Append(st, f)
<1>1. /\ stack # <<>> /\ Top.call = "readable" /\ Quiet /\ getInput(1, frames)
  BY DEF ReadAll, OnlyReads
<1>2. g \in FrameSet(Kinds) /\ Sound(g) /\ g.at # "copy"
  BY <1>1, FrameAt DEF Places
<1>3. f \in FrameSet(Kinds) /\ Sound(f) /\ f.at # "copy" /\ f.call = "readString" /\ f.need < 0
  <2>1. "readString" \in Names /\ "take" \in Places /\ -1 \in Int /\ -1 < 0
    BY DEF Names, Places
  <2> QED BY <2>1, FrameIs
<1>4. Plain(Below, Kinds)
  BY <1>1, TopIs
<1>5. /\ UNCHANGED <<block, next>>
      /\ Sends("writable", frames) \/ Goes(frames)
      /\ UNCHANGED positions \/ (availableBytes = 0 /\ readPosition' = 0 /\ writePosition' = 0)
  BY <1>1 DEF getInput
<1> HIDE DEF g, f
<1>6. Plain(st, Kinds)
  BY <1>2, <1>4, PushPlain
<1> HIDE DEF st
<1>7. Plain(frames, Kinds)
  BY <1>3, <1>6, PushPlain
<1>8. Deep(frames, pending)
  <2>1. st \in Seq(FrameSet(Kinds)) /\ Len(st) \in Nat
    BY <1>6, LenProperties DEF Plain
  <2>2. Len(frames) = Len(st) + 1 /\ frames[Len(st) + 1] = f
    BY <1>3, <2>1, AppendProperties
  <2>3. Len(st) + 1 \in 1..Len(frames)
    BY <2>1, <2>2
  <2> QED BY <1>3, <2>2, <2>3 DEF Deep
<1>9. BlockOK' /\ UNCHANGED <<listening, reader, resizable>> /\ "writable" \in Events
  BY <1>1, <1>5 DEF IInv, BlockOK, block, positions, Quiet, Did, Events
<1> HIDE DEF frames
<1>10. IInv'
  BY <1>5, <1>7, <1>8, <1>9, PlainStep
<1>11. Allowed
  <2>1. CASE UNCHANGED positions
    BY <1>1, <1>5, <2>1, IdleStep DEF block, positions, bytes, Window
  <2>2. CASE availableBytes = 0 /\ readPosition' = 0 /\ writePosition' = 0
    BY <1>1, <1>5, <2>2, EmptyReset DEF IInv
  <2> QED BY <1>5, <2>1, <2>2
<1> QED BY <1>10, <1>11

-----------------------------------------------------------------------------
\* Positions and what is dropped

\* A call that moves positions and leaves the stack as it is.
LEMMA MoveStep ==
    ASSUME IInv, MayCall, Goes(stack), BlockOK', UNCHANGED <<listening, reader, resizable>>,
           availableBytes' > 0 => availableBytes > 0
    PROVE  IInv'
<1> DEFINE frames == stack
<1>1. Plain(frames, Kinds) /\ Goes(frames) /\ "readable" \in Events
  BY Scripts DEF Events
<1>2. (reader /\ availableBytes' > 0) => Deep(frames, pending)
  BY Scripts
<1> HIDE DEF frames
<1> QED BY <1>1, <1>2, PlainStep

\* The block with its bytes set to 0.
LEMMA ZeroedIs ==
    ASSUME BlockOK
    PROVE  Zeroed \in Seq(Nat) /\ Len(Zeroed) = Len(value) /\ Len(value) \in Nat
<1>1. DOMAIN value = 1..Len(value) /\ Len(value) \in Nat
  BY LenProperties DEF BlockOK
<1>2. Zeroed \in [1..Len(value) -> Nat]
  BY <1>1 DEF Zeroed
<1> QED BY <1>1, <1>2, FunctionIsSequence

\* The bytes are moved to the start of the block.
LEMMA CompactStep ==
    ASSUME IInv, compact
    PROVE  IInv' /\ Allowed
<1> DEFINE v == value
           r == readPosition
           w == writePosition
           m == availableBytes
           v2 == value'
<1>1. /\ MayCall /\ Quiet /\ Goes(stack) /\ UNCHANGED <<growInc, resizable, next>>
      /\ v2 = [i \in DOMAIN v |-> IF i <= m THEN v[r + i] ELSE v[i]]
      /\ readPosition' = 0 /\ writePosition' = m
  BY DEF compact, Calls
<1>2. v \in Seq(Nat) /\ r \in Nat /\ w \in Nat /\ r <= w /\ w <= Len(v) /\ m = w - r /\ m \in Nat
  BY DEF IInv, BlockOK, availableBytes
<1>3. DOMAIN v = 1..Len(v) /\ Len(v) \in Nat /\ \A i \in 1..Len(v) : v[i] \in Nat
  BY <1>2, LenProperties
<1> HIDE DEF v, r, w, m, v2
<1>4. v2 \in Seq(Nat) /\ Len(v2) = Len(v)
  <2>1. \A i \in 1..Len(v) : i <= m => r + i \in 1..Len(v)
    BY <1>2, <1>3
  <2>2. v2 \in [1..Len(v) -> Nat]
    BY <1>1, <1>3, <2>1
  <2> QED BY <1>3, <2>2, FunctionIsSequence
<1>5. Span(v, r, w) /\ Span(v2, 0, m)
  BY <1>2, <1>3, <1>4 DEF Span
<1>6. Matches(v, r, w, v2, 0, m)
  <2>1. \A i \in 1..w - r : v2[i] = v[r + i]
    <3>1. \A i \in 1..w - r : i \in 1..Len(v) /\ i <= m
      BY <1>2, <1>3
    <3> QED BY <1>1, <1>3, <3>1
  <2>2. \A i \in 1..w - r : 0 + i = i
    BY <1>2
  <2> QED BY <1>2, <2>1, <2>2 DEF Matches
<1>7. Window(v2, 0, m) = Window(v, r, w)
  BY <1>5, <1>6, SameWindow
<1>8. bytes' = bytes
  BY <1>1, <1>7 DEF bytes, v, r, w, v2
<1>9. Allowed
  BY <1>1, <1>8, IdleStep
<1>10. BlockOK'
  <2>1. value' \in Seq(Nat) /\ m <= Len(value')
    BY <1>2, <1>4 DEF v2
  <2> QED BY <1>1, <1>2, <2>1 DEF IInv, BlockOK
<1>11. availableBytes' > 0 => availableBytes > 0
  BY <1>1, <1>2 DEF availableBytes, m
<1>12. UNCHANGED <<listening, reader, resizable>>
  BY <1>1 DEF Quiet, Did
<1> QED BY <1>1, <1>9, <1>10, <1>11, <1>12, MoveStep

\* An empty array is set to 0.
LEMMA ResetStep ==
    ASSUME IInv, ejsResetByteArray
    PROVE  IInv' /\ Allowed
<1>1. /\ MayCall /\ Quiet /\ Goes(stack) /\ UNCHANGED <<growInc, resizable, next>>
      /\ availableBytes = 0 /\ value' = Zeroed /\ readPosition' = 0 /\ writePosition' = 0
  BY DEF ejsResetByteArray, Calls
<1>2. Allowed
  BY <1>1, EmptyReset DEF IInv
<1>3. BlockOK'
  <2>1. value' \in Seq(Nat) /\ Len(value') \in Nat
    BY <1>1, ZeroedIs DEF IInv
  <2> QED BY <1>1, <2>1 DEF IInv, BlockOK
<1>4. UNCHANGED <<listening, reader, resizable>> /\ ~(availableBytes' > 0)
  BY <1>1 DEF Quiet, Did, availableBytes
<1> QED BY <1>1, <1>2, <1>3, <1>4, MoveStep

\* A script moves a position, which leaves out bytes at an end.
LEMMA PositionStep ==
    ASSUME IInv, Discards, Goes(stack), UNCHANGED <<block, next>>,
           NEW x \in 0..availableBytes, NEW y \in 0..availableBytes, x <= y,
           readPosition' = readPosition + x, writePosition' = readPosition + y
    PROVE  IInv' /\ Allowed
<1>1. MayCall /\ Drops /\ value' = value
  BY DEF Discards, block
<1>2. bytes' = Window(bytes, x, y)
  BY <1>1, PartIs DEF IInv, bytes
<1>3. Allowed
  BY <1>1, <1>2, DropStep DEF IInv
<1>4. availableBytes \in Nat /\ BlockOK /\ readPosition + availableBytes = writePosition
  BY BytesAre DEF IInv, BlockOK, availableBytes
<1>5. BlockOK' /\ (availableBytes' > 0 => availableBytes > 0)
  BY <1>4 DEF BlockOK, block, availableBytes
<1>6. UNCHANGED <<listening, reader, resizable>>
  BY <1>1 DEF Drops, Did, block
<1> QED BY <1>1, <1>3, <1>5, <1>6, MoveStep

\* The read position is moved on.
LEMMA SetReadStep ==
    ASSUME IInv, setReadPosition
    PROVE  IInv' /\ Allowed
<1>1. PICK pos \in readPosition + 1..writePosition : readPosition' = pos
  BY DEF setReadPosition
<1> DEFINE x == pos - readPosition
           y == availableBytes
<1>2. /\ x \in 0..availableBytes /\ y \in 0..availableBytes /\ x <= y
      /\ readPosition' = readPosition + x /\ writePosition' = readPosition + y
  BY <1>1 DEF setReadPosition, IInv, BlockOK, availableBytes
<1>3. Discards /\ Goes(stack) /\ UNCHANGED <<block, next>>
  BY DEF setReadPosition
<1> HIDE DEF x, y
<1> QED BY <1>2, <1>3, PositionStep

\* The write position is moved back.
LEMMA SetWriteStep ==
    ASSUME IInv, setWritePosition
    PROVE  IInv' /\ Allowed
<1>1. PICK pos \in readPosition..writePosition - 1 : writePosition' = pos
  BY DEF setWritePosition
<1> DEFINE x == 0
           y == pos - readPosition
<1>2. /\ x \in 0..availableBytes /\ y \in 0..availableBytes /\ x <= y
      /\ readPosition' = readPosition + x /\ writePosition' = readPosition + y
  BY <1>1 DEF setWritePosition, IInv, BlockOK, availableBytes
<1>3. Discards /\ Goes(stack) /\ UNCHANGED <<block, next>>
  BY DEF setWritePosition
<1> HIDE DEF x, y
<1> QED BY <1>2, <1>3, PositionStep

\* A call that drops all bytes goes on under a plain stack.
LEMMA DropsAllStep ==
    ASSUME IInv, stack # <<>>, readPosition' = 0, writePosition' = 0, Drops, value' \in Seq(Nat),
           UNCHANGED <<growInc, resizable, next>>,
           NEW frames, Plain(frames, Kinds), NEW event \in Events, Sends(event, frames) \/ Goes(frames)
    PROVE  IInv' /\ Allowed
<1>1. Allowed
  BY AllDropped DEF IInv
<1>2. BlockOK'
  BY LenProperties DEF IInv, BlockOK
<1>3. UNCHANGED <<listening, reader, resizable>> /\ ~(availableBytes' > 0)
  BY DEF Drops, Did, availableBytes
<1> QED BY <1>1, <1>2, <1>3, PlainStep

\* flush and close drop the bytes that are left.
LEMMA FlushedStep ==
    ASSUME IInv, flushByteArray \/ flushed \/ closed
    PROVE  IInv' /\ Allowed
<1>1. stack # <<>> /\ readPosition' = 0 /\ writePosition' = 0 /\ Drops /\ UNCHANGED <<growInc, resizable, next>>
  BY DEF flushByteArray, flushed, closed, At, block
<1>2. value' \in Seq(Nat)
  BY ZeroedIs DEF flushByteArray, flushed, closed, block, IInv, BlockOK
<1>3. Plain(Below, Kinds) /\ "writable" \in Events
  BY <1>1, TopIs DEF Events
<1> DEFINE st == Below
           g == [Top EXCEPT !.at = "zero"]
<1>4. g \in FrameSet(Kinds) /\ Sound(g) /\ g.at # "copy"
  BY <1>1, FrameAt DEF Places
<1>5. Sends("writable", Append(st, g)) \/ Goes(st)
  BY DEF flushByteArray, flushed, closed
<1>6. Plain(st, Kinds)
  BY <1>3
<1> HIDE DEF st, g
<1>7. Plain(Append(st, g), Kinds)
  BY <1>4, <1>6, PushPlain
<1>8. \E frames : Plain(frames, Kinds) /\ (Sends("writable", frames) \/ Goes(frames))
  BY <1>5, <1>6, <1>7
<1>9. PICK frames : Plain(frames, Kinds) /\ (Sends("writable", frames) \/ Goes(frames))
  BY <1>8
<1> QED BY <1>1, <1>2, <1>3, <1>9, DropsAllStep

-----------------------------------------------------------------------------
\* Calls return, and observers end

\* A write or read returns when its observers have run.
LEMMA ReturnStep ==
    ASSUME IInv, NEW name \in {"writeNumber", "write", "read"}, Returns(name)
    PROVE  IInv' /\ Allowed
<1>1. stack # <<>> /\ Top.call = name /\ Top.at = "done" /\ Goes(Below) /\ Quiet /\ UNCHANGED <<block, positions, next>>
  BY DEF Returns, At
<1>2. ~OnTop(stack, room) /\ Top.call \notin Events /\ Top.call # "readString"
  BY <1>1 DEF OnTop, Top, Events
<1> QED BY <1>1, <1>2, PopStep

\* An observer that ends has read what it was told of, or is called once more.
LEMMA ObserverStep ==
    ASSUME IInv, ObserverEnds
    PROVE  IInv' /\ Allowed
<1> DEFINE c == Top.call
           st == Below
           g == Observer(c)
           w == writePosition'
           left == room'
<1>1. /\ stack # <<>> /\ c \in Events /\ Quiet /\ UNCHANGED <<block, positions, next>>
      /\ OnlyReads => Top.at = "end"
  BY DEF ObserverEnds
<1>2. BlockOK' /\ UNCHANGED <<listening, reader, resizable>> /\ availableBytes' = availableBytes
  BY <1>1 DEF IInv, BlockOK, block, positions, Quiet, Did, availableBytes
<1>3. Allowed
  BY <1>1, IdleStep DEF block, positions, bytes, Window
<1>4. (reader /\ availableBytes > 0) => Deep(stack, pending)
  <2>1. reader => ~OnTop(stack, room)
    BY <1>1 DEF OnTop, OnlyReads, Top, Events
  <2> QED BY <2>1 DEF IInv, Told
<1>5. Plain(st, Kinds) /\ st \in Seq(FrameSet(Kinds)) /\ pending \in [Events -> Nat]
  BY <1>1, TopIs DEF Plain, IInv, ListenersOK
<1>6. CASE pending[c] > 0
  <2>1. stack' = Append(st, g) /\ pending' = [pending EXCEPT ![c] = @ - 1]
    BY <1>6 DEF ObserverEnds
  <2>2. g \in FrameSet(Kinds) /\ Sound(g) /\ g.at # "copy" /\ g.call = c /\ g.at = "begin"
    BY <1>1, EmptySeq DEF Observer, Frame, FrameSet, Names, Places, Sound, Events
  <2>3. pending' \in [Events -> Nat] /\ (c # "readable" => pending'["readable"] = pending["readable"])
    <3>1. pending[c] - 1 \in Nat
      BY <1>1, <1>5, <1>6
    <3> QED BY <1>1, <1>5, <2>1, <3>1 DEF Events
  <2>4. c # "readable" => (Deep(stack, pending) => Deep(st, pending))
    BY <1>1, BelowDeep DEF Events
  <2> HIDE DEF c, st, g, w, left
  <2>5. Plain(stack', Kinds)
    BY <1>5, <2>1, <2>2, PushPlain
  <2>6. StackOK(stack', Kinds, w)
    BY <2>5, PlainIsOK
  <2>7. (reader /\ availableBytes > 0) => Deep(stack', pending') \/ OnTop(stack', left)
    <3> SUFFICES ASSUME reader, availableBytes > 0 PROVE Deep(stack', pending') \/ OnTop(stack', left)
      OBVIOUS
    <3>1. CASE c = "readable"
      <4>1. stack' # <<>> /\ Last(stack') = g
        BY <1>5, <2>1, <2>2, Pushed
      <4> QED BY <2>2, <3>1, <4>1 DEF OnTop
    <3>2. CASE c # "readable"
      <4>1. Deep(st, pending)
        BY <1>4, <2>4, <3>2
      <4>2. Deep(Append(st, g), pending)
        BY <1>5, <2>2, <4>1, DeepPush
      <4>3. Deep(Append(st, g), pending')
        BY <2>3, <3>2, <4>2 DEF Deep
      <4> QED BY <2>1, <4>3
    <3> QED BY <3>1, <3>2
  <2>8. Told'
    BY <1>2, <2>7 DEF Told, left
  <2>9. IInv'
    BY <1>2, <2>3, <2>6, <2>8, Concludes DEF w
  <2> QED BY <1>3, <2>9
<1>7. CASE ~(pending[c] > 0)
  <2>1. Goes(st)
    BY <1>7 DEF ObserverEnds
  <2>2. (reader /\ availableBytes' > 0) => Deep(st, pending)
    <3>1. c # "readString" /\ ~(c = "readable" /\ pending["readable"] > 0)
      BY <1>1, <1>7 DEF Events
    <3>2. Deep(stack, pending) => Deep(st, pending)
      BY <1>1, <3>1, BelowDeep
    <3> QED BY <1>2, <1>4, <3>2
  <2>3. "readable" \in Events
    BY DEF Events
  <2> HIDE DEF st
  <2>4. IInv'
    BY <1>2, <1>5, <2>1, <2>2, <2>3, PlainStep
  <2> QED BY <1>3, <2>4
<1> QED BY <1>6, <1>7

-----------------------------------------------------------------------------
(***************************************************************************)
(* The theorems.                                                            *)
(***************************************************************************)

\* A new array has an empty block, and no calls are under way.
LEMMA InitInv ==
    ASSUME Arguments, Init
    PROVE  IInv /\ Queue!Init
<1>1. BlockOK
  <2>1. PICK n \in Blocks : value = [i \in 1..n |-> 0]
    BY DEF Init
  <2>2. n \in Nat
    BY DEF Arguments
  <2> DEFINE v == [i \in 1..n |-> 0]
  <2>3. v \in [1..n -> Nat]
    OBVIOUS
  <2> HIDE DEF v
  <2>4. v \in Seq(Nat) /\ Len(v) = n
    BY <2>2, <2>3, FunctionIsSequence
  <2>5. value = v
    BY <2>1 DEF v
  <2>6. growInc \in Nat
    BY DEF Init, Arguments, Lower
  <2> QED BY <2>2, <2>4, <2>5, <2>6 DEF Init, BlockOK
<1>2. ListenersOK
  BY DEF Init, ListenersOK
<1>3. StackOK(stack, Kinds, writePosition)
  BY DEF Init, StackOK
<1>4. Told
  BY DEF Init, Told, availableBytes
<1>5. Queue!Init
  BY SubSeqEmpty DEF Init, Queue!Init
<1> QED BY <1>1, <1>2, <1>3, <1>4, <1>5 DEF IInv

\* Every step keeps the invariant, and is one of the queue or leaves what the queue
\* says alone.
LEMMA StepInv ==
    ASSUME Arguments, ~Copies, IInv, [Next]_vars
    PROVE  IInv' /\ [Queue!Next \/ Queue!Idle]_<<SubSeq(value, readPosition + 1, writePosition), next, taken, drops>>
<1> DEFINE Done == IInv' /\ Allowed
<1>1. ASSUME NEW width \in Widths, writeNumber(width) \/ readNumber(width) PROVE Done
  BY <1>1, WriteNumberStep, ReadNumberStep
<1>2. ASSUME NEW pieces \in Writes, ejsWriteToByteArray(pieces) PROVE Done
  BY <1>2, WriteCallStep
<1>3. ASSUME NEW count \in Counts, readString(count) \/ (count > 0 /\ read(count)) PROVE Done
  BY <1>3, ReadStringStep, ReadBytesStep
<1>4. ASSUME putNumber \/ writePiece \/ putString PROVE Done
  BY <1>4, PutNumberStep, WritePieceStep, PutStringStep
<1>5. ASSUME copyRoom \/ ejsCopyToByteArray \/ writeEnds PROVE Done
  BY <1>5, CopyRoomStep, CopyStep, WriteEndsStep
<1>6. ASSUME takeNumber \/ takeString \/ takeBytes \/ ReadAll PROVE Done
  BY <1>6, TakeNumberStep, TakeStringStep, TakeBytesStep, ReadAllStep
<1>7. ASSUME compact \/ ejsResetByteArray \/ setReadPosition \/ setWritePosition PROVE Done
  BY <1>7, CompactStep, ResetStep, SetReadStep, SetWriteStep
<1>8. ASSUME flush \/ flushByteArray \/ flushed \/ close \/ closed PROVE Done
  BY <1>8, FlushStep, CloseStep, FlushedStep
<1>9. ASSUME Returns("writeNumber") \/ Returns("write") \/ Returns("read") PROVE Done
  BY <1>9, ReturnStep
<1>10. ASSUME ObserverEnds PROVE Done
  BY <1>10, ObserverStep
<1> HIDE DEF Done
<1>11. CASE UNCHANGED vars
  <2>1. IInv'
    <3>1. BlockOK' /\ ListenersOK' /\ Kinds' = Kinds
      BY <1>11 DEF vars, block, positions, IInv, BlockOK, ListenersOK, Kinds
    <3>2. StackOK(stack', Kinds', writePosition')
      BY <1>11, <3>1 DEF vars, positions, IInv
    <3>3. Told'
      BY <1>11 DEF vars, block, positions, IInv, Told, availableBytes, room, size
    <3> QED BY <3>1, <3>2, <3>3 DEF IInv
  <2>2. UNCHANGED <<SubSeq(value, readPosition + 1, writePosition), next, taken, drops>>
    BY <1>11 DEF vars, block, positions
  <2> QED BY <2>1, <2>2
<1>12. Done \/ UNCHANGED vars
  BY <1>1, <1>2, <1>3, <1>4, <1>5, <1>6, <1>7, <1>8, <1>9, <1>10 DEF Next, Rest
<1> QED BY <1>11, <1>12 DEF Done, Allowed

\* The inductive invariant: the positions are in order and within the block, the
\* stack has sound frames, and a reader is still to be told of what is there.
THEOREM Invariant ==
    ASSUME Arguments, ~Copies
    PROVE  Spec => []IInv
<1>1. Init => IInv
  BY InitInv
<1>2. IInv /\ [Next]_vars => IInv'
  BY StepInv
<1> QED BY <1>1, <1>2, PTL DEF Spec

\* The byte array is the queue of the bytes that were written and not read: whatever
\* observers write and read in the middle of a write or a read, bytes are read once
\* and in the order of their writes, and the positions stay in order and within the
\* block (ejsMakeRoomInByteArray, getInput, adjustReadPosition).
THEOREM ArrayIsQueue ==
    ASSUME Arguments, ~Copies
    PROVE  Spec => IsQueue
<1> DEFINE InOrder == 0 <= readPosition /\ readPosition <= writePosition /\ writePosition <= size
           State == <<SubSeq(value, readPosition + 1, writePosition), next, taken, drops>>
<1>1. Init => Queue!Init
  BY InitInv
<1>2. IInv /\ [Next]_vars => [Queue!Next \/ Queue!Idle]_State
  BY StepInv
<1>3. IInv => InOrder
  BY DEF IInv, BlockOK, size
<1>4. Spec => []IInv
  BY Invariant
<1> QED BY <1>1, <1>2, <1>3, <1>4, PTL DEF Spec, IsQueue, Queue!Spec

\* An observer that reads all it is told of has read all that was written when the
\* calls have returned: every write tells it in the end, and an event that comes
\* while it runs has it called once more (ejsSendEvent).
THEOREM ReaderReadsAll ==
    ASSUME Arguments, ~Copies
    PROVE  Spec => []ReaderKeepsUp
<1>1. IInv => ReaderKeepsUp
  <2> SUFFICES ASSUME IInv, reader, stack = <<>> PROVE availableBytes = 0
    BY DEF ReaderKeepsUp
  <2>1. availableBytes \in Nat
    BY BytesAre DEF IInv
  <2>2. ~OnTop(stack, room)
    BY DEF OnTop
  <2>3. ~Deep(stack, pending)
    BY EmptySeq DEF Deep
  <2> QED BY <2>1, <2>2, <2>3 DEF IInv, Told
<1>2. Spec => []IInv
  BY Invariant
<1> QED BY <1>1, <1>2, PTL
=============================================================================
