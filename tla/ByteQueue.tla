------------------------------ MODULE ByteQueue ------------------------------
(***************************************************************************)
(* What a ByteArray promises as a stream: the bytes that were written can    *)
(* be read once, in the order in which they were written.  The n-th byte     *)
(* that is written is n.                                                     *)
(***************************************************************************)
EXTENDS Naturals, Sequences

VARIABLES
    queue,      \* bytes written and not yet read
    next,       \* the next byte to be written
    taken,      \* bytes that a read has just returned
    drops       \* bytes are thrown away because someone has asked for it

Init == queue = <<>> /\ next = 1 /\ taken = <<>> /\ drops = FALSE

Write(n) == queue' = queue \o [i \in 1..n |-> next + i - 1] /\ next' = next + n /\ taken' = <<>> /\ ~drops'

Read(n) ==
    /\ queue' = SubSeq(queue, n + 1, Len(queue)) /\ taken' = SubSeq(queue, 1, n)
    /\ UNCHANGED next /\ ~drops'

\* Bytes are thrown away at either end, by flush, close and moved positions only
Discard(first, last) == queue' = SubSeq(queue, first, last) /\ taken' = <<>> /\ drops' /\ UNCHANGED next

Next ==
    \/ \E n \in 1..(next' - next) : Write(n)
    \/ \E n \in 1..Len(queue) : Read(n)
    \/ \E first \in 1..Len(queue) + 1, last \in 0..Len(queue) : Discard(first, last)

Idle == taken' = <<>> /\ ~drops' /\ UNCHANGED <<queue, next>>

Spec == Init /\ [][Next \/ Idle]_<<queue, next, taken, drops>>
=============================================================================
