---------------------------- MODULE EjsByteArray ----------------------------
(***************************************************************************)
(* A ByteArray used as a stream (core/src/ejsByteArray.c): a block of bytes *)
(* with a read and a write position, and observers that are called in the   *)
(* middle of reads and writes to make room or to supply data.               *)
(*                                                                          *)
(* Observers and the script that has the array make the same calls.  An     *)
(* event has one observer or none; Emitter.es calls it again for events     *)
(* that were sent while it ran.  The bytes written are counted, so the n-th *)
(* is n.  Access by index, copyIn, copyOut and the encoding of numbers are   *)
(* left out.                                                                *)
(***************************************************************************)
EXTENDS Integers, SequencesExt

CONSTANTS
    Widths,         \* numbers of bytes of the numbers that are read and written
    Writes,         \* arguments of write, sequences of pieces
    Counts,         \* arguments of readString and of read
    Blocks,         \* sizes of new arrays
    GrowInc,        \* by how much an array grows, BIT_MAX_BUFFER
    MaxGrowInc,     \* 32 * 1024
    Copies,         \* whether ByteArrays are written to arrays that have a reader or do not grow
    MaxWritten,     \* bound: bytes written
    MaxOps,         \* bound: calls
    MaxDepth        \* bound: calls under way

\* Sizes, numbers of bytes and positions are numbers; what is written are
\* strings and other ByteArrays
Arguments ==
    /\ Widths \subseteq Nat /\ Counts \subseteq Int /\ Blocks \subseteq Nat /\ GrowInc \in Nat /\ MaxGrowInc \in Nat
    /\ Writes \subseteq Seq([kind : {"string", "bytes"}, length : Nat])

VARIABLES
    value, readPosition, writePosition, growInc, resizable,
    listening,      \* events that have an observer
    pending,        \* events that wait for an observer that runs, by number
    reader,         \* the observer of readable reads all there is, and does nothing else
    stack,          \* calls and observers under way
    next,           \* the next byte written
    taken, drops,   \* what a read returned, and whether the script asked for bytes to go: for the properties only
    ops             \* calls so far

block == <<value, growInc, resizable>>
positions == <<readPosition, writePosition>>
vars == <<block, positions, listening, pending, reader, stack, next, taken, drops, ops>>

Events == {"readable", "writable", "flush", "close"}
Piece(kind, length) == [kind |-> kind, length |-> length]
Lower(a, b) == IF a < b THEN a ELSE b
Higher(a, b) == IF a > b THEN a ELSE b

size == Len(value)
availableBytes == writePosition - readPosition
room == size - writePosition

Init ==
    /\ value \in {[i \in 1..n |-> 0] : n \in Blocks}
    /\ readPosition = 0 /\ writePosition = 0
    /\ resizable \in BOOLEAN /\ growInc = IF resizable THEN Lower(GrowInc * 2, MaxGrowInc) ELSE 0
    /\ listening \in SUBSET Events /\ pending = [e \in Events |-> 0]
    /\ reader \in BOOLEAN /\ (reader => "readable" \in listening)
    /\ stack = <<>> /\ next = 1 /\ taken = <<>> /\ drops = FALSE /\ ops = 0

-----------------------------------------------------------------------------
Top == Last(stack)
Below == Front(stack)
Frame(call, at, need) == [call |-> call, at |-> at, need |-> need, pieces |-> <<>>, offset |-> 0]
Observer(event) == Frame(event, "begin", 0)
Runs(event) == \E i \in DOMAIN stack : stack[i].call = event

\* ejsSendEvent: the observer runs before the call goes on as the frame says
Sends(event, frames) ==
    IF event \in listening /\ ~Runs(event)
    THEN stack' = Append(frames, Observer(event)) /\ UNCHANGED pending
    ELSE stack' = frames /\ pending' = IF event \in listening THEN [pending EXCEPT ![event] = @ + 1] ELSE pending
Goes(frames) == stack' = frames /\ UNCHANGED pending
Did(bytes, drop) == taken' = bytes /\ drops' = drop /\ UNCHANGED <<listening, reader>>
Quiet == Did(<<>>, FALSE)
Drops == Did(<<>>, TRUE)

At(call, at) == stack # <<>> /\ Top.call = call /\ Top.at = at
OnlyReads == reader /\ stack # <<>> /\ Top.call = "readable"

\* A script, or an observer, makes a call
Scripted == stack # <<>> => Top.call \in Events
MayCall == Scripted /\ ~OnlyReads /\ ops < MaxOps /\ Len(stack) < MaxDepth /\ ops' = ops + 1
Calls == MayCall /\ Quiet
Discards == MayCall /\ Drops

Returns(call) == At(call, "done") /\ Goes(Below) /\ Quiet /\ UNCHANGED <<block, positions, next, ops>>

\* After its run an observer is called again for an event that waits
ObserverEnds_Forgets ==      \* Mutant: events that waited are dropped
    /\ stack # <<>> /\ Top.call \in Events
    /\ stack' = Below /\ pending' = [pending EXCEPT ![Top.call] = 0]
    /\ Quiet /\ UNCHANGED <<block, positions, next, ops>>
ObserverEnds ==
    /\ stack # <<>> /\ Top.call \in Events
    /\ OnlyReads => Top.at = "end"
    /\ IF pending[Top.call] > 0
       THEN stack' = Append(Below, Observer(Top.call)) /\ pending' = [pending EXCEPT ![Top.call] = @ - 1]
       ELSE Goes(Below)
    /\ Quiet /\ UNCHANGED <<block, positions, next, ops>>

-----------------------------------------------------------------------------
(***************************************************************************)
(* Room                                                                     *)
(***************************************************************************)
\* ejsMakeRoomInByteArray: those who read are given the chance to make room,
\* and then the block grows
makesRoom(require, frames) == IF room < require /\ availableBytes > 0 THEN Sends("readable", frames) ELSE Goes(frames)
NoRoom(require) == room < require /\ ~resizable
Grown(require) ==
    value \o [i \in 1..(IF room < require THEN Higher(require, growInc) ELSE 0) |-> 0]
ejsGrowByteArray(require) ==
    growInc' = (IF room < require THEN Lower(growInc * 2, MaxGrowInc) ELSE growInc) /\ UNCHANGED resizable

\* Bytes are put at a position, and the write position moves on
Put(position, count, require) ==
    LET grown == Grown(require) IN
    /\ position + count <= Len(grown)
    /\ value' = [i \in DOMAIN grown |-> IF i - position \in 1..count THEN next + i - position - 1 ELSE grown[i]]
    /\ ejsGrowByteArray(require)
    /\ writePosition' = writePosition + count
    /\ next' = next + count

\* An array that is not resizable throws
Fails(require) == NoRoom(require) /\ Goes(Below) /\ Quiet /\ UNCHANGED <<block, positions, next, ops>>

-----------------------------------------------------------------------------
(***************************************************************************)
(* Writes                                                                   *)
(***************************************************************************)
MayWrite(count) == next + count <= MaxWritten + 1

\* writeByte, writeShort and writeInteger; writeLong and writeDouble differ in
\* the number of bytes
writeNumber(width) ==
    /\ Calls /\ MayWrite(width)
    /\ makesRoom(width, Append(stack, Frame("writeNumber", "room", width)))
    /\ UNCHANGED <<block, positions, next>>
putNumber ==
    /\ At("writeNumber", "room")
    /\ \/ Fails(Top.need)
       \/ /\ ~NoRoom(Top.need)
          /\ Put(writePosition, Top.need, Top.need)
          /\ Sends("readable", Append(Below, [Top EXCEPT !.at = "done"]))
          /\ Quiet /\ UNCHANGED <<readPosition, ops>>

Total(pieces) == FoldLeft(LAMBDA sum, piece : sum + piece.length, 0, pieces)

\* write: the pieces one by one
ejsWriteToByteArray(pieces) ==
    /\ Calls /\ MayWrite(Total(pieces))
    /\ (\E i \in DOMAIN pieces : pieces[i].kind = "bytes") => Copies \/ (resizable /\ "readable" \notin listening)
    /\ IF availableBytes = 0 THEN readPosition' = 0 /\ writePosition' = 0 ELSE UNCHANGED positions
    /\ Goes(Append(stack, [Frame("write", "next", 0) EXCEPT !.pieces = pieces]))
    /\ UNCHANGED <<block, next>>
Piece1 == Head(Top.pieces)
Written == [Top EXCEPT !.at = "next", !.pieces = Tail(@)]
writePiece ==
    /\ At("write", "next") /\ Top.pieces # <<>>
    /\ makesRoom(Piece1.length, Append(Below, [Top EXCEPT !.at = "room"]))
    /\ Quiet /\ UNCHANGED <<block, positions, next, ops>>
putString ==
    /\ At("write", "room") /\ Piece1.kind = "string"
    /\ \/ Fails(Piece1.length)
       \/ /\ ~NoRoom(Piece1.length)
          /\ Put(writePosition, Piece1.length, Piece1.length)
          /\ Goes(Append(Below, Written))
          /\ Quiet /\ UNCHANGED <<readPosition, ops>>

\* Another ByteArray: room is made for it, and once more by
\* ejsCopyToByteArray, which was told where to put it before
copyRoom ==
    /\ At("write", "room") /\ Piece1.kind = "bytes"
    /\ \/ Fails(Piece1.length)
       \/ /\ ~NoRoom(Piece1.length)
          /\ value' = Grown(Piece1.length) /\ ejsGrowByteArray(Piece1.length)
          /\ LET copy == [Top EXCEPT !.at = "copy", !.offset = writePosition]
                 require == writePosition + Piece1.length
             IN  IF size' - writePosition < require /\ availableBytes > 0
                 THEN Sends("readable", Append(Below, copy)) ELSE Goes(Append(Below, copy))
          /\ Quiet /\ UNCHANGED <<positions, next, ops>>
ejsCopyToByteArray ==
    /\ At("write", "copy")
    /\ LET require == Top.offset + Piece1.length IN
        \/ /\ NoRoom(require) /\ writePosition' = writePosition + Piece1.length   \* its failure is not looked at
           /\ UNCHANGED <<block, next>>
        \/ ~NoRoom(require) /\ Put(Top.offset, Piece1.length, require)
    /\ Goes(Append(Below, Written))
    /\ Quiet /\ UNCHANGED <<readPosition, ops>>
writeEnds ==
    /\ At("write", "next") /\ Top.pieces = <<>>
    /\ IF availableBytes > 0 THEN Sends("readable", Append(Below, [Top EXCEPT !.at = "done"])) ELSE Goes(Below)
    /\ Quiet /\ UNCHANGED <<block, positions, next, ops>>

-----------------------------------------------------------------------------
(***************************************************************************)
(* Reads                                                                    *)
(***************************************************************************)
\* getInput: those who write are given the chance to supply what is missing
getInput(require, frames) ==
    /\ IF availableBytes = 0 THEN readPosition' = 0 /\ writePosition' = 0 ELSE UNCHANGED positions
    /\ IF availableBytes < require THEN Sends("writable", frames) ELSE Goes(frames)
    /\ UNCHANGED <<block, next>>

\* Bytes from the read position on
Got(count) == Did(SubSeq(value, readPosition + 1, readPosition + count), FALSE)
adjustReadPosition(count) ==
    LET empty == readPosition + count = writePosition IN
    /\ readPosition' = IF empty THEN 0 ELSE readPosition + count
    /\ writePosition' = IF empty THEN 0 ELSE writePosition

readNumber(width) == Calls /\ getInput(width, Append(stack, Frame("readNumber", "take", width)))
takeNumber ==
    /\ At("readNumber", "take") /\ Goes(Below)
    /\ IF availableBytes < Top.need
       THEN Quiet /\ UNCHANGED positions        \* null, or "Premanture eof"
       ELSE Got(Top.need) /\ adjustReadPosition(Top.need)
    /\ UNCHANGED <<block, next, ops>>

\* Without a count, all there is
readString(count) ==
    /\ Calls /\ getInput(IF count < 0 THEN 1 ELSE count, Append(stack, Frame("readString", "take", count)))
ReadAll ==
    /\ OnlyReads /\ Top.at = "begin" /\ Quiet /\ UNCHANGED ops
    /\ getInput(1, Append(Append(Below, [Top EXCEPT !.at = "end"]), Frame("readString", "take", -1)))
takeString ==
    /\ At("readString", "take") /\ Goes(Below)
    /\ LET count == IF Top.need < 0 THEN availableBytes ELSE Lower(Top.need, availableBytes) IN
        Got(count) /\ adjustReadPosition(count)
    /\ UNCHANGED <<block, next, ops>>

\* read into another array, which leaves the positions where they are when
\* nothing is left
read(count) == Calls /\ getInput(1, Append(stack, Frame("read", "take", count)))
takeBytes ==
    /\ At("read", "take")
    /\ IF availableBytes < 1
       THEN Quiet /\ Goes(Below) /\ UNCHANGED positions
       ELSE LET count == Lower(availableBytes, Top.need) IN
            /\ Got(count) /\ readPosition' = readPosition + count /\ UNCHANGED writePosition
            /\ IF availableBytes > count THEN Sends("writable", Append(Below, [Top EXCEPT !.at = "done"])) ELSE Goes(Below)
    /\ UNCHANGED <<block, next, ops>>

-----------------------------------------------------------------------------
(***************************************************************************)
(* Positions                                                                *)
(***************************************************************************)
Zeroed == [i \in DOMAIN value |-> 0]

compact ==
    /\ Calls /\ Goes(stack)
    /\ value' = [i \in DOMAIN value |-> IF i <= availableBytes THEN value[readPosition + i] ELSE value[i]]
    /\ readPosition' = 0 /\ writePosition' = availableBytes
    /\ UNCHANGED <<growInc, resizable, next>>
\* Mutant: without the test that nothing is left
ejsResetByteArray_Always ==
    /\ Calls /\ Goes(stack)
    /\ value' = Zeroed /\ readPosition' = 0 /\ writePosition' = 0
    /\ UNCHANGED <<growInc, resizable, next>>
ejsResetByteArray ==
    /\ Calls /\ Goes(stack) /\ availableBytes = 0
    /\ value' = Zeroed /\ readPosition' = 0 /\ writePosition' = 0
    /\ UNCHANGED <<growInc, resizable, next>>

\* Positions that a script sets, where that leaves out bytes and makes up none
setReadPosition ==
    /\ Discards /\ Goes(stack)
    /\ \E pos \in readPosition + 1..writePosition : readPosition' = pos
    /\ UNCHANGED <<block, writePosition, next>>
setWritePosition ==
    /\ Discards /\ Goes(stack)
    /\ \E pos \in readPosition..writePosition - 1 : writePosition' = pos
    /\ UNCHANGED <<block, readPosition, next>>

flush ==
    /\ Calls
    /\ LET frames == Append(stack, Frame("flush", "reset", 0)) IN
        IF availableBytes > 0 THEN Sends("flush", frames) ELSE Goes(frames)
    /\ UNCHANGED <<block, positions, next>>
flushByteArray ==
    /\ At("flush", "reset") /\ readPosition' = 0 /\ writePosition' = 0
    /\ Sends("writable", Append(Below, [Top EXCEPT !.at = "zero"]))
    /\ Drops /\ UNCHANGED <<block, next, ops>>
flushed ==
    /\ At("flush", "zero") /\ readPosition' = 0 /\ writePosition' = 0 /\ value' = Zeroed
    /\ Goes(Below)
    /\ Drops /\ UNCHANGED <<growInc, resizable, next, ops>>

close ==
    /\ Calls /\ Sends("close", Append(stack, Frame("closing", "reset", 0)))
    /\ UNCHANGED <<block, positions, next>>
closed ==
    /\ At("closing", "reset") /\ readPosition' = 0 /\ writePosition' = 0 /\ Goes(Below)
    /\ Drops /\ UNCHANGED <<block, next, ops>>

\* The script has no calls left
Rest == stack = <<>> /\ ops = MaxOps /\ UNCHANGED vars

Next ==
    \/ \E width \in Widths : writeNumber(width) \/ readNumber(width)
    \/ \E pieces \in Writes : ejsWriteToByteArray(pieces)
    \/ \E count \in Counts : readString(count) \/ (count > 0 /\ read(count))
    \/ putNumber \/ writePiece \/ putString \/ copyRoom \/ ejsCopyToByteArray \/ writeEnds
    \/ takeNumber \/ takeString \/ takeBytes \/ ReadAll
    \/ compact \/ ejsResetByteArray \/ setReadPosition \/ setWritePosition
    \/ flush \/ flushByteArray \/ flushed \/ close \/ closed
    \/ Returns("writeNumber") \/ Returns("write") \/ Returns("read") \/ ObserverEnds \/ Rest

Spec == Init /\ [][Next]_vars

-----------------------------------------------------------------------------
(***************************************************************************)
(* Properties                                                               *)
(***************************************************************************)
\* Whatever observers do in the middle of calls, what is between the positions
\* are the bytes that were written and not read, within the block.
Queue == INSTANCE ByteQueue WITH queue <- SubSeq(value, readPosition + 1, writePosition)
IsQueue == Queue!Spec /\ [](0 <= readPosition /\ readPosition <= writePosition /\ writePosition <= size)

\* An observer that reads all there is whenever there is something to read has
\* all that was written, once the calls have returned.
ReaderKeepsUp == reader /\ stack = <<>> => availableBytes = 0
=============================================================================
