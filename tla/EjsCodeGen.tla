----------------------------- MODULE EjsCodeGen -----------------------------
(***************************************************************************)
(* The code generator for statements: src/compiler/ecCodeGen.c.  It works   *)
(* in code buffers that are generated apart and then copied one behind the  *)
(* other, which moves the handlers and the jumps still to be patched.  An   *)
(* instruction is one unit long and positions count from zero.              *)
(***************************************************************************)
EXTENDS Integers, Sequences, SequencesExt, TryMeaning

\* EcCodeGen: the code, its exception handlers, the jumps that wait for a
\* target, the lexical blocks open here and those open where a loop began
Buffer(open, mark) ==
    [ops |-> <<>>, exceptions |-> <<>>, jumps |-> {}, blockCount |-> open, blockMark |-> mark]

\* allocCodeBuffer inherits from the buffer in use
allocCodeBuffer(code) == Buffer(code.blockCount, code.blockMark)

Offset(code) == Len(code.ops)
Emit(code, op) == [code EXCEPT !.ops = Append(@, [op |-> op, arg |-> 0])]
EmitArg(code, op, arg) == [code EXCEPT !.ops = Append(@, [op |-> op, arg |-> arg])]

Moved(ex, by) ==
    [ex EXCEPT !.tryStart = @ + by, !.tryEnd = @ + by, !.handlerStart = @ + by, !.handlerEnd = @ + by]

copyCodeBuffer(dest, src) ==
    LET base == Offset(dest)
    IN  [dest EXCEPT
            !.ops = @ \o src.ops,
            !.jumps = @ \cup {[j EXCEPT !.offset = @ + base] : j \in src.jumps},
            !.exceptions = @ \o [i \in DOMAIN src.exceptions |-> Moved(src.exceptions[i], base)]]

addException(code, start, end, type, hstart, hend, blocks, flags) ==
    [code EXCEPT !.exceptions =
        Append(@, [tryStart |-> start, tryEnd |-> end, catchType |-> type, handlerStart |-> hstart,
                   handlerEnd |-> hend, numBlocks |-> blocks, flags |-> flags])]

\* A jump is relative to the instruction behind it
addJump(code, kind) ==
    EmitArg([code EXCEPT !.jumps = @ \cup {[kind |-> kind, offset |-> Offset(code)]}], "goto", 0)

patchJumps(code, kind, target) ==
    LET mine == {j \in code.jumps : j.kind = kind}
        at == {j.offset : j \in mine}
    IN  [code EXCEPT
            !.jumps = @ \ mine,
            !.ops = [i \in DOMAIN @ |-> IF i - 1 \in at THEN [@[i] EXCEPT !.arg = target - i] ELSE @[i]]]

\* Closes the blocks opened since the loop began, and forgets them
discardBlockItems(code) ==
    LET count == code.blockCount - code.blockMark
        close == [i \in 1..(IF count > 0 THEN count ELSE 0) |-> [op |-> "closeBlock", arg |-> 0]]
    IN  [code EXCEPT !.ops = @ \o close, !.blockCount = @ - count]

\* The compiler state that bears on this: EcState.captureFinally, captureBreak,
\* and the lexical scopes astTry counts
NoCapture == [captureFinally |-> FALSE, captureBreak |-> FALSE, scopes |-> 0]

RECURSIVE GenList(_, _, _), GenCatches(_, _, _, _)

genJump(kind, state, code) ==
    LET closed == discardBlockItems(code)
        captured == IF state.captureFinally THEN Emit(closed, "callFinally")
                    ELSE IF state.captureBreak THEN Emit(closed, "endException") ELSE closed
    IN  addJump(captured, kind)

genReturn(state, code) ==
    Emit(IF state.captureFinally THEN Emit(code, "callFinally") ELSE code, "return")

\* A block is opened by its place in the scopes the compiler knows of
genBlock(s, state, code) ==
    LET opened == [EmitArg(code, "openBlock", state.scopes) EXCEPT !.blockCount = @ + 1]
        filled == GenList(s.body, [state EXCEPT !.scopes = @ + 1], opened)
    IN  [Emit(filled, "closeBlock") EXCEPT !.blockCount = @ - 1]

\* condition; branchFalse over the rest; body; goto the condition
genFor(s, state, outer) ==
    LET clean == [state EXCEPT !.captureFinally = FALSE, !.captureBreak = FALSE]
        code == [allocCodeBuffer(outer) EXCEPT !.blockMark = outer.blockCount]
        body == GenList(s.body, clean, allocCodeBuffer(code))
        looped == EmitArg(copyCodeBuffer(EmitArg(code, "branchFalse", Offset(body) + 1), body),
                          "goto", -(Offset(body) + 2))
        broken == patchJumps(looped, "break", Offset(looped))
    IN  copyCodeBuffer(outer, patchJumps(broken, "continue", Offset(looped) - 1))

\* next; body; goto the next.  The iterator ends the loop with an exception, for
\* which the loop has a handler of its own
genForIn(s, state, outer) ==
    LET clean == [state EXCEPT !.captureFinally = FALSE, !.captureBreak = FALSE]
        code == [allocCodeBuffer(outer) EXCEPT !.blockMark = outer.blockCount]
        body == GenList(s.body, clean, Emit(allocCodeBuffer(code), "next"))
        looped == EmitArg(body, "goto", -(Offset(body) + 1))
        end == Offset(looped)
        handled == addException(looped, 0, 1, "StopIteration", end, end, 0, "iteration")
    IN  copyCodeBuffer(outer, patchJumps(patchJumps(handled, "break", end), "continue", 0))

\* The buffers of the catch clauses, each allocated from the one before. Without a
\* finally block, each ends the exception itself
GenCatches(catches, ends, state, code) ==
    IF catches = <<>> THEN <<>>
    ELSE LET body == GenList(Head(catches).body, state, allocCodeBuffer(code))
             done == IF ends THEN Emit(body, "endException") ELSE body
         IN  <<done>> \o GenCatches(Tail(catches), ends, state, done)

\* The length of what follows each clause up to the finally block.  With a finally
\* block, a clause that something follows ends in a jump over it
JumpLengths(bodies, has) ==
    LET after[i \in 0..Len(bodies)] ==
            IF i = Len(bodies) THEN 0
            ELSE after[i + 1] + Offset(bodies[i + 1]) + (IF has /\ after[i + 1] > 0 THEN 1 ELSE 0)
    IN  after

\* Copies catch clause i, its jump, and adds its handler
AddCatch(code, catch, body, jump, start, end, blocks) ==
    LET copied == copyCodeBuffer(code, body)
        joined == IF jump > 0 THEN EmitArg(copied, "goto", jump) ELSE copied
    IN  addException(joined, start, end, catch.type, Offset(code), Offset(joined), blocks, "catch")

genTry(s, state, save) ==
    LET has == s.finally # <<>>
        inner == [state EXCEPT !.scopes = @ + 1]
        try == GenList(s.body, [state EXCEPT !.captureFinally = has], allocCodeBuffer(save))
        bodies == GenCatches(s.catches, ~has,
                             [inner EXCEPT !.captureFinally = has, !.captureBreak = TRUE], try)
        before == IF bodies = <<>> THEN try ELSE bodies[Len(bodies)]
        finally == Emit(GenList(s.finally[1], [inner EXCEPT !.captureFinally = FALSE, !.captureBreak = TRUE],
                                allocCodeBuffer(before)), "endException")
        after == JumpLengths(bodies, has)
        start == Offset(save)
        tried == copyCodeBuffer(save, try)
        left == IF has THEN Emit(tried, "gotoFinally") ELSE EmitArg(tried, "goto", after[0])
        caught == FoldLeftDomain(LAMBDA code, i : AddCatch(code, s.catches[i], bodies[i], IF has THEN after[i] ELSE 0,
                                                             start, Offset(left), state.scopes), left, bodies)
        ended == copyCodeBuffer(caught, finally)
    IN  IF ~has THEN caught
        ELSE addException(ended, start, Offset(left), "Void", Offset(caught), Offset(ended), state.scopes, "finally")

GenStatement(s, state, code) ==
    CASE s.kind = "mark" -> EmitArg(code, "mark", s.label)
      [] s.kind = "throw" -> EmitArg(code, "throw", s.type)
      [] s.kind = "call" -> EmitArg(code, "call", s.body)
      [] s.kind = "return" -> genReturn(state, code)
      [] s.kind \in {"break", "continue"} -> genJump(s.kind, state, code)
      [] s.kind = "block" -> genBlock(s, state, code)
      [] s.kind = "while" -> genFor(s, state, code)
      [] s.kind = "forIn" -> genForIn(s, state, code)
      [] s.kind = "try" -> genTry(s, state, code)

GenList(list, state, code) ==
    IF list = <<>> THEN code ELSE GenList(Tail(list), state, GenStatement(Head(list), state, code))

\* genEndFunction makes sure that the code does not run off the end
genFunction(body) ==
    LET code == GenList(body, NoCapture, Buffer(0, 0))
    IN  IF code.ops # <<>> /\ Last(code.ops).op = "return" THEN code ELSE Emit(code, "return")
=============================================================================
