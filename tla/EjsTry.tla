------------------------------- MODULE EjsTry -------------------------------
(***************************************************************************)
(* The bytecode interpreter on exceptions, calls, jumps and lexical blocks: *)
(* src/vm/ejsInterp.c with src/vm/ejsException.c.                           *)
(*                                                                          *)
(* One step is one instruction.  An exception diverts the interpreter to    *)
(* the `attention` instruction before the next one; nothing runs between    *)
(* the two, so they are one step here.  The blocks are the chain of         *)
(* state->bp: one for each frame, for each open lexical block and for each  *)
(* exception block.                                                         *)
(***************************************************************************)
EXTENDS EjsCodeGen

CONSTANTS
    Programs,   \* functions, each a sequence of statements
    Fuel,       \* the turns all loops of a program have together
    MaxTrace    \* bound on the marks passed, for programs the code makes endless

VARIABLES
    program,    \* the function that is run
    fuel,       \* the variable that the loops count down
    frames,     \* the frames of functions, the current one last
    blocks,     \* the chain of blocks, state->bp last
    exception,  \* ejs->exception, "none" when there is none
    trace,      \* the marks passed
    outcome     \* "running", then "return", "throw", or "corrupt" when the
                \* interpreter would go on with a chain of blocks that is not its own

vars == <<program, fuel, frames, blocks, exception, trace, outcome>>

\* The interpreter's state, for the functions of ejsInterp.c that work on it
State == [frames |-> frames, blocks |-> blocks, exception |-> exception]
Fp(m) == Last(m.frames)
SetFp(m, fp) == [m EXCEPT !.frames = Append(Front(@), fp)]
SetPc(m, pc) == SetFp(m, [Fp(m) EXCEPT !.pc = pc])
SetFlags(m, inCatch, inException) == SetFp(m, [Fp(m) EXCEPT !.inCatch = inCatch, !.inException = inException])

\* block.restartAddress, -1 for none, and block.prevException
NewBlock == [restart |-> -1, prevException |-> "none"]

\* The frame's own block is the base of its chain
Frame(code, base) == [code |-> code, pc |-> 0, inCatch |-> FALSE, inException |-> FALSE, base |-> base]

\* The chain holds the block of the current frame
Sound(m) == m.frames = <<>> \/ Fp(m).base <= Len(m.blocks)

\* The handlers hold the instruction before the pc
Covers(ex, fp) == ex.tryStart <= fp.pc - 1 /\ fp.pc - 1 < ex.handlerEnd
Runs(ex, fp) == ex.handlerStart <= fp.pc - 1 /\ fp.pc - 1 < ex.handlerEnd

FirstHandler(m, Test(_)) == SelectSeq(Fp(m).code.exceptions, Test)

\* The handlers that may take the exception, the one the code takes first
findExceptionHandler(m, kind) ==
    LET fits(ex) == /\ Covers(ex, Fp(m))
                    /\ ex.flags = kind \/ (kind = "catch" /\ ex.flags = "iteration")
                    /\ kind = "finally" \/ m.exception = "StopIteration" \/ ex.catchType \in {"Void", m.exception}
    IN  FirstHandler(m, fits)

inHandler(m, kind) ==
    LET fits(ex) == Runs(ex, Fp(m)) /\ ex.flags = kind
    IN  FirstHandler(m, fits)

\* The code scans on after the first handler that covers the pc, so the last
\* handler with the same end of its try wins
findEndException(m) ==
    LET list == Fp(m).code.exceptions
        first == SelectInSeq(list, LAMBDA ex : Covers(ex, Fp(m)))
        last == SelectLastInSeq(list, LAMBDA ex : ex.tryEnd = list[first].tryEnd)
    IN  IF first = 0 THEN 0 ELSE list[last].handlerEnd

\* Mutants of popExceptionBlock and createExceptionBlock
popExceptionBlockForgets(m) == [m EXCEPT !.blocks = Front(@)]
createExceptionBlockBase(m, ex) ==
    [SetPc(SetFlags(m, ex.flags = "catch", TRUE), ex.handlerStart) EXCEPT
        !.blocks = Append(IF ex.flags = "catch" THEN SubSeq(@, 1, ex.numBlocks + 1)
                          ELSE [@ EXCEPT ![Len(@)].prevException = m.exception], NewBlock),
        !.exception = "none"]

popExceptionBlock(m) ==
    LET below == Len(m.blocks) - 1
        popped == [m EXCEPT !.blocks = Front(@)]
        masked == m.blocks[below].prevException
        taken == [popped EXCEPT !.exception = masked, !.blocks[below].prevException = "none"]
    IN  IF below = 0 \/ m.exception # "none" THEN popped
        ELSE IF masked = "none" THEN taken ELSE SetPc(taken, Fp(m).pc + 1)

\* The handler of a loop is empty and needs no block: the loop has ended.
\* For a catch block, the lexical blocks of the try are discarded down to the
\* number open at the try.  A finally block runs on top of them and masks the exception
createExceptionBlock(m, ex) ==
    LET open == Len(m.blocks)
        kept == IF ex.flags = "catch" THEN Min({open, Fp(m).base + ex.numBlocks}) ELSE open
        prev == SubSeq(m.blocks, 1, kept)
        below == IF ex.flags = "catch" THEN prev
                 ELSE [prev EXCEPT ![kept].prevException = m.exception]
        entered == SetPc(SetFlags(m, ex.flags = "catch", TRUE), ex.handlerStart)
    IN  IF ex.flags = "iteration" THEN [SetPc(m, ex.handlerStart) EXCEPT !.exception = "none"]
        ELSE [entered EXCEPT !.blocks = Append(below, NewBlock), !.exception = "none"]

\* Mutant of EnterFinally: the block of a catch clause is popped when there is none
EnterFinallyPops(m, ex) == createExceptionBlock(popExceptionBlock(m), ex)

\* Enters a finally block, from a try or out of a catch block
EnterFinally(m, ex) ==
    createExceptionBlock(IF Fp(m).inCatch THEN popExceptionBlock(m) ELSE m, ex)

RECURSIVE checkExceptionHandlers(_), processException(_)

\* Mutant of checkExceptionHandlers: no test of inException
checkExceptionHandlersAnew(m) ==
    LET catches == findExceptionHandler(m, "catch")
        finals == findExceptionHandler(m, "finally")
    IN  IF catches # <<>> THEN createExceptionBlock(m, catches[1])
        ELSE IF finals # <<>> THEN EnterFinally(m, finals[1])
        ELSE SetFlags(m, FALSE, FALSE)

checkExceptionHandlers(m) ==
    LET catches == findExceptionHandler(m, "catch")
        inFinally == inHandler(m, "finally")
        finals == findExceptionHandler(m, "finally")
        anew == ~Fp(m).inException \/ m.exception = "StopIteration"
    IN  IF anew /\ catches # <<>> THEN createExceptionBlock(m, catches[1])
        ELSE IF ~anew /\ inFinally # <<>>
        THEN checkExceptionHandlers(SetPc(SetFlags(m, FALSE, FALSE), inFinally[1].handlerEnd + 1))
        ELSE IF finals # <<>> THEN EnterFinally(m, finals[1])
        ELSE SetFlags(m, FALSE, FALSE)

Unwind(m) == [m EXCEPT !.frames = Front(@), !.blocks = SubSeq(@, 1, Fp(m).base - 1)]

processException(m) ==
    IF m.frames = <<>> THEN m
    ELSE LET m1 == IF Fp(m).code.exceptions = <<>> THEN m ELSE checkExceptionHandlers(m)
         IN  IF m1.exception = "none" \/ ~Sound(m1) THEN m1 ELSE processException(Unwind(m1))

\* The instruction at the pc; the pc is past it while it runs
Op == LET fp == Fp(State) IN fp.code.ops[fp.pc + 1]
Fetched == SetPc(State, Fp(State).pc + 1)

\* Ends the step in state m, giving attention to an exception that was raised
Resume(m, raised) ==
    \E m0 \in {m} : \E m1 \in {IF raised /\ m0.exception # "none" THEN processException(m0) ELSE m0} :
        /\ frames' = m1.frames
        /\ blocks' = m1.blocks
        /\ exception' = m1.exception
        /\ outcome' = IF ~Sound(m1) THEN "corrupt"
                      ELSE IF m1.frames = <<>> THEN (IF m1.exception = "none" THEN "return" ELSE "throw")
                      ELSE "running"

Executes(op) == outcome = "running" /\ Len(trace) < MaxTrace /\ Op.op = op /\ UNCHANGED program

Init ==
    /\ program \in Programs
    /\ fuel = Fuel
    /\ frames = <<Frame(genFunction(program), 1)>>
    /\ blocks = <<NewBlock>>
    /\ exception = "none"
    /\ trace = <<>>
    /\ outcome = "running"

\* An instruction with an effect that can be seen
DoMark ==
    /\ Executes("mark")
    /\ trace' = Append(trace, Op.arg)
    /\ Resume(Fetched, FALSE)
    /\ UNCHANGED fuel

DoThrow ==
    /\ Executes("throw")
    /\ Resume([Fetched EXCEPT !.exception = Op.arg], TRUE)
    /\ UNCHANGED <<fuel, trace>>

\* callFunction, of a function with bytecode
DoCall ==
    /\ Executes("call")
    /\ Resume([Fetched EXCEPT !.frames = Append(@, Frame(genFunction(Op.arg), Len(blocks) + 1)),
                              !.blocks = Append(@, NewBlock)], FALSE)
    /\ UNCHANGED <<fuel, trace>>

DoReturn ==
    /\ Executes("return")
    /\ Resume(Unwind(Fetched), FALSE)
    /\ UNCHANGED <<fuel, trace>>

DoGoto ==
    /\ Executes("goto")
    /\ Resume(SetPc(Fetched, Fp(Fetched).pc + Op.arg), FALSE)
    /\ UNCHANGED <<fuel, trace>>

\* The condition of a loop and its branch
DoBranchFalse ==
    /\ Executes("branchFalse")
    /\ IF fuel = 0 THEN Resume(SetPc(Fetched, Fp(Fetched).pc + Op.arg), FALSE) /\ UNCHANGED fuel
       ELSE Resume(Fetched, FALSE) /\ fuel' = fuel - 1
    /\ UNCHANGED trace

\* The call of the iterator's next, which throws when there is no more
DoNext ==
    /\ Executes("next")
    /\ IF fuel = 0 THEN Resume([Fetched EXCEPT !.exception = "StopIteration"], TRUE) /\ UNCHANGED fuel
       ELSE Resume(Fetched, FALSE) /\ fuel' = fuel - 1
    /\ UNCHANGED trace

\* The block to clone is looked up by its distance in the chain.  With other
\* blocks on the chain than the compiler knew of, it is not found there
DoOpenBlock ==
    /\ Executes("openBlock")
    /\ IF Len(blocks) - Fp(State).base = Op.arg THEN Resume([Fetched EXCEPT !.blocks = Append(@, NewBlock)], FALSE)
       ELSE Resume([Fetched EXCEPT !.exception = "ReferenceError"], TRUE)
    /\ UNCHANGED <<fuel, trace>>

DoCloseBlock ==
    /\ Executes("closeBlock")
    /\ Resume([Fetched EXCEPT !.blocks = Front(@)], FALSE)
    /\ UNCHANGED <<fuel, trace>>

\* Runs the finally block and comes back to the next instruction
DoCallFinally ==
    /\ Executes("callFinally")
    /\ LET found == findExceptionHandler(Fetched, "finally")
           entered == EnterFinally(Fetched, found[1])
       IN  IF found = <<>> THEN Resume(Fetched, FALSE)
           ELSE Resume([entered EXCEPT !.blocks[Len(entered.blocks)].restart = Fp(Fetched).pc], FALSE)
    /\ UNCHANGED <<fuel, trace>>

DoGotoFinally ==
    /\ Executes("gotoFinally")
    /\ LET found == findExceptionHandler(Fetched, "finally")
       IN  Resume(IF found = <<>> THEN Fetched ELSE EnterFinally(Fetched, found[1]), FALSE)
    /\ UNCHANGED <<fuel, trace>>

\* Mutant of DoEndException: an exception raised again gets no attention
DoEndExceptionQuiet ==
    /\ Executes("endException")
    /\ LET restart == Last(blocks).restart
           left == SetFlags(Fetched, FALSE, FALSE)
       IN  IF ~Fp(Fetched).inException THEN Resume(Fetched, FALSE)
           ELSE IF restart >= 0 THEN Resume(SetPc(popExceptionBlock(left), restart), FALSE)
           ELSE Resume(popExceptionBlock(SetPc(left, findEndException(Fetched))), FALSE)
    /\ UNCHANGED <<fuel, trace>>
\* Leaves an exception block, back to where a callFinally was or to the end of
\* the statement, and raises again what the finally block has masked
DoEndException ==
    /\ Executes("endException")
    /\ LET restart == Last(blocks).restart
           left == SetFlags(Fetched, FALSE, FALSE)
       IN  IF ~Fp(Fetched).inException THEN Resume(Fetched, FALSE)
           ELSE IF restart >= 0 THEN Resume(SetPc(popExceptionBlock(left), restart), FALSE)
           ELSE Resume(popExceptionBlock(SetPc(left, findEndException(Fetched))), TRUE)
    /\ UNCHANGED <<fuel, trace>>

Next ==
    \/ DoMark \/ DoThrow \/ DoCall \/ DoReturn \/ DoGoto \/ DoBranchFalse \/ DoNext \/ DoOpenBlock
    \/ DoCloseBlock \/ DoCallFinally \/ DoGotoFinally \/ DoEndException

Spec == Init /\ [][Next]_vars /\ WF_vars(Next)

-----------------------------------------------------------------------------
(* Type correctness *)
Exceptions == {"none", "ReferenceError", "StopIteration"} \cup {"A", "B", "C"}
FrameTypeOK(f) ==
    /\ f.pc \in 0..Len(f.code.ops)
    /\ f.inCatch \in BOOLEAN /\ f.inException \in BOOLEAN
    /\ f.base \in Nat \ {0}
\* The state has its types; a frame in a catch block is in an exception
TypeOK ==
    /\ fuel \in 0..Fuel
    /\ \A i \in DOMAIN frames : FrameTypeOK(frames[i]) /\ (frames[i].inCatch => frames[i].inException)
    /\ exception \in Exceptions
    /\ \A i \in DOMAIN blocks : blocks[i].restart >= -1 /\ blocks[i].prevException \in Exceptions
    /\ Len(trace) <= MaxTrace
    /\ outcome \in {"running", "return", "throw", "corrupt"}

(* Safety *)
\* The promise to the function that is run
Promise == MeaningOfFunction(program, Fuel)

\* What runs, runs in the order the program means: no finally block is missed
\* or run twice, no catch block takes what is not for it (ejsInterp.c:2936-3193
\* with the code of genTry and the jumps out of it)
RunsAsMeant == IsPrefix(trace, Promise.trace)

\* At the end all of it has run, and the function returns or throws what the
\* program means it to: a finally block that ends normally hands on the
\* exception it masked, and one that does not replaces it
EndsAsMeant ==
    /\ outcome = "return" => trace = Promise.trace /\ Promise.how # "throw"
    /\ outcome = "throw" => /\ trace = Promise.trace
                            /\ Promise.how = "throw" /\ exception = Promise.type

\* A function with try statements does what the program means, at every step of it
\* and at its end
DoesAsMeant == RunsAsMeant /\ EndsAsMeant

\* The chain of blocks never loses the block of the running function: the
\* blocks closed by the compiler on a way out and those popped by the
\* interpreter add up (assert of ejsInterp.c:3152)
ChainKept == outcome # "corrupt"

\* No exception is left behind for a later instruction to meet: callFunction
\* asserts that there is none (ejsInterp.c:3438)
NothingPending == outcome = "running" => exception = "none"

\* However an exception, a return or a break leaves a try, it leaves both in order
LeavesInOrder == ChainKept /\ NothingPending

\* "Invoke finally blocks before acting on: return, returnValue and break/continue"
\* (ejsInterp.c:1511): all that should have run by the return has run
FinallyBeforeReturn == outcome = "return" => trace = Promise.trace

(* Action property *)
\* What a function does to the interpreter stays its own: the frames of its
\* callers and their blocks are as they were until it returns or throws
CalleeIsolated ==
    [][\A i \in DOMAIN frames :
        i < Len(frames) /\ Len(frames') = Len(frames)
            => /\ frames'[i] = frames[i]
               /\ SubSeq(blocks', 1, Fp(State).base - 1) = SubSeq(blocks, 1, Fp(State).base - 1)]_vars

(* Liveness *)
\* A program whose loops end, ends: no handler takes an exception twice
Terminates == <>(outcome \in {"return", "throw"})
=============================================================================
