----------------------------- MODULE MCPrograms -----------------------------
(***************************************************************************)
(* Model checking of EjsTry, EjsEval and EjsByteArray: the compiler and the *)
(* interpreter are given a function with try statements or a statement that *)
(* is one expression, or a script uses a byte array.  A run is about one of *)
(* the three, and the others are left as they were made.                    *)
(***************************************************************************)
EXTENDS MCEjsByteArray

CONSTANTS Fuel, MaxTrace, Names, Literals, Falsy, Touched

VARIABLES given, program, frames, blocks, exception, trace, fuel, outcome,
          statement, code, pc, operands, store, result, events
tryVars == <<program, frames, blocks, exception, trace, fuel, outcome>>
evalVars == <<statement, code, pc, operands, store, result, events>>

Functions == INSTANCE MCFunctions
Function == INSTANCE EjsTry WITH Programs <- Functions!FunctionPrograms
Statements == INSTANCE MCStatements
Eval == INSTANCE EjsEval WITH
    Programs <- Statements!MCPrograms, Caller <- Statements!MCCaller, program <- statement, stack <- operands

ASSUME FunctionBounds == Fuel \in Nat /\ MaxTrace \in Nat

NoFunction ==
    /\ program = <<>> /\ frames = <<>> /\ blocks = <<>> /\ trace = <<>>
    /\ fuel = 0 /\ exception = "none" /\ outcome = "return"
NoStatement ==
    /\ statement = "none" /\ code = <<>> /\ pc = 1 /\ operands = Statements!MCCaller
    /\ store = <<>> /\ result = <<>> /\ events = <<>>
NoBytes == Init /\ size = 1 /\ ~resizable /\ listening = {} /\ ~reader

MCInit ==
    \/ given = "function" /\ Function!Init /\ NoStatement /\ NoBytes
    \/ given = "statement" /\ Eval!Init /\ NoFunction /\ NoBytes
    \/ given = "bytes" /\ Init /\ NoFunction /\ NoStatement

RunsFunction == given = "function" /\ Function!Next /\ UNCHANGED <<given, vars, evalVars>>
RunsStatement == given = "statement" /\ Eval!Next /\ UNCHANGED <<given, vars, tryVars>>
FunctionEnded == given = "function" /\ outcome # "running" /\ UNCHANGED <<given, vars, tryVars, evalVars>>
UsesBytes == given = "bytes" /\ Next /\ UNCHANGED <<given, tryVars, evalVars>>

MCSpec ==
    /\ MCInit /\ [][RunsFunction \/ RunsStatement \/ FunctionEnded \/ UsesBytes]_<<given, vars, tryVars, evalVars>>
    /\ WF_tryVars(RunsFunction)

\* What EjsTry says of a function

\* It does what the program means, at every step of it and at its end.
DoesAsMeant == Function!DoesAsMeant

\* However an exception, a return or a break leaves a try, the chain of blocks and the
\* pending exception are in order (asserts of ejsInterp.c:3152 and 3438).
LeavesInOrder == Function!LeavesInOrder

\* What it does to the interpreter stays its own: the frames of its callers and their
\* blocks are as they were until it returns or throws.
CalleeIsolated == Function!CalleeIsolated

\* It ends when its loops end: no handler takes an exception twice.
Terminates == Function!Terminates

\* What EjsEval says of a statement

\* It leaves the operands of its callers on the stack, and nothing else (pushStack and
\* popStack of the generator against the interpreter's).
StackKept == Eval!StackKept

\* Its calls, and the properties it reads, stores and deletes, come in the order that the
\* expression says, and variables and properties end with the values that it gives them
\* (the productions of ecParser.c, the gen functions of ecCodeGen.c and the operands that
\* instructions take).
EffectsAndValues == given = "statement" => Eval!EffectsAndValues
=============================================================================
