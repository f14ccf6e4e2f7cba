------------------------------ MODULE EjsEval ------------------------------
(***************************************************************************)
(* The interpreter evaluating a statement: the instructions of expressions *)
(* in vm/ejsInterp.c, on a stack that a function shares with the operands  *)
(* its callers have pushed.                                                 *)
(*                                                                          *)
(* The statement is written down, parsed and compiled first.  Functions    *)
(* that it calls are seen by their calls only, and every name is found in  *)
(* the scope.                                                               *)
(***************************************************************************)
EXTENDS EcExpressions, ExpressionMeaning, SequencesExt

CONSTANTS
    Programs,       \* the statements
    Caller          \* what the callers of the function have on the stack

VARIABLES
    program,        \* the statement
    code,           \* its code
    pc,             \* FRAME->pc
    stack,          \* from the operands of the callers to state->stack
    store,          \* variables and properties
    result,         \* ejs->result
    events          \* the calls, and the properties read, stored and deleted

vars == <<program, code, pc, stack, store, result, events>>

push(s, v) == Append(s, v)

Below(s, n) == SubSeq(s, 1, Len(s) - n)

top(n) == stack[Len(stack) - n]

argv(n) == SubSeq(stack, Len(stack) - n + 1, Len(stack))

Init ==
    /\ program \in Programs
    /\ code = genDirectives(parseExpressionStatement(Statement(program)))
    /\ pc = 1
    /\ stack = Caller
    /\ store = <<>>
    /\ result = <<"undefined">>
    /\ events = <<>>

I == code[pc]

At(op) == pc <= Len(code) /\ code[pc].op = op

\* The next instruction, with a new stack
Goes(s) == stack' = s /\ pc' = pc + 1 /\ UNCHANGED <<program, code>>

Quietly == UNCHANGED <<store, result, events>>

Event(e) == events' = Append(events, e)

-----------------------------------------------------------------------------
Load ==
    /\ At("LOAD") \/ At("LOAD_STRING")
    /\ Goes(push(stack, <<I.arg>>)) /\ Quietly

LoadInt == At("LOAD_INT") /\ Goes(push(stack, <<ToString(I.argc)>>)) /\ Quietly

\* The object of the last lookup, which no property is about
LoadThisLookup == At("LOAD_THIS_LOOKUP") /\ Goes(push(stack, <<"this">>)) /\ Quietly

GetScopedName == At("GET_SCOPED_NAME") /\ Goes(push(stack, Read(store, <<I.arg>>))) /\ Quietly

\* A property of the object, whose getter may run
GetsProperty(object, name, rest) ==
    LET place == Property(object, name)
    IN  /\ Goes(push(rest, Read(store, place)))
        /\ Event(<<"get">> \o place)
        /\ UNCHANGED <<store, result>>

GetObjName == At("GET_OBJ_NAME") /\ GetsProperty(top(0), <<I.arg>>, Below(stack, 1))

GetObjNameExpr == At("GET_OBJ_NAME_EXPR") /\ GetsProperty(top(2), top(0), Below(stack, 3))

PutScopedName ==
    /\ At("PUT_SCOPED_NAME")
    /\ store' = Write(store, <<I.arg>>, top(0))
    /\ Goes(Below(stack, 1)) /\ UNCHANGED <<result, events>>

PutsProperty(object, name, v, rest) ==
    LET place == Property(object, name)
    IN  /\ store' = Write(store, place, v)
        /\ Event(<<"put">> \o place)
        /\ Goes(rest) /\ UNCHANGED result

PutObjName == At("PUT_OBJ_NAME") /\ PutsProperty(top(0), <<I.arg>>, top(1), Below(stack, 2))

PutObjNameExpr == At("PUT_OBJ_NAME_EXPR") /\ PutsProperty(top(2), top(0), top(3), Below(stack, 4))

DeleteNameExpr ==
    /\ At("DELETE_NAME_EXPR")
    /\ LET place == Property(top(2), top(0))
       IN  store' = Write(store, place, <<"undefined">>) /\ Event(<<"delete">> \o place)
    /\ Goes(push(Below(stack, 3), <<"true">>)) /\ UNCHANGED result

-----------------------------------------------------------------------------
Pop == At("POP") /\ Goes(Below(stack, 1)) /\ Quietly

PopItems == At("POP_ITEMS") /\ Goes(Below(stack, I.argc)) /\ Quietly

Dup == At("DUP") /\ Goes(push(stack, top(0))) /\ Quietly

Swap == At("SWAP") /\ Goes(Below(stack, 2) \o <<top(0), top(1)>>) /\ Quietly

Inc == At("INC") /\ Goes(push(Below(stack, 1), Stepped(top(0), IF I.argc = 1 THEN "++" ELSE "--"))) /\ Quietly

BinaryExpr == At("BINARY") /\ Goes(push(Below(stack, 2), Apply(I.arg, <<top(1), top(0)>>))) /\ Quietly

UnaryExpr == At("UNARY") /\ Goes(push(Below(stack, 1), Apply(I.arg, <<top(0)>>))) /\ Quietly

Branch ==
    /\ At("BRANCH_TRUE") \/ At("BRANCH_FALSE")
    /\ pc' = pc + 1 + (IF (I.op = "BRANCH_TRUE") = True(top(0)) THEN I.argc ELSE 0)
    /\ stack' = Below(stack, 1)
    /\ UNCHANGED <<program, code>> /\ Quietly

Goto == At("GOTO") /\ pc' = pc + 1 + I.argc /\ UNCHANGED <<program, code, stack>> /\ Quietly

-----------------------------------------------------------------------------
\* A function has run with the arguments on top, which go with n more items
callFunction(kind, fn, argc, n) ==
    /\ store' = Called(store)
    /\ result' = Result(fn, argv(argc))
    /\ Event(Apply(kind, <<fn>> \o argv(argc)))
    /\ Goes(Below(stack, argc + n))

CallScopedName == At("CALL_SCOPED_NAME") /\ callFunction("call", Read(store, <<I.arg>>), I.argc, 0)

CallObjName ==
    At("CALL_OBJ_NAME") /\ callFunction("call", Read(store, Property(top(I.argc), <<I.arg>>)), I.argc, 1)

Call == At("CALL") /\ callFunction("call", top(I.argc), I.argc, 2)

PushResult == At("PUSH_RESULT") /\ Goes(push(stack, result)) /\ Quietly

\* The object is made here and its constructor called later
New == At("NEW") /\ Goes(push(Below(stack, 1), Apply("new", <<top(0)>>))) /\ Quietly

CallConstructor ==
    /\ At("CALL_CONSTRUCTOR")
    /\ LET object == top(I.argc)
           args == argv(I.argc)
       IN  /\ store' = Called(store)
           /\ result' = Result(Tail(object), args)
           /\ Event(Apply("new", <<Tail(object)>> \o args))
           /\ Goes(push(Below(stack, I.argc + 1), result'))

NewArray ==
    /\ At("NEW_ARRAY")
    /\ LET pairs == argv(2 * I.argc)
       IN  Goes(push(Below(stack, 2 * I.argc), Apply("[]", [n \in 1..I.argc |-> pairs[2 * n]]) \o <<"]">>))
    /\ Quietly

Ended == pc > Len(code) /\ UNCHANGED vars

Next ==
    \/ Load \/ LoadInt \/ LoadThisLookup
    \/ GetScopedName \/ GetObjName \/ GetObjNameExpr
    \/ PutScopedName \/ PutObjName \/ PutObjNameExpr \/ DeleteNameExpr
    \/ Pop \/ PopItems \/ Dup \/ Swap \/ Inc \/ BinaryExpr \/ UnaryExpr \/ Branch \/ Goto
    \/ CallScopedName \/ CallObjName \/ Call \/ PushResult
    \/ New \/ CallConstructor \/ NewArray
    \/ Ended

Spec == Init /\ [][Next]_vars

-----------------------------------------------------------------------------
(***************************************************************************)
(* Properties                                                               *)
(***************************************************************************)
TypeOK ==
    /\ pc \in 1..(Len(code) + 1)
    /\ \A i \in DOMAIN code : code[i].op # "ERROR"
    /\ \A i \in DOMAIN stack : Len(stack[i]) > 0
    /\ \A place \in DOMAIN store : Len(store[place]) > 0

\* A function takes from the stack only what it has put there: the operands
\* that its callers have pushed stay as they are (pushStack and popStack of
\* the generator against the pushes and pops of the interpreter).
CallerKept == Len(stack) >= Len(Caller) /\ SubSeq(stack, 1, Len(Caller)) = Caller

\* A statement leaves nothing on the stack, whichever of its branches were
\* taken (discardStackItems, with one count for both).
NothingLeft == pc > Len(code) => Len(stack) <= Len(Caller)

\* A statement takes and leaves nothing that is not its own: the generator's count of
\* the stack is right in every branch and where no value is needed.
StackKept == CallerKept /\ NothingLeft

\* At the end the calls have been made and the properties touched in the order
\* and with the operands that the expression says, none of them twice (the
\* order of evaluation of the gen functions, the branches of genLogicalOp and
\* genIf, the values that genPostfixOp and the compound assignments keep).
InOrder == pc > Len(code) => events = Meaning(program).events

\* At the end the variables and properties have the values that the expression
\* gives them (the precedence and association of the productions, the operands
\* that the instructions take from the stack).
ValuesRight == pc > Len(code) => store = Meaning(program).store

\* A statement has the effects that the expression says, in their order, and leaves
\* its values.
EffectsAndValues == InOrder /\ ValuesRight
=============================================================================
