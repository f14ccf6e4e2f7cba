---------------------------- MODULE EcExpressions ----------------------------
(***************************************************************************)
(* The code of expressions, src/compiler/ecCodeGen.c.                       *)
(*                                                                          *)
(* A code buffer g is its instructions and stackCount, the compiler's count *)
(* of the items that they leave on the stack.  s holds the flags of the     *)
(* state that a node inherits: whether its value is needed, and whether it  *)
(* is the target of an assignment.  Names are not bound to slots.  A branch *)
(* has the number of instructions to skip.                                  *)
(***************************************************************************)
EXTENDS EcParser

Instruction(op, arg, argc) == [op |-> op, arg |-> arg, argc |-> argc]

Code(code, stackCount) == [code |-> code, stackCount |-> stackCount]

\* An instruction, and the calls of pushStack and popStack around it
Emit(g, op, arg, argc, pushed) == Code(Append(g.code, Instruction(op, arg, argc)), g.stackCount + pushed)

allocCodeBuffer(g, pushed) == Code(<<>>, g.stackCount + pushed)

copyCodeBuffer(g, from) == Code(g.code \o from.code, g.stackCount)

discardStackItems(g, preserve) ==
    LET count == g.stackCount - preserve
    IN  IF count <= 0 THEN g
        ELSE IF count = 1 THEN Emit(g, "POP", "", 0, -1) ELSE Emit(g, "POP_ITEMS", "", count, -count)

Needed(s) == [s EXCEPT !.needsValue = TRUE]
NotNeeded(s) == [s EXCEPT !.needsValue = FALSE]
Target(s) == [s EXCEPT !.onLeft = TRUE]
NoTarget(s) == [s EXCEPT !.onLeft = FALSE]

Error(g) == Emit(g, "ERROR", "", 0, 0)

-----------------------------------------------------------------------------
RECURSIVE processNode(_, _, _), processNodes(_, _, _), Fields(_, _, _)

processNodes(kids, s, g) ==
    IF kids = <<>> THEN g ELSE processNodes(Tail(kids), s, processNode(Head(kids), s, g))

genArgs(np, s, g) == processNodes(np.kids, Needed(s), g)

genExpressions(np, s, g) == processNodes(np.kids, s, g)

genLiteral(np, g) == Emit(g, "LOAD", np.op, 0, 1)

\* A name by itself, and one behind an object that is on the stack
genUnboundName(np, s, g, object) ==
    LET op == IF object THEN "OBJ_NAME" ELSE "SCOPED_NAME"
    IN  IF s.onLeft THEN Emit(g, "PUT_" \o op, np.op, 0, IF object THEN -2 ELSE -1)
        ELSE Emit(g, "GET_" \o op, np.op, 0, IF object THEN 0 ELSE 1)

genDot(np, s, g) ==
    LET object == processNode(np.kids[1], Needed(NoTarget(s)), g)
        name == processNode(np.kids[2], Needed(NoTarget(s)), Emit(object, "LOAD_STRING", "", 0, 1))
    IN  IF np.kids[2].kind = "qname" THEN genUnboundName(np.kids[2], s, object, TRUE)
        ELSE IF s.onLeft THEN Emit(name, "PUT_OBJ_NAME_EXPR", "", 0, -4)
        ELSE Emit(name, "GET_OBJ_NAME_EXPR", "", 0, -2)

genLeftHandSide(np, s, g) ==
    IF np.kind \in {"dot", "qname", "expressions"} THEN processNode(np, Target(s), g) ELSE Error(g)

genAssignOp(np, s, g) ==
    LET value == processNode(np.kids[2], Needed(NoTarget(s)), g)
        kept == IF s.needsValue THEN Emit(value, "DUP", "", 0, 1) ELSE value
    IN  genLeftHandSide(np.kids[1], NotNeeded(NoTarget(s)), kept)

\* The left value stays under the right one
genLogicalOp_NoPop(np, s, g) ==
    LET left == Emit(processNode(np.kids[1], s, g), "DUP", "", 0, 0)
        right == processNode(np.kids[2], s, allocCodeBuffer(left, -1))
        branch == IF np.op = "||" THEN "BRANCH_TRUE" ELSE "BRANCH_FALSE"
    IN  copyCodeBuffer(Emit(left, branch, "", Len(right.code), 0), right)

\* The left value is kept when it decides, and popped in front of the right
genLogicalOp(np, s, g) ==
    LET left == Emit(processNode(np.kids[1], s, g), "DUP", "", 0, 0)
        right == processNode(np.kids[2], s, Emit(allocCodeBuffer(left, 0), "POP", "", 0, -1))
        branch == IF np.op = "||" THEN "BRANCH_TRUE" ELSE "BRANCH_FALSE"
    IN  copyCodeBuffer(Emit(left, branch, "", Len(right.code), 0), right)

genBinaryOp(np, s, g) ==
    IF np.op \in {"&&", "||"} THEN genLogicalOp(np, Needed(s), g)
    ELSE Emit(processNodes(np.kids, Needed(s), g), "BINARY", np.op, 0, -1)

\* Both blocks, with a goto over the else block.  A value is left by each.
genIf(np, s, g) ==
    LET cond == processNode(np.kids[1], Needed(s), g)
        mark == cond.stackCount - 1
        Block(k) == discardStackItems(processNode(np.kids[k], s, allocCodeBuffer(cond, -1)),
                                      IF s.needsValue THEN mark + 1 ELSE mark)
        else == Block(3)
        then == Emit(Block(2), "GOTO", "", Len(else.code), 0)
        all == copyCodeBuffer(copyCodeBuffer(Emit(cond, "BRANCH_FALSE", "", Len(then.code), 0), then), else)
    IN  IF s.needsValue /\ mark + 1 > processNode(np.kids[2], s, allocCodeBuffer(cond, -1)).stackCount THEN Error(g)
        ELSE Code(all.code, IF s.needsValue THEN mark + 1 ELSE mark)

genDelete(np, s, g) ==
    LET object == processNode(np.kids[1], s, g)
        space == Emit(object, "LOAD_STRING", "", 0, 0)
        name == IF np.kids[2].kind = "qname" THEN Emit(space, "LOAD_STRING", np.kids[2].op, 0, 1)
                ELSE processNode(np.kids[2], s, space)
    IN  IF np.kind # "dot" THEN Error(g) ELSE Emit(name, "DELETE_NAME_EXPR", "", 0, -1)

Step(op) == IF op = "++" THEN 1 ELSE -1

genUnaryOp(np, s, g) ==
    LET left == np.kids[1]
        next == Emit(processNode(left, s, g), "INC", "", Step(np.op), 0)
    IN  CASE np.op = "delete" -> genDelete(left, s, g)
          [] np.op \in {"!", "~", "typeof"} -> Emit(processNode(left, Needed(s), g), "UNARY", np.op, 0, 0)
          [] np.op = "-" -> Emit(processNode(left, s, g), "UNARY", "-", 0, 0)
          [] np.op = "+" -> processNode(left, s, g)
          [] np.op = "void" -> Emit(g, "LOAD", "undefined", 0, 1)
          [] np.op \in {"++", "--"} -> genLeftHandSide(left, s, Emit(next, "DUP", "", 0, 1))

\* The value is copied before it is stepped
genPostfixOp(np, s, g) ==
    LET value == Emit(processNode(np.kids[1], s, g), "DUP", "", 0, 0)
        stored == genLeftHandSide(np.kids[1], s, Emit(value, "INC", "", Step(np.op), 0))
    IN  Code(stored.code, stored.stackCount + 1)

genNew(np, s, g) == Emit(processNode(np.kids[1], s, g), "NEW", "", 0, 0)

genCallSequence(np, s, g) ==
    LET left == np.kids[1]
        argc == Len(np.kids[2].kids)
        Args(h) == processNode(np.kids[2], s, h)
        object == processNode(left.kids[1], Needed(s), g)
        this == Emit(Emit(processNode(left, Needed(s), g), "LOAD_THIS_LOOKUP", "", 0, 1), "SWAP", "", 0, 0)
    IN  CASE left.kind = "qname" -> Emit(Args(g), "CALL_SCOPED_NAME", left.op, argc, -argc)
          [] left.kind = "dot" /\ left.kids[2].kind = "qname" ->
                Emit(Args(object), "CALL_OBJ_NAME", left.kids[2].op, argc, -(argc + 1))
          [] OTHER -> Emit(Args(this), "CALL", "", argc, -(argc + 2))

genCall(np, s, g) ==
    LET argc == Len(np.kids[2].kids)
        args == processNode(np.kids[2], s, processNode(np.kids[1], s, g))
        called == genCallSequence(np, s, g)
    IN  IF np.kids[1].kind = "new" THEN Emit(args, "CALL_CONSTRUCTOR", "", argc, -argc)
        ELSE IF s.needsValue THEN Emit(called, "PUSH_RESULT", "", 0, 1) ELSE called

\* genField: the index of each element in front of its value
Fields(kids, s, g) ==
    IF kids = <<>> THEN g
    ELSE LET before == Fields(SubSeq(kids, 1, Len(kids) - 1), s, g)
         IN  processNode(kids[Len(kids)], s, Emit(before, "LOAD_INT", "", Len(kids) - 1, 1))

genArrayLiteral(np, s, g) ==
    LET argc == Len(np.kids) IN Emit(Fields(np.kids, s, g), "NEW_ARRAY", "", argc, 1 - 2 * argc)

processNode(np, s, g) ==
    CASE np.kind = "args" -> genArgs(np, s, g)
      [] np.kind = "assign" -> genAssignOp(np, s, g)
      [] np.kind = "binary" -> genBinaryOp(np, s, g)
      [] np.kind = "call" -> genCall(np, s, g)
      [] np.kind = "dot" -> genDot(np, s, g)
      [] np.kind = "expressions" -> genExpressions(np, s, g)
      [] np.kind = "if" -> genIf(np, s, g)
      [] np.kind = "literal" -> genLiteral(np, g)
      [] np.kind = "array" -> genArrayLiteral(np, s, g)
      [] np.kind = "qname" -> genUnboundName(np, s, g, FALSE)
      [] np.kind = "new" -> genNew(np, s, g)
      [] np.kind = "postfix" -> genPostfixOp(np, s, g)
      [] np.kind = "unary" -> genUnaryOp(np, s, g)
      [] OTHER -> Error(g)

\* A statement leaves nothing on the stack
genDirectives(np) ==
    discardStackItems(processNode(np, [needsValue |-> FALSE, onLeft |-> FALSE], Code(<<>>, 0)), 0).code
=============================================================================
