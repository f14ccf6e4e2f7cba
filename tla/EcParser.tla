------------------------------ MODULE EcParser ------------------------------
(***************************************************************************)
(* The expressions of the parser, src/compiler/ecParser.c.                  *)
(*                                                                          *)
(* Each production is a function of the tokens that are left and gives a    *)
(* node and the tokens behind it.  A token is a string; the last one ends   *)
(* the statement.  All tokens are on one line, names are not qualified, and *)
(* literals of objects, functions and patterns are left out.                *)
(***************************************************************************)
EXTENDS Integers, Sequences, TLC

CONSTANTS
    Names,          \* the tokens T_ID
    Literals        \* the tokens T_NUMBER, T_STRING, T_NULL, ...

Node(kind, op, kids) == [kind |-> kind, op |-> op, kids |-> kids]

Parsed(np, ts) == [np |-> np, ts |-> ts]

\* A node for one or two that were parsed, and a further one
wrap(kind, op, p) == Parsed(Node(kind, op, <<p.np>>), p.ts)
join(kind, op, p, q) == Parsed(Node(kind, op, <<p.np, q.np>>), q.ts)
appendNode(p, kid) == Parsed([p.np EXCEPT !.kids = Append(@, kid.np)], kid.ts)

unexpected(ts) == Parsed(Node("error", "", <<>>), ts)

peekToken(ts) == Head(ts)

getToken(p, tid) == IF peekToken(p.ts) = tid THEN Parsed(p.np, Tail(p.ts)) ELSE unexpected(p.ts)

-----------------------------------------------------------------------------
RECURSIVE parseAssignmentExpression(_), Separated(_), Properties(_), parseCallExpression(_),
          parseNewExpression(_), parseUnaryExpression(_), Binary(_, _), Operands(_, _)

\* AssignmentExpression, and more of them behind commas
More(p) == IF peekToken(p.ts) = "," THEN Separated(Parsed(p.np, Tail(p.ts))) ELSE p
Separated(p) == More(appendNode(p, parseAssignmentExpression(p.ts)))

parseListExpression(ts) == Separated(Parsed(Node("expressions", "", <<>>), ts))

parseParenListExpression(ts) == getToken(parseListExpression(Tail(ts)), ")")

\* A colon would begin the type of the array
Untyped(p) == IF peekToken(p.ts) = ":" THEN unexpected(p.ts) ELSE p
parseArrayLiteral(ts) == Untyped(getToken(Separated(Parsed(Node("array", "", <<>>), Tail(ts))), "]"))

parsePrimaryExpression(ts) ==
    LET t == peekToken(ts)
    IN  CASE t \in Names -> Parsed(Node("qname", t, <<>>), Tail(ts))
          [] t \in Literals -> Parsed(Node("literal", t, <<>>), Tail(ts))
          [] t = "(" -> parseParenListExpression(ts)
          [] t = "[" -> parseArrayLiteral(ts)
          [] OTHER -> unexpected(ts)

parseArguments(ts) ==
    IF peekToken(Tail(ts)) = ")" THEN Parsed(Node("args", "", <<>>), Tail(Tail(ts)))
    ELSE getToken(Separated(Parsed(Node("args", "", <<>>), Tail(ts))), ")")

parseBrackets(ts) == getToken(parseListExpression(Tail(ts)), "]")

\* The object is inserted in front of the name
parsePropertyOperator(p) ==
    join("dot", "", p, IF peekToken(p.ts) = "[" THEN parseBrackets(p.ts)
                       ELSE Parsed(Node("qname", peekToken(Tail(p.ts)), <<>>), Tail(Tail(p.ts))))

Properties(p) == IF peekToken(p.ts) \in {".", "["} THEN Properties(parsePropertyOperator(p)) ELSE p

\* parseNewExpression has taken every "new" in front
parseMemberExpression(ts) == Properties(parsePrimaryExpression(ts))

parseNewExpression(ts) ==
    IF peekToken(ts) # "new" THEN parseMemberExpression(ts)
    ELSE wrap("new", "", parseNewExpression(Tail(ts)))

parseCallExpression(p) ==
    CASE peekToken(p.ts) = "(" -> parseCallExpression(join("call", "", p, parseArguments(p.ts)))
      [] peekToken(p.ts) \in {".", "["} -> parseCallExpression(parsePropertyOperator(p))
      [] OTHER -> p

\* An operand of new with no arguments gets a dummy call of the constructor
Invoked(p) ==
    CASE peekToken(p.ts) \in {"(", ".", "["} -> parseCallExpression(p)
      [] p.np.kind = "new" -> join("call", "", p, Parsed(Node("args", "", <<>>), p.ts))
      [] OTHER -> p
parseLeftHandSideExpression(ts) == Invoked(parseNewExpression(ts))

Stepping(p) == IF peekToken(p.ts) \in {"++", "--"} THEN Parsed(Node("postfix", peekToken(p.ts), <<p.np>>), Tail(p.ts)) ELSE p
parsePostfixExpression(ts) == Stepping(parseLeftHandSideExpression(ts))

parseUnaryExpression(ts) ==
    IF peekToken(ts) \notin {"delete", "!", "+", "++", "-", "--", "~", "typeof", "void"} THEN parsePostfixExpression(ts)
    ELSE wrap("unary", peekToken(ts), parseUnaryExpression(Tail(ts)))

-----------------------------------------------------------------------------
(***************************************************************************)
(* The binary operators: those of a production, and the productions of the *)
(* first operand and of the ones that follow, by their place in Levels.    *)
(***************************************************************************)
parseLogicalOrExpression      == [operators |-> {"||"}, first |-> 2, next |-> 1]
parseLogicalAndExpression     == [operators |-> {"&&"}, first |-> 3, next |-> 3]
parseBitwiseOrExpression      == [operators |-> {"|"}, first |-> 4, next |-> 4]
parseBitwiseXorExpression     == [operators |-> {"^"}, first |-> 5, next |-> 5]
parseBitwiseAndExpression     == [operators |-> {"&"}, first |-> 6, next |-> 6]
parseEqualityExpression       == [operators |-> {"==", "!=", "===", "!=="}, first |-> 7, next |-> 7]
parseRelationalExpression     == [operators |-> {"in", "<", "<=", ">", ">=", "instanceof", "is", "cast"}, first |-> 8, next |-> 8]
parseShiftExpression          == [operators |-> {"<<", ">>", ">>>"}, first |-> 9, next |-> 9]
\* The right operand takes the operators that follow
parseAdditiveExpression_Right == [operators |-> {"+", "-"}, first |-> 10, next |-> 9]

parseAdditiveExpression       == [operators |-> {"+", "-"}, first |-> 10, next |-> 10]
parseMultiplicativeExpression == [operators |-> {"*", "/", "%"}, first |-> 11, next |-> 11]

Levels ==
    << parseLogicalOrExpression, parseLogicalAndExpression, parseBitwiseOrExpression, parseBitwiseXorExpression,
       parseBitwiseAndExpression, parseEqualityExpression, parseRelationalExpression, parseShiftExpression,
       parseAdditiveExpression, parseMultiplicativeExpression >>

Binary(k, ts) ==
    IF k > Len(Levels) THEN parseUnaryExpression(ts) ELSE Operands(k, Binary(Levels[k].first, ts))

\* The loop of a production: np becomes the left operand of the next operator
Operands(k, p) ==
    IF peekToken(p.ts) \notin Levels[k].operators THEN p
    ELSE Operands(k, join("binary", peekToken(p.ts), p, Binary(Levels[k].next, Tail(p.ts))))

-----------------------------------------------------------------------------
Else(p) == appendNode(p, parseAssignmentExpression(p.ts))
Choice(cond) ==
    IF peekToken(cond.ts) # "?" THEN cond
    ELSE Else(getToken(join("if", "", cond, parseAssignmentExpression(Tail(cond.ts))), ":"))
parseConditionalExpression(ts) == Choice(Binary(1, ts))

\* x += 3 is rewritten as x = x + 3
rewriteCompoundAssignment(op, p, rhs) == join("assign", "", p, join("binary", op, p, rhs))

Compound == ("+=" :> "+") @@ ("-=" :> "-") @@ ("*=" :> "*") @@ ("&&=" :> "&&") @@ ("||=" :> "||")

Assigned(p) ==
    CASE peekToken(p.ts) = "=" -> join("assign", "", p, parseAssignmentExpression(Tail(p.ts)))
      [] peekToken(p.ts) \in DOMAIN Compound ->
            rewriteCompoundAssignment(Compound[peekToken(p.ts)], p, parseAssignmentExpression(Tail(p.ts)))
      [] OTHER -> p
parseAssignmentExpression(ts) == Assigned(parseConditionalExpression(ts))

\* The statement that the tokens are
parseExpressionStatement(ts) == getToken(parseListExpression(ts), ";").np
=============================================================================
