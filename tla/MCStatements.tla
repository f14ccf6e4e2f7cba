---------------------------- MODULE MCStatements ----------------------------
(***************************************************************************)
(* Statements for EjsEval: those of one operation over simple operands, and *)
(* those of one with such an operation as one of its operands.             *)
(***************************************************************************)
EXTENDS EcParser, ExpressionMeaning

name(n) == E("name", n, <<>>)
x == name("x")
y == name("y")
o == name("o")
f == name("f")
zero == E("literal", "0", <<>>)
key == E("literal", "k", <<>>)
op(object) == E("dot", "p", <<object>>)
okey(object) == E("index", "", <<object, key>>)
call == E("call", "", <<f>>)

Atoms == {x, zero, call, op(o)}
Targets == {x, op(o), okey(o)}

\* The operations with a given operand, the other operands being among Rest
Over(A, Rest) ==
    {E("unary", u, <<a>>) : u \in {"!", "-", "typeof"}, a \in A}
    \cup UNION {{E("binary", b, <<a, r>>), E("binary", b, <<r, a>>)} : b \in {"+", "-", "*", "<", "&&", "||"}, a \in A, r \in Rest}
    \cup UNION {{E("if", "", <<a, r, y>>), E("if", "", <<r, a, y>>), E("if", "", <<x, y, a>>)} : a \in A, r \in Rest}
    \cup {E("assign", "", <<t, a>>) : t \in Targets, a \in A}
    \cup {E("update", u, <<t, a>>) : u \in {"+", "&&"}, t \in {x, op(o)}, a \in A}
    \cup {E("call", "", <<f, a>>) : a \in A}
    \cup UNION {{E("method", "m", <<o, a, r>>), E("method", "m", <<o, r, a>>), E("method", "m", <<a, r>>),
                 E("new", "", <<f, a, r>>), E("array", "", <<r, a>>), E("call", "", <<okey(o), a, r>>)} : a \in A, r \in Rest}
    \cup {E("call", "", <<a, y>>) : a \in {b \in A : b.kind # "dot"}}
    \cup UNION {{op(a), okey(a), E("index", "", <<o, a>>)} : a \in A \ {zero}}

Single ==
    Atoms \cup {E("prefix", "++", <<t>>) : t \in Targets} \cup {E("postfix", "--", <<t>>) : t \in Targets}
    \cup {E("delete", "", <<t>>) : t \in Targets \ {x}} \cup {E("unary", "void", <<x>>), E("new", "", <<f>>)}

One == Single \cup Over(Atoms, Atoms)
Two == Over(One, {x, call})
MCCaller == << <<"c1">>, <<"c2">>, <<"c3">>, <<"c4">> >>

\* Where no value is asked for, calls, assignments and conditionals leave none
RECURSIVE Leaves(_)
Leaves(e) ==
    \/ e.kind \in {"name", "literal", "dot", "index", "delete", "prefix", "postfix", "binary", "new"}
    \/ e.kind = "unary" /\ (e.op = "-" => Leaves(e.kids[1]))
    \/ e.kind = "array"

\* Statements by themselves of which no part is left that needs a value
RECURSIVE Alone(_)
Alone(e) ==
    CASE e.kind = "unary" /\ e.op = "-" -> Leaves(e.kids[1]) /\ Alone(e.kids[1])
      [] e.kind = "array" -> \A k \in DOMAIN e.kids : Leaves(e.kids[k]) /\ Alone(e.kids[k])
      [] e.kind \in {"if", "list"} -> \A k \in DOMAIN e.kids : Alone(e.kids[k])
      [] OTHER -> TRUE

\* Every two binary operators, either way
Chains ==
    LET B(b, l, r) == E("binary", b, <<l, r>>)
        Operators == UNION {BinaryLevels[k] : k \in DOMAIN BinaryLevels}
    IN  UNION {{B(a, B(b, x, call), y), B(a, x, B(b, call, y))} : a \in Operators, b \in Operators}

Lists == {E("list", "", <<a, b>>) : a \in Single, b \in Single}
Bare == {e \in Two \cup Lists \cup Chains : Alone(e)}

MCPrograms == {E("assign", "", <<y, e>>) : e \in Two \cup Lists \cup Chains} \cup Bare
=============================================================================
