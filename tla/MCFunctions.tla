----------------------------- MODULE MCFunctions -----------------------------
(***************************************************************************)
(* The functions that EjsTry is given when it is model checked.             *)
(* Every body begins with a mark of its own, so that the trace tells which  *)
(* of them ran; a body may then leave by one of a set of exits.             *)
(***************************************************************************)
EXTENDS EjsCodeGen

Fall == [kind |-> "nothing"]
Exits == {Fall, Throw("A"), Return}
NestedExits == {Fall, Throw("A"), Break, Continue}
LoopExits == Exits \cup {Break, Continue}

Body(label, exit) == IF exit = Fall THEN <<Mark(label)>> ELSE <<Mark(label), exit>>
Bodies(label, exits) == {Body(label, x) : x \in exits}
Around(label, statements) == {<<Mark(label), s, Mark(label + 1)>> : s \in statements}
Maybe(S) == {<<>>} \cup {<<x>> : x \in S}

\* try statements with at most one catch clause and a finally block
Tries(bodies, catches, finals) ==
    {Try(b, [i \in DOMAIN c |-> Catch("Void", c[i])], f) :
        <<b, c, f>> \in (bodies \X Maybe(catches) \X Maybe(finals)) \ (bodies \X {<<>>} \X {<<>>})}

Flat == Tries(Bodies(1, Exits), Bodies(2, Exits), Bodies(3, Exits))

\* Clauses that take types, in the order they are tried
Typed ==
    {Try(<<Mark(1), Throw(t)>>, <<Catch("A", Body(2, x)), Catch("B", Body(4, y))>>, f) :
        t \in {"A", "B", "C"}, x \in Exits, y \in {Fall, Return}, f \in Maybe(Bodies(3, Exits))}

\* A try in a loop.  Break and continue leave the try and, when there is a
\* finally block, the catch clauses
Looped ==
    {<<While(<<Mark(8), t, Mark(9)>>), Mark(7)>> :
        t \in {Try(b, <<Catch("Void", c)>>, <<>>) : b \in Bodies(1, LoopExits), c \in Bodies(2, Exits)}
              \cup {Try(b, c, <<f>>) : b \in Bodies(1, LoopExits), f \in Bodies(3, Exits),
                        c \in {<<>>} \cup {<<Catch("Void", b2)>> : b2 \in Bodies(2, LoopExits)}}}

\* A loop over an iterator around a try, and in each of its bodies
Iterated ==
    {<<ForIn(<<Mark(8), t, Mark(9)>>), Mark(7)>> :
        t \in Tries(Bodies(1, LoopExits), {}, Bodies(3, Exits))
              \cup {Try(b, <<Catch("Void", c)>>, <<>>) : b \in Bodies(1, LoopExits), c \in Bodies(2, Exits)}}
        \cup Around(8, LET in(b) == <<ForIn(b), Mark(9)>>
                       IN  Tries({in(b) : b \in Bodies(1, NestedExits)}, Bodies(2, {Fall}), Bodies(3, {Fall}))
                           \cup Tries(Bodies(1, {Throw("A")}), {in(b) : b \in Bodies(2, NestedExits)}, Bodies(3, {Fall}))
                           \cup Tries(Bodies(1, {Fall, Throw("A")}), Bodies(2, {Fall}), {in(b) : b \in Bodies(3, NestedExits)}))

\* The same with lexical blocks open around the statement and in its bodies
InBlocks(bodies) == {<<Block(b)>> : b \in bodies}
LoopedBlocks ==
    {<<While(<<Block(<<Mark(8), t, Mark(9)>>)>>), Mark(7)>> :
        t \in {Try(b, c, f) : b \in InBlocks(Bodies(1, LoopExits)), c \in {<<Catch("Void", b2)>> : b2 \in InBlocks(Bodies(2, Exits))},
                 f \in Maybe(Bodies(3, Exits))}}

\* Functions with a try that call functions with a try
Calls == {Call(<<t>>) : t \in Flat}
Called ==
    Around(8, Tries(Around(10, Calls), Bodies(20, Exits), Bodies(30, {Fall, Throw("A")}))
              \cup Tries({Body(10, Throw("A"))}, Around(20, Calls), Bodies(30, {Fall}))
              \cup Tries(Bodies(10, {Throw("A"), Return}), {}, Around(30, Calls)))

\* A try in the try block of another, as the tests nest them
\* (compiler/test/exception/exception-16.tst and 17)
TestedNests ==
    LET inner == {Try(Body(1, b), <<Catch("Void", Body(2, cf[1]))>>, <<Body(3, cf[2])>>) :
                    b \in {Fall, Throw("A")},
                    cf \in {<<Fall, Fall>>, <<Throw("A"), Fall>>, <<Fall, Throw("A")>>}}
    IN  Tries(Around(10, inner), Bodies(20, {Fall, Throw("B")}), Bodies(30, {Fall, Return}))

FunctionPrograms == Around(8, Flat \cup Typed \cup TestedNests) \cup Looped \cup Iterated \cup LoopedBlocks \cup Called

\* A return from a try or a loop within a try, and nothing thrown
NestedReturns ==
    LET inner == Tries(Bodies(1, {Fall, Return}), Bodies(2, {Fall}), Bodies(3, {Fall})) \cup {While(Body(1, Return))}
    IN  Around(8, Tries(Around(10, inner), Bodies(20, {Fall}), Bodies(30, {Fall, Return})))
=============================================================================
