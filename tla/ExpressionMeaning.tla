-------------------------- MODULE ExpressionMeaning --------------------------
(***************************************************************************)
(* What an expression means: its value, what it stores and what it does,   *)
(* each operand evaluated once and in order; and how it is written, with   *)
(* no more parentheses than precedence and association ask for.            *)
(*                                                                          *)
(* A value is a term in prefix notation: a sequence that begins with an    *)
(* operator, a name or a literal.  The term of a name stands for the value *)
(* it has before the statement.  Terms are equal only if they were made in  *)
(* the same way, so that an operator misapplied or out of order shows.     *)
(***************************************************************************)
EXTENDS Integers, Sequences, TLC

CONSTANTS
    Falsy,          \* the operators, names and literals whose terms are false
    Touched         \* a variable that every function changes

Flat(values) == LET f[i \in 0..Len(values)] == IF i = 0 THEN <<>> ELSE f[i - 1] \o values[i] IN f[Len(values)]

Apply(op, values) == <<op>> \o Flat(values)

RECURSIVE True(_)
True(v) == IF Head(v) = "!" THEN ~True(Tail(v)) ELSE Head(v) \notin Falsy

\* A store maps places, of variables and properties, to their values
Property(object, name) == Apply(".", <<object, name>>)

Read(store, place) == IF place \in DOMAIN store THEN store[place] ELSE place

Write(store, place, v) == (place :> v) @@ store

\* What the call of a function does to the variables
Called(store) == Write(store, <<Touched>>, Apply("'", <<Read(store, <<Touched>>)>>))

Result(fn, args) == Apply("()", <<fn>> \o args) \o <<")">>

Stepped(v, op) == Apply(op, <<v>>)

-----------------------------------------------------------------------------
(***************************************************************************)
(* Expressions are trees: kind, operator or name, and operands.            *)
(***************************************************************************)
E(kind, op, kids) == [kind |-> kind, op |-> op, kids |-> kids]

Give(s, v) == [s EXCEPT !.value = v]
Happens(s, event) == [s EXCEPT !.events = Append(@, event)]

\* Reading and writing a property can be seen, as can a call
ReadPlace(s, place) ==
    Give(IF Len(place) = 1 THEN s ELSE Happens(s, <<"get">> \o place), Read(s.store, place))

WritePlace(s, place, v) ==
    LET t == [s EXCEPT !.store = Write(@, place, v), !.value = v]
    IN  IF Len(place) = 1 THEN t ELSE Happens(t, <<"put">> \o place)

CallFunction(s, kind, fn, args) ==
    LET t == Happens(s, Apply(kind, <<fn>> \o args)) IN [t EXCEPT !.store = Called(@), !.value = Result(fn, args)]

RECURSIVE Evaluate(_, _), EvaluateEach(_, _, _)

EvaluateEach(kids, values, s) ==
    IF kids = <<>> THEN Give(s, values)
    ELSE LET t == Evaluate(Head(kids), s) IN EvaluateEach(Tail(kids), Append(values, t.value), t)

Place(e, s) ==
    LET t == EvaluateEach(e.kids, <<>>, s)
    IN  CASE e.kind = "name" -> Give(s, <<e.op>>)
          [] e.kind = "dot" -> Give(t, Property(t.value[1], <<e.op>>))
          [] e.kind = "index" -> Give(t, Property(t.value[1], t.value[2]))

Short(op, v) == (op = "||") = True(v)

Operation(op, left, right, s) ==
    IF op \in {"&&", "||"} THEN IF Short(op, left) THEN Give(s, left) ELSE Evaluate(right, s)
    ELSE LET t == Evaluate(right, s) IN Give(t, Apply(op, <<left, t.value>>))

Evaluate(e, s) ==
    LET first == Evaluate(e.kids[1], s)
        all == EvaluateEach(e.kids, <<>>, s)
        args == EvaluateEach(Tail(e.kids), <<>>, first)
        place == Place(e.kids[1], s)
        old == ReadPlace(place, place.value)
    IN  CASE e.kind = "literal" -> Give(s, <<e.op>>)
          [] e.kind \in {"name", "dot", "index"} -> LET p == Place(e, s) IN ReadPlace(p, p.value)
          [] e.kind = "unary" /\ e.op = "void" -> Give(first, <<"undefined">>)
          [] e.kind = "unary" /\ e.op # "void" -> Give(first, Apply(e.op, <<first.value>>))
          [] e.kind = "delete" ->
                Give([Happens(place, <<"delete">> \o place.value) EXCEPT !.store = Write(@, place.value, <<"undefined">>)], <<"true">>)
          [] e.kind = "prefix" -> WritePlace(old, place.value, Stepped(old.value, e.op))
          [] e.kind = "postfix" -> Give(WritePlace(old, place.value, Stepped(old.value, e.op)), old.value)
          [] e.kind = "binary" -> Operation(e.op, first.value, e.kids[2], first)
          [] e.kind = "if" -> Evaluate(IF True(first.value) THEN e.kids[2] ELSE e.kids[3], first)
          [] e.kind = "assign" -> LET v == Evaluate(e.kids[2], place) IN WritePlace(v, place.value, v.value)
          [] e.kind = "update" -> LET v == Operation(e.op, old.value, e.kids[2], old) IN WritePlace(v, place.value, v.value)
          [] e.kind = "call" -> CallFunction(args, "call", first.value, args.value)
          [] e.kind = "new" -> CallFunction(args, "new", first.value, args.value)
          [] e.kind = "method" -> CallFunction(args, "call", Property(first.value, <<e.op>>), args.value)
          [] e.kind = "array" -> Give(all, Apply("[]", all.value) \o <<"]">>)
          [] e.kind = "list" -> Give(all, all.value[Len(all.value)])

Meaning(e) == Evaluate(e, [store |-> <<>>, events |-> <<>>, value |-> <<>>])

-----------------------------------------------------------------------------
(***************************************************************************)
(* The levels of precedence, and what is written of an expression that has *)
(* to be of a level.                                                        *)
(***************************************************************************)
BinaryLevels ==
    << {"||"}, {"&&"}, {"|"}, {"^"}, {"&"}, {"==", "!="}, {"<", "in"}, {"<<", ">>"}, {"+", "-"}, {"*", "/"} >>

Level(e) ==
    CASE e.kind = "list" -> 0
      [] e.kind \in {"assign", "update"} -> 1
      [] e.kind = "if" -> 2
      [] e.kind = "binary" -> 2 + CHOOSE k \in DOMAIN BinaryLevels : e.op \in BinaryLevels[k]
      [] e.kind \in {"unary", "delete", "prefix"} -> 13
      [] e.kind = "postfix" -> 14
      [] e.kind \in {"call", "method", "new", "dot", "index"} -> 15
      [] e.kind \in {"literal", "name", "array"} -> 16

RECURSIVE Written(_, _), WrittenEach(_)

WrittenEach(kids) ==
    IF kids = <<>> THEN <<>>
    ELSE Written(Head(kids), 1) \o (IF Len(kids) = 1 THEN <<>> ELSE <<",">>) \o WrittenEach(Tail(kids))

Arguments(kids) == <<"(">> \o WrittenEach(kids) \o <<")">>

Parenthesised(w) == <<"(">> \o w \o <<")">>

\* A colon after an array literal would give its type
Written(e, level) ==
    LET Kid(k, l) == Written(e.kids[k], l)
        Then(w) == IF w[Len(w)] = "]" THEN Parenthesised(w) ELSE w
        bare ==
            CASE e.kind \in {"literal", "name"} -> <<e.op>>
              [] e.kind \in {"unary", "prefix"} -> <<e.op>> \o Kid(1, 13)
              [] e.kind = "delete" -> <<"delete">> \o Kid(1, 13)
              [] e.kind = "postfix" -> Kid(1, 15) \o <<e.op>>
              [] e.kind = "binary" -> Kid(1, Level(e)) \o <<e.op>> \o Kid(2, Level(e) + 1)
              [] e.kind = "if" -> Kid(1, 3) \o <<"?">> \o Then(Kid(2, 1)) \o <<":">> \o Kid(3, 1)
              [] e.kind = "assign" -> Kid(1, 15) \o <<"=">> \o Kid(2, 1)
              [] e.kind = "update" -> Kid(1, 15) \o <<e.op \o "=">> \o Kid(2, 1)
              [] e.kind = "dot" -> Kid(1, 15) \o <<".", e.op>>
              [] e.kind = "index" -> Kid(1, 15) \o <<"[">> \o Kid(2, 0) \o <<"]">>
              [] e.kind = "call" -> Kid(1, 15) \o Arguments(Tail(e.kids))
              [] e.kind = "method" -> Kid(1, 15) \o <<".", e.op>> \o Arguments(Tail(e.kids))
              [] e.kind = "new" -> <<"new">> \o Kid(1, 16) \o Arguments(Tail(e.kids))
              [] e.kind = "array" -> <<"[">> \o WrittenEach(e.kids) \o <<"]">>
              [] e.kind = "list" -> WrittenEach(e.kids)
    IN  IF Level(e) < level THEN Parenthesised(bare) ELSE bare

\* A statement may not begin with every operator, nor with a name, or names
\* and dots, that is multiplied
Statement(e) ==
    LET w == Written(e, 0)
        multiplied == \E k \in DOMAIN w : w[k] = "*" /\ \A i \in 2..(k - 1) : i % 2 = 0 <=> w[i] = "."
    IN  (IF multiplied \/ Head(w) \in {"-", "+", "~", "void"} THEN Parenthesised(w) ELSE w) \o <<";">>
=============================================================================
