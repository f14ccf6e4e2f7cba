----------------------------- MODULE MCEjsLoader -----------------------------
(***************************************************************************)
(* Three modules: a has a class, b requires a and extends its class, and c  *)
(* requires b, a or both and extends a class of theirs or implements one.   *)
(***************************************************************************)
EXTENDS EjsLoader

Script(does, module) == [does |-> does, module |-> module]
Nothing == Script("nothing", "")
Source(requires, class, script) == [requires |-> requires, classes |-> class, script |-> script]

A(variables) == Class("A", "Object", <<>>, FALSE, <<"s">>, variables, <<"f">>, {})
M == Class("M", "Object", <<>>, FALSE, <<"t">>, <<"w">>, <<"g">>, {})
I == Class("I", "", <<>>, TRUE, <<>>, <<>>, <<"h">>, {})
B == Class("B", "A", <<>>, FALSE, <<>>, <<"z">>, <<"f">>, {"f"})
CC(base, implements, overrides) == Class("C", base, implements, FALSE, <<>>, <<"u">>, <<"f", "k">>, overrides)

\* a has a version with one more variable
World(first(_), sa, second, sb, required, third, sc) ==
    [a |-> <<Source(<<>>, first(<<"x">>), sa), Source(<<>>, first(<<"x", "y">>), sa)>>,
     b |-> <<Source(<<"a">>, second, sb)>>,
     c |-> <<Source(required, third, sc)>>]
OnlyA(variables) == <<A(variables)>>
All(variables) == <<M, I, A(variables)>>
Extending == CC("B", <<>>, {"f"})
D == Class("D", "C", <<>>, FALSE, <<>>, <<>>, <<"k">>, {"k"})
Scripts(module) == {Script(does, module) : does \in {"runs", "throws", "loads", "tries"}}
Runs == Script("runs", "")

\* Scripts that throw and load what comes after or before them
ScriptsThatLoad ==
    {World(OnlyA, sa, <<B>>, sb, required, <<Extending>>, sc) :
        sa \in Scripts("c"), sb \in Scripts("c"), required \in {<<"b">>, <<"a", "b">>},
        sc \in {Runs, Script("throws", ""), Script("tries", "a")}}

\* Classes that implement an interface, a class or both
Implementing ==
    {World(All, Nothing, <<B>>, Runs, <<"a">>, c, Runs) :
        c \in {<<CC("Object", <<"I">>, {})>>, <<CC("Object", <<"M">>, {})>>, <<CC("Object", <<"I", "M">>, {})>>,
               <<CC("A", <<"I">>, {"f"})>>}}

\* Two classes of one module, the first of which extends the second
Two == <<D, CC("A", <<>>, {"f"})>>
OfTwo ==
    {World(OnlyA, Nothing, second, Runs, required, Two, Runs) :
        second \in {<<>>, <<B>>}, required \in {<<"b">>, <<"a", "b">>}}

MCWorlds == ScriptsThatLoad \cup Implementing \cup OfTwo
MCRecompiled == OfTwo
MCOrder == <<"a", "b", "c">>

\* The compiler writes whole files, by whichever versions of the modules required
VersionsOf(w) == {v \in [Modules -> 1..2] : \A n \in Modules : v[n] \in DOMAIN w[n]}
FilesOf(w, version) ==
    FoldLeft(LAMBDA files, n : Compile(files, n, w[n][version[n]], version[n]), <<>>, MCOrder)
ASSUME WritesWhole ==
    \A w \in MCWorlds : \A version \in VersionsOf(w) :
        LET files == FilesOf(w, version)
        IN  \A n \in Modules : IsWhole(files[n]) /\ NameIn(files[n]) = n
=============================================================================
