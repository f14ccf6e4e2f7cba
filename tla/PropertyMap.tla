----------------------------- MODULE PropertyMap -----------------------------
(***************************************************************************)
(* What an object promises to a script: a map from qualified names to       *)
(* values with attributes.  Names are found by their namespace, or by the   *)
(* open namespaces when a script gives none.  How the object stores its     *)
(* properties (EjsPot) cannot be told from outside.                         *)
(***************************************************************************)
EXTENDS Integers, Sequences

CONSTANTS
    QNames,         \* the qualified names of properties
    Empty,          \* the empty string: the namespace of unqualified names
    OpenSpaces,     \* the namespaces open in the scope, in the order of lookup
    Value,          \* the values of properties
    Null,           \* null or undefined
    Options         \* the sets of attributes that properties are defined with

VARIABLES
    props,          \* [qualified name -> [value, attributes]]
    dynamic,        \* properties may be added by storing to them
    result          \* of the last operation

mapVars == <<props, dynamic, result>>

Name == {q.name : q \in QNames}
Q(space, name) == [space |-> space, name |-> name]

Named(n) == {q \in DOMAIN props : q.name = n}
Opens == {OpenSpaces[i] : i \in DOMAIN OpenSpaces}

\* The properties that an unqualified name stands for, at most one: the only one of
\* that name, if its namespace is open, or the first of several
Visible(n) ==
    IF \E q \in Named(n) : Named(n) = {q}
    THEN {q \in Named(n) : q.space \in Opens \cup {Empty}}
    ELSE {q \in Named(n) : \E i \in DOMAIN OpenSpaces :
             /\ q.space = OpenSpaces[i]
             /\ \A j \in 1..(i - 1) : Q(OpenSpaces[j], n) \notin DOMAIN props}

Present(q) == {q} \cap DOMAIN props

ValueOf(q) == props[q].value
Has(q, attribute) == attribute \in props[q].attributes
With(q, value, attributes) ==
    [p \in DOMAIN props \cup {q} |->
        IF p = q THEN [value |-> value, attributes |-> attributes] ELSE props[p]]

Fails == result' = "throws" /\ UNCHANGED <<props, dynamic>>
Answers(r) == result' = r /\ UNCHANGED <<props, dynamic>>
Does(r) == result' = r /\ UNCHANGED dynamic

MapInit ==
    /\ props = [q \in {} |-> [value |-> Null, attributes |-> {}]]
    /\ dynamic = TRUE
    /\ result = "done"

Reads(found) ==
    \/ found = {} /\ Answers(Null)
    \/ \E q \in found : Answers(ValueOf(q))

\* A property that cannot be written keeps its value once it has one
Writes(found, q0, v) ==
    \/ found = {} /\ ~dynamic /\ Fails
    \/ found = {} /\ dynamic /\ props' = With(q0, v, {}) /\ Does("done")
    \/ \E q \in found :
        IF Has(q, "readonly") /\ ValueOf(q) \notin {Null, v} THEN Fails
        ELSE props' = With(q, v, props[q].attributes) /\ Does("done")

\* With several properties of a name, one cannot be deleted without its namespace
Deletes(found, ambiguous) ==
    \/ found = {} /\ Answers("done")
    \/ \E q \in found :
        IF Has(q, "fixed") THEN Answers("kept")
        ELSE IF ambiguous THEN Fails
        ELSE props' = [p \in DOMAIN props \ {q} |-> props[p]] /\ Does("done")

Defines(q, v, attributes) ==
    IF q \in DOMAIN props /\ Has(q, "fixed") THEN Fails
    ELSE props' = With(q, v, attributes) /\ Does("done")

Locks(attributes) ==
    /\ props' = [q \in DOMAIN props |-> [props[q] EXCEPT !.attributes = @ \cup attributes]]
    /\ dynamic' = FALSE
    /\ result' = "done"

MapNext ==
    \/ \E n \in Name, v \in Value :
        Reads(Visible(n)) \/ Writes(Visible(n), Q(Empty, n), v)
    \/ \E n \in Name : Deletes(Visible(n), ~\E q \in Named(n) : Named(n) = {q})
    \/ \E q \in QNames, v \in Value :
        \/ q.space # Empty /\ (Reads(Present(q)) \/ Writes(Present(q), q, v) \/ Deletes(Present(q), FALSE))
        \/ \E attributes \in Options : Defines(q, v, attributes)
    \/ \E attributes \in {{}, {"fixed"}, {"fixed", "readonly"}} : Locks(attributes)
    \/ Answers("done")

MapSpec == MapInit /\ [][MapNext]_mapVars
=============================================================================
