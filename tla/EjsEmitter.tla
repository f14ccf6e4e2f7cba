----------------------------- MODULE EjsEmitter -----------------------------
(***************************************************************************)
(* An event emitter, src/core/Emitter.es.                                   *)
(*                                                                          *)
(* A script, and each callback while it runs, may fire events and register *)
(* and remove observers; what they have called is on a stack.  An event is *)
(* known by its place in the order of firing, which stands for its         *)
(* arguments.  A callback that throws ends there, as fireThis catches the  *)
(* exception and goes on.                                                   *)
(***************************************************************************)
EXTENDS Integers, Sequences, SequencesExt

CONSTANTS
    Name,           \* names of events, among them "on" and "off"
    Fired,          \* the ones that scripts fire
    Callback,       \* functions
    Bound,          \* those with a bound this, which an endpoint gives back as they are
    Every,          \* null, for every callback
    MaxOps          \* bound: calls of scripts and callbacks

ASSUME EventNames == {"on", "off"} \cup Fired \subseteq Name /\ Bound \subseteq Callback /\ Every \notin Callback

VARIABLES
    endpoints,      \* the array of each name, 0 for none
    arrays,         \* the arrays that were made, of endpoints
    eps,            \* the endpoints that were made: name, callback, active, pending
    stack,          \* the calls of fireThis and removeOneObserver that have not returned
    fired,          \* the names of the events so far
    seen,           \* the events that each endpoint was called with
    since,          \* the events there had been when it was registered
    cleared,        \* the events there had been when a name was last cleared
    removed,        \* names of which an observer was removed
    ops             \* calls made

state == <<endpoints, arrays, eps>>
vars == <<endpoints, arrays, eps, stack, fired, seen, since, cleared, removed, ops>>

None == 0

Init ==
    /\ endpoints = [n \in Name |-> None]
    /\ arrays = <<>> /\ eps = <<>> /\ stack = <<>>
    /\ fired = <<>> /\ seen = <<>> /\ since = <<>>
    /\ cleared = [n \in Name |-> 0] /\ removed = {}
    /\ ops = 0

push(s, f) == <<f>> \o s

\* A loop over the array that a name has in points, up to the length it has
Loop(kind, name, arg, callback, points, lists) ==
    [kind |-> kind, name |-> name, arg |-> arg, callback |-> callback, arr |-> points[name],
     index |-> 1, len |-> Len(lists[points[name]]), e |-> None, at |-> "loop"]

Top == stack[1]
Pop == Tail(stack)
GoOn(f) == [f EXCEPT !.index = @ + 1, !.at = "loop"]

\* Behind the end of an array that has become shorter there is nothing
AtEnd(f) == f.index > f.len \/ f.index > Len(arrays[f.arr])

Current == arrays[Top.arr][Top.index]

Looping(kind) == stack # <<>> /\ Top.kind = kind /\ Top.at = "loop"

\* The script, or the callback that runs, makes its next call
Calls ==
    /\ stack # <<>> => Top.at = "callback"
    /\ ops < MaxOps /\ ops' = ops + 1

-----------------------------------------------------------------------------
(***************************************************************************)
(* Firing                                                                   *)
(***************************************************************************)
fireThis(name, points, lists, s) ==
    /\ fired' = Append(fired, name)
    /\ stack' = IF points[name] = None THEN s
                ELSE push(s, Loop("fire", name, Len(fired) + 1, Every, points, lists))

Fire(name) ==
    /\ Calls /\ fireThis(name, endpoints, arrays, stack)
    /\ UNCHANGED <<state, seen, since, cleared, removed>>

EndLoop ==
    /\ stack # <<>> /\ Top.at = "loop" /\ AtEnd(Top)
    /\ stack' = Pop
    /\ UNCHANGED <<state, fired, seen, since, cleared, removed, ops>>

\* The event is put in front of those that wait
Postpone_InFront ==
    /\ Looping("fire") /\ ~AtEnd(Top) /\ eps[Current].active
    /\ eps' = [eps EXCEPT ![Current].pending = <<Top.arg>> \o @]
    /\ stack' = push(Pop, GoOn(Top))
    /\ UNCHANGED <<endpoints, arrays, fired, seen, since, cleared, removed, ops>>

\* The observer is running: the event waits for it
Postpone ==
    /\ Looping("fire") /\ ~AtEnd(Top) /\ eps[Current].active
    /\ eps' = [eps EXCEPT ![Current].pending = Append(@, Top.arg)]
    /\ stack' = push(Pop, GoOn(Top))
    /\ UNCHANGED <<endpoints, arrays, fired, seen, since, cleared, removed, ops>>

\* The observer is not marked as running
Run_Unmarked ==
    /\ Looping("fire") /\ ~AtEnd(Top) /\ ~eps[Current].active
    /\ seen' = [seen EXCEPT ![Current] = Append(@, Top.arg)]
    /\ stack' = push(Pop, [Top EXCEPT !.at = "callback", !.e = Current])
    /\ UNCHANGED <<state, fired, since, cleared, removed, ops>>

Run ==
    /\ Looping("fire") /\ ~AtEnd(Top) /\ ~eps[Current].active
    /\ eps' = [eps EXCEPT ![Current].active = TRUE]
    /\ seen' = [seen EXCEPT ![Current] = Append(@, Top.arg)]
    /\ stack' = push(Pop, [Top EXCEPT !.at = "callback", !.e = Current])
    /\ UNCHANGED <<endpoints, arrays, fired, since, cleared, removed, ops>>

\* A mutant's: what waits is not taken off
CallbackEnds_Repeats(s) ==
    LET f == Head(s)
        pending == eps[f.e].pending
    IN  /\ eps' = [eps EXCEPT ![f.e].active = pending # <<>>]
        /\ stack' = push(Tail(s), IF pending # <<>> THEN f ELSE GoOn(f))
        /\ UNCHANGED seen

\* The callback of the loop on s ends, or is ended by an exception.  It is
\* called again for an event that waits; the event is then that of the loop.
CallbackEnds(s) ==
    LET f == Head(s)
        pending == eps[f.e].pending
    IN  IF pending # <<>>
        THEN /\ eps' = [eps EXCEPT ![f.e].pending = Tail(@)]
             /\ seen' = [seen EXCEPT ![f.e] = Append(@, Head(pending))]
             /\ stack' = push(Tail(s), [f EXCEPT !.arg = Head(pending)])
        ELSE /\ eps' = [eps EXCEPT ![f.e].active = FALSE]
             /\ stack' = push(Tail(s), GoOn(f))
             /\ UNCHANGED seen

Return ==
    /\ stack # <<>> /\ Top.at = "callback"
    /\ CallbackEnds(stack)
    /\ UNCHANGED <<endpoints, arrays, fired, since, cleared, removed, ops>>

-----------------------------------------------------------------------------
(***************************************************************************)
(* Observers                                                                *)
(***************************************************************************)
\* A function with no bound this is read from an endpoint as a bound copy of
\* itself, which is not the same function
Same(e, callback) == callback \in Bound /\ eps[e].callback = callback

Endpoint(name, callback) == [name |-> name, callback |-> callback, active |-> FALSE, pending |-> <<>>]

\* The array of a name, with one more element if it is given one
Extended(name, new) ==
    IF endpoints[name] = None THEN [points |-> [endpoints EXCEPT ![name] = Len(arrays) + 1], lists |-> Append(arrays, new)]
    ELSE [points |-> endpoints, lists |-> [arrays EXCEPT ![endpoints[name]] = @ \o new]]

Observers(name) == IF endpoints[name] = None THEN {} ELSE Range(arrays[endpoints[name]])

addOneObserver(name, callback) ==
    /\ Calls
    /\ IF \E e \in Observers(name) : Same(e, callback)
       THEN UNCHANGED <<state, stack, fired, seen, since>>
       ELSE LET x == Extended(name, <<Len(eps) + 1>>)
            IN  /\ endpoints' = x.points /\ arrays' = x.lists
                /\ eps' = Append(eps, Endpoint(name, callback))
                /\ seen' = Append(seen, <<>>) /\ since' = Append(since, Len(fired))
                /\ fireThis("on", x.points, x.lists, stack)
    /\ UNCHANGED <<cleared, removed>>

\* A mutant's: the new array has the old observers
clearObservers_Copies(names) ==
    /\ Calls
    /\ \E n \in names : /\ endpoints' = [endpoints EXCEPT ![n] = Len(arrays) + 1]
                         /\ arrays' = Append(arrays, IF endpoints[n] = None THEN <<>> ELSE arrays[endpoints[n]])
    /\ cleared' = [n \in Name |-> IF n \in names THEN Len(fired) ELSE cleared[n]]
    /\ UNCHANGED <<eps, stack, fired, seen, since, removed>>

clearObservers(names) ==
    /\ Calls
    /\ IF names = Name
       THEN endpoints' = [n \in Name |-> None] /\ UNCHANGED arrays
       ELSE \E n \in names : endpoints' = [endpoints EXCEPT ![n] = Len(arrays) + 1] /\ arrays' = Append(arrays, <<>>)
    /\ cleared' = [n \in Name |-> IF n \in names THEN Len(fired) ELSE cleared[n]]
    /\ UNCHANGED <<eps, stack, fired, seen, since, removed>>

removeOneObserver(name, callback) ==
    /\ Calls
    /\ stack' = IF endpoints[name] = None THEN stack
                ELSE push(stack, Loop("off", name, None, callback, endpoints, arrays))
    /\ UNCHANGED <<state, fired, seen, since, cleared, removed>>

Matches == Top.callback = Every \/ Same(Current, Top.callback)

Skip ==
    /\ Looping("off") /\ ~AtEnd(Top) /\ ~Matches
    /\ stack' = push(Pop, GoOn(Top))
    /\ UNCHANGED <<state, fired, seen, since, cleared, removed, ops>>

FireOff ==
    /\ Looping("off") /\ ~AtEnd(Top) /\ Matches
    /\ fireThis("off", endpoints, arrays, push(Pop, [Top EXCEPT !.at = "splice"]))
    /\ UNCHANGED <<state, seen, since, cleared, removed, ops>>

\* The element at the index is removed, whichever it is by now, or the last
\* one; with none left splice throws, through off and the callback around it
Splice ==
    /\ stack # <<>> /\ Top.at = "splice"
    /\ LET list == arrays[Top.arr]
           at == IF Top.index > Len(list) THEN Len(list) ELSE Top.index
       IN  IF list # <<>>
           THEN /\ arrays' = [arrays EXCEPT ![Top.arr] = RemoveAt(@, at)]
                /\ removed' = removed \cup {Top.name}
                /\ stack' = push(Pop, GoOn(Top))
                /\ UNCHANGED <<eps, seen>>
           ELSE /\ IF Pop = <<>> THEN stack' = <<>> /\ UNCHANGED <<eps, seen>> ELSE CallbackEnds(Pop)
                /\ UNCHANGED <<arrays, removed>>
    /\ UNCHANGED <<endpoints, fired, since, cleared, ops>>

Rest == stack = <<>> /\ ops = MaxOps /\ UNCHANGED vars

Step == EndLoop \/ Postpone \/ Run \/ Return \/ Skip \/ FireOff \/ Splice

Next ==
    \/ Step
    \/ \E n \in Fired : Fire(n)
    \/ \E n \in Name, c \in Callback : addOneObserver(n, c)
    \/ \E names \in {{n} : n \in Name} \cup {Name} : clearObservers(names)
    \/ \E n \in Name, c \in Callback \cup {Every} : removeOneObserver(n, c)
    \/ Rest

Spec == Init /\ [][Next]_vars

\* The interpreter goes on, and callbacks return
FairSpec == Spec /\ WF_vars(Step)

-----------------------------------------------------------------------------
(***************************************************************************)
(* Properties                                                               *)
(***************************************************************************)
Callbacks == {i \in DOMAIN stack : stack[i].at = "callback"}

Frame ==
    [kind : {"fire", "off"}, name : Name, arg : Nat, callback : Callback \cup {Every}, arr : Nat, index : Nat,
     len : Nat, e : Nat, at : {"loop", "callback", "splice"}]

TypeOK ==
    /\ endpoints \in [Name -> Nat] /\ arrays \in Seq(Seq(Nat))
    /\ eps \in Seq([name : Name, callback : Callback, active : BOOLEAN, pending : Seq(Nat)])
    /\ stack \in Seq(Frame) /\ fired \in Seq(Name)
    /\ seen \in Seq(Seq(Nat)) /\ since \in Seq(Nat) /\ Len(seen) = Len(eps) /\ Len(since) = Len(eps)
    /\ cleared \in [Name -> Nat] /\ removed \subseteq Name

\* An observer is active while one call of it is running, and only then: it is
\* never entered again by the events that it or another observer fires, and an
\* exception, a removal or a clearing does not leave it active, which would
\* keep it from every later event (e.active in fireThis).
ActiveIsRunning ==
    \A e \in DOMAIN eps : Cardinality({i \in Callbacks : stack[i].e = e}) = IF eps[e].active THEN 1 ELSE 0

Undisturbed(e) == eps[e].name \notin removed /\ cleared[eps[e].name] <= since[e]

\* The events that were fired for an observer
Meant(e) == {i \in since[e] + 1..Len(fired) : fired[i] = eps[e].name}
Ascending(s) == \A i, j \in DOMAIN s : i < j => s[i] < s[j]

\* The script has been given control again by every event: each observer that
\* nobody removed was called as many times as the event was fired since it was
\* registered, however callbacks fire it again, register others and throw.  Only
\* the number is right: fireThis overwrites the arguments of its loop with those
\* of an event that waited, so the observers behind the one it waited for may be
\* called with that event twice and with the event of the loop never.
CalledAsOften ==
    stack = <<>> => \A e \in DOMAIN eps : Undisturbed(e) => Len(seen[e]) = Cardinality(Meant(e))

\* The observer that was registered first has had every event, each once, in
\* the order in which they were fired.
FirstHasAll ==
    stack = <<>> =>
        \A n \in Name : (n \notin removed /\ Observers(n) # {}) =>
            LET e == arrays[endpoints[n]][1] IN Ascending(seen[e]) /\ Range(seen[e]) = Meant(e)

\* No event is lost: observers are called once for each, the first with each.
EventsArrive == CalledAsOften /\ FirstHasAll

\* An observer that has been cleared sees no event that was fired later,
\* though loops over it and events that wait for it go on.
ClearedIsSilent ==
    \A e \in DOMAIN eps : cleared[eps[e].name] > since[e] => \A i \in DOMAIN seen[e] : seen[e][i] <= cleared[eps[e].name]

\* The calls of the observers agree with what was fired: their number for every
\* observer, the events and their order for the first of a name, and no event
\* from after it was cleared for one that was (fireThis, clearObservers).
CallsMatchEvents == EventsArrive /\ ClearedIsSilent

\* Firing an event comes to an end, as do the removals.
Settles == []<>(stack = <<>>)
=============================================================================
