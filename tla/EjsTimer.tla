------------------------------ MODULE EjsTimer ------------------------------
(***************************************************************************)
(* Timers of one interpreter, src/core/src/ejsTimer.c, on the queue of     *)
(* events of its dispatcher, src/deps/mpr/mprLib.c.                         *)
(*                                                                          *)
(* A script makes timers, starts and stops them, and serves events with    *)
(* App.run and App.sleep; the callbacks of timers do so too, so that loops *)
(* nest.  Dues are kept as the time that is left, which is all that         *)
(* decides: an event is inserted behind every one that is due already.     *)
(***************************************************************************)
EXTENDS Integers, Sequences, SequencesExt

CONSTANTS
    Timer,
    Single,         \* timers that scripts never make repeat
    Watched,        \* timers with an onerror function
    Period,         \* periods in ticks of the clock, among them 0
    MaxOps,         \* bound: calls of scripts and callbacks
    MaxDepth        \* bound: callbacks inside each other

ASSUME TimerSets == Single \subseteq Timer /\ Watched \subseteq Timer /\ Period \subseteq Nat

VARIABLES
    period, repeat, \* as in EjsTimer
    event,          \* tp->event, 0 for none
    ejs,            \* tp->ejs is set
    events,         \* the events that were made: timer, period, continuous, runs
    queue,          \* eventQ of the dispatcher: events and the time that is left
    stack,          \* the callbacks that run, inside the script
    exception,      \* ejs->exception, left by a function that events have run
    crashed,        \* "no", or what met a timer with no interpreter
    ops             \* calls made

vars == <<period, repeat, event, ejs, events, queue, stack, exception, crashed, ops>>

None == 0

Frame(e, part) == [event |-> e, part |-> part, serving |-> FALSE]

Init ==
    /\ period \in [Timer -> Period] /\ repeat = [t \in Timer |-> FALSE]
    /\ event = [t \in Timer |-> None] /\ ejs = [t \in Timer |-> TRUE]
    /\ events = <<>> /\ queue = <<>>
    /\ stack = <<Frame(None, "script")>>
    /\ exception = FALSE /\ crashed = "no" /\ ops = 0

Top == Head(stack)
Running == crashed = "no"

\* Some function of the script or of a timer is being interpreted
Calling == Running /\ ~Top.serving

Calls == Calling /\ ops < MaxOps /\ ops' = ops + 1

-----------------------------------------------------------------------------
(***************************************************************************)
(* The queue                                                                *)
(***************************************************************************)
mprQueueEvent(q, e, due) ==
    InsertAt(q, Max({0} \cup {i \in DOMAIN q : q[i].due <= due}) + 1, [event |-> e, due |-> due])

Due == queue # <<>> /\ Head(queue).due = 0

\* Whether an event is due depends on the time its service has last read
Tick ==
    /\ Running /\ \E i \in DOMAIN queue : queue[i].due > 0
    /\ queue' = [i \in DOMAIN queue |-> [queue[i] EXCEPT !.due = IF @ = 0 THEN 0 ELSE @ - 1]]
    /\ UNCHANGED <<period, repeat, event, ejs, events, stack, exception, crashed, ops>>

\* A loop that has nothing to run reads the time
Wait == Top.serving /\ ~Due /\ Tick

-----------------------------------------------------------------------------
(***************************************************************************)
(* Operations of a timer, from one state of the timers to the next         *)
(***************************************************************************)
timers == [period |-> period, repeat |-> repeat, event |-> event, ejs |-> ejs, events |-> events, queue |-> queue]

Become(s) ==
    /\ period' = s.period /\ repeat' = s.repeat /\ event' = s.event
    /\ ejs' = s.ejs /\ events' = s.events /\ queue' = s.queue

\* A single timer has a continuous event
timer_start_Continuous(s, t) ==
    IF s.event[t] # None THEN s
    ELSE LET e == Len(s.events) + 1
         IN  [s EXCEPT !.event[t] = e,
                       !.events = Append(@, [timer |-> t, period |-> s.period[t], continuous |-> TRUE, runs |-> 0]),
                       !.queue = mprQueueEvent(@, e, s.period[t])]

timer_start(s, t) ==
    IF s.event[t] # None THEN s
    ELSE LET e == Len(s.events) + 1
         IN  [s EXCEPT !.event[t] = e,
                       !.events = Append(@, [timer |-> t, period |-> s.period[t], continuous |-> s.repeat[t], runs |-> 0]),
                       !.queue = mprQueueEvent(@, e, s.period[t])]

\* The event is left as it is, or the interpreter is forgotten
timer_stop_Continues(s, t) == [s EXCEPT !.event[t] = None]

timer_stop_Forgets(s, t) ==
    IF s.event[t] = None THEN s
    ELSE [s EXCEPT !.events[s.event[t]].continuous = FALSE, !.event[t] = None, !.ejs[t] = FALSE]

\* The event stays in the queue
timer_stop(s, t) ==
    IF s.event[t] = None THEN s
    ELSE [s EXCEPT !.events[s.event[t]].continuous = FALSE, !.event[t] = None]

timer_set_repeat(s, t, enable) ==
    IF s.event[t] = None THEN [s EXCEPT !.repeat[t] = enable]
    ELSE [s EXCEPT !.repeat[t] = enable, !.events[s.event[t]].continuous = enable]

timer_set_period(s, t, p) == [s EXCEPT !.period[t] = p]

\* Scripts take the time they are given to be set when it is not zero
restart(s, t, when) ==
    timer_start(IF when = 0 THEN timer_stop(s, t) ELSE timer_set_period(timer_stop(s, t), t, when), t)

\* A mutant's: the timer keeps its event
Ran_Kept(s, t) == IF s.repeat[t] THEN s ELSE [s EXCEPT !.ejs[t] = FALSE]

\* The end of timerCallback
Ran(s, t) == IF s.repeat[t] THEN s ELSE [s EXCEPT !.event[t] = None, !.ejs[t] = FALSE]

\* A continuous event is queued with its period
Requeued_NoMinimum(s, e) ==
    IF s.events[e].continuous THEN [s EXCEPT !.queue = mprQueueEvent(@, e, s.events[e].period)] ELSE s

\* The end of dispatchEvents: a continuous event is queued for a later time
Requeued(s, e) ==
    IF s.events[e].continuous
    THEN [s EXCEPT !.queue = mprQueueEvent(@, e, Max({1, s.events[e].period}))] ELSE s

-----------------------------------------------------------------------------
Operation(s) == Calls /\ Become(s) /\ UNCHANGED <<stack, exception, crashed>>

Operations(t) ==
    \/ Operation(timer_start(timers, t))
    \/ Operation(timer_stop(timers, t))
    \/ \E when \in Period : Operation(restart(timers, t, when)) \/ Operation(timer_set_period(timers, t, when))
    \/ t \notin Single /\ \E enable \in BOOLEAN : Operation(timer_set_repeat(timers, t, enable))

\* A function calls App.run or App.sleep
Serve ==
    /\ Calling /\ Len(stack) <= MaxDepth
    /\ stack' = [stack EXCEPT ![1].serving = TRUE]
    /\ UNCHANGED <<period, repeat, event, ejs, events, queue, exception, crashed, ops>>

\* The call returns; an exception that events have left is thrown from it,
\* and is caught by the function that made the call or ends it
Served ==
    /\ Running /\ Top.serving
    /\ stack' = [stack EXCEPT ![1].serving = FALSE]
    /\ exception' = FALSE
    /\ UNCHANGED <<period, repeat, event, ejs, events, queue, crashed, ops>>

Finish(s, e, below) ==
    /\ Become(Requeued(Ran(s, s.events[e].timer), e))
    /\ stack' = below

\* The event stays where it is in the queue while it runs
dispatchEvents_InQueue ==
    /\ Running /\ Top.serving /\ Due
    /\ LET e == Head(queue).event
           t == events[e].timer
           s == [timers EXCEPT !.events[e].runs = 1]
       IN  /\ ejs[t] /\ ~exception
           /\ Become(s) /\ stack' = <<Frame(e, "callback")>> \o stack
           /\ UNCHANGED <<exception, crashed>>
    /\ UNCHANGED ops

\* The first event is taken from the queue and run.  With an exception that
\* another has left its function is not called, and the exception is its own.
dispatchEvents ==
    /\ Running /\ Top.serving /\ Due
    /\ LET e == Head(queue).event
           t == events[e].timer
           s == [timers EXCEPT !.queue = Tail(@), !.events[e].runs = IF t \in Single THEN @ + 1 ELSE 0]
       IN  \/ /\ ~ejs[t]
              /\ crashed' = "callback" /\ Become(timers) /\ UNCHANGED <<stack, exception>>
           \/ /\ ejs[t] /\ ~exception
              /\ Become(s) /\ stack' = <<Frame(e, "callback")>> \o stack
              /\ UNCHANGED <<exception, crashed>>
           \/ /\ ejs[t] /\ exception /\ t \in Watched
              /\ Become(s) /\ stack' = <<Frame(e, "onerror")>> \o stack
              /\ exception' = FALSE /\ UNCHANGED crashed
           \/ /\ ejs[t] /\ exception /\ t \notin Watched
              /\ Finish(s, e, stack)
              /\ exception' = FALSE /\ UNCHANGED crashed
    /\ UNCHANGED ops

\* The function of a timer returns, or throws and there is no onerror
Returns ==
    /\ Calling /\ Top.event # None
    /\ Finish(timers, Top.event, Tail(stack))
    /\ UNCHANGED <<exception, crashed, ops>>

\* The callback throws and onerror is called
Throws ==
    /\ Calling /\ Top.part = "callback" /\ events[Top.event].timer \in Watched
    /\ stack' = [stack EXCEPT ![1].part = "onerror"]
    /\ UNCHANGED <<period, repeat, event, ejs, events, queue, exception, crashed, ops>>

\* onerror throws in turn, and nothing looks at it
ThrowsAgain ==
    /\ Calling /\ Top.part = "onerror"
    /\ Finish(timers, Top.event, Tail(stack))
    /\ exception' = TRUE
    /\ UNCHANGED <<crashed, ops>>

\* The collector marks the timers that the program can still reach
manageTimer ==
    /\ Running /\ \E t \in Timer : ~ejs[t]
    /\ crashed' = "collector"
    /\ UNCHANGED <<period, repeat, event, ejs, events, queue, stack, exception, ops>>

Rest == ~Running /\ UNCHANGED vars

Next ==
    \/ \E t \in Timer : Operations(t)
    \/ Tick \/ Serve \/ Served \/ dispatchEvents \/ Returns \/ Throws \/ ThrowsAgain
    \/ manageTimer \/ Rest

Spec == Init /\ [][Next]_vars

\* Functions return, App.run and App.sleep of a callback come to an end, and the
\* script serves events in the end; a loop runs what is due and else waits.
FairSpec ==
    /\ Spec
    /\ WF_vars(Returns) /\ WF_vars(Top.event # None /\ Served) /\ WF_vars(Top.event = None /\ Serve)
    /\ SF_vars(dispatchEvents) /\ SF_vars(Wait)

-----------------------------------------------------------------------------
(***************************************************************************)
(* Properties                                                               *)
(***************************************************************************)
Queued == {queue[i].event : i \in DOMAIN queue}
OnStack == {stack[i].event : i \in DOMAIN stack} \ {None}

TypeOK ==
    /\ period \in [Timer -> Period] /\ repeat \in [Timer -> BOOLEAN] /\ ejs \in [Timer -> BOOLEAN]
    /\ event \in [Timer -> {None} \cup DOMAIN events]
    /\ Queued \cup OnStack \subseteq DOMAIN events
    /\ exception \in BOOLEAN /\ crashed \in {"no", "callback", "collector"}

\* The queue is in the order in which its events are due, so that looking at
\* the first one is enough (mprGetNextEvent), though they are put into it by
\* timers that start, by loops that run them again, and by loops inside those.
InDueOrder == \A i, j \in DOMAIN queue : i < j => queue[i].due <= queue[j].due

\* No event is run by two loops at a time, nor waits in the queue while it runs:
\* the assertion of dispatchEvents on MPR_EVENT_RUNNING.
NotTwice ==
    /\ \A i, j \in DOMAIN stack : (i # j /\ stack[i].event # None) => stack[i].event # stack[j].event
    /\ \A i, j \in DOMAIN queue : i # j => queue[i].event # queue[j].event
    /\ Queued \cap OnStack = {}

\* The queue that nested loops share stays a queue: in order, with every event once.
QueueIsSound == InDueOrder /\ NotTwice

\* Every event that goes on by itself is the one its timer knows, so that stop
\* and repeat reach it, however often the timer was started and stopped, and
\* whichever of its events ran in between.
StopReaches == \A e \in Queued \cup OnStack : events[e].continuous => event[events[e].timer] = e

\* The event that a timer knows is one that will run or is running: start,
\* which does nothing when there is one, never leaves a timer dead.
KnownIsLive == \A t \in Timer : event[t] # None => event[t] \in Queued \cup OnStack

\* The field event of a timer and the queue of the dispatcher agree both ways.
KnowsItsEvent == StopReaches /\ KnownIsLive

\* Each start that made an event for a timer that does not repeat is good for one run.
OneRunEach == \A e \in DOMAIN events : events[e].timer \in Single => events[e].runs = (IF e \in Queued THEN 0 ELSE 1)

\* A timer that has been started once always has an interpreter to run in.
CrashNeedsRestart ==
    crashed = "callback" => \E i, j \in DOMAIN events : i # j /\ events[i].timer = events[j].timer

\* A start is good for its run: one of its own, and with an interpreter if it was the only one.
StartIsGood == OneRunEach /\ CrashNeedsRestart

\* What is in the queue is run, whatever periods the other timers have.
DueRuns == \A e \in 1..MaxOps : e \in Queued ~> (e \notin Queued \/ ~Running)

\* A timer that repeats and is not stopped runs again and again.
KeepsRunning ==
    \A t \in Timer : <>[](event[t] # None /\ repeat[t]) => ([]<>(event[t] \in OnStack) \/ <>~Running)

\* An event that is queued runs, and a timer that is not stopped goes on running
\* (dispatchEvents, the rearming of repeating events).
TimersRun == DueRuns /\ KeepsRunning
=============================================================================
