------------------------------ MODULE EjsWorker ------------------------------
(***************************************************************************)
(* Worker threads of the virtual machine: src/core/src/ejsWorker.c.         *)
(*                                                                          *)
(* A script makes Worker objects.  Each is a pair: the "outside" object, in *)
(* the interpreter of the script that made it, and the "inside" object, in  *)
(* an interpreter of its own.  Every interpreter has a dispatcher, which is *)
(* a queue of events run one at a time: those of the outside interpreter by *)
(* the main thread, and only while the script is in a call that waits       *)
(* (join, eval, load, waitForMessage, App.run, App.sleep), for the main     *)
(* thread owns that dispatcher as long as the program runs; those of an     *)
(* inside interpreter by a thread of the runtime's pool.                    *)
(*                                                                          *)
(* The scripts are the environment: the outside script and its callbacks    *)
(* make any of the calls of the behavior's program, and so does an inside   *)
(* script.  What a native method does between two points another thread can *)
(* observe is one step.                                                     *)
(***************************************************************************)
EXTENDS Naturals, Sequences, FiniteSets

CONSTANTS
    Worker,         \* the pairs of outside and inside Worker objects
    Script,         \* what can be loaded or evaluated
    NoScript,       \* a null scriptFile or scriptLiteral
    Programs,       \* what the scripts of a behavior may do, see ProgramAssumption
    MaxPost,        \* bound on the messages posted in one direction of a pair
    MaxFrames       \* bound on the native calls nested on the main thread

ASSUME ScriptAssumption == NoScript \notin Script
\* compiler   it is a program with the compiler (ejs) or not (ejsrun)
\* makes      the workers its outside script may make
\* out, in    the calls the outside script makes, and the inside scripts
ASSUME ProgramAssumption ==
    \A p \in Programs :
        /\ DOMAIN p = {"compiler", "makes", "out", "in"}
        /\ p.compiler \in BOOLEAN /\ p.makes \subseteq Worker
ASSUME BoundAssumption == MaxPost \in Nat /\ MaxFrames \in Nat

\* worker->state, ejs.h; Absent is a Worker that no script has made yet
Absent   == 0
BEGIN    == 1
STARTED  == 2
CLOSED   == 3
COMPLETE == 4

\* The calls that run events, each a loop around mprWaitForEvent
WaitCalls == {"join", "start", "wait", "run", "sleep"}
Callbacks == {"message", "error", "close"}

\* timeout argument: never expires, may expire, or a negative number that is
\* handed to mprWaitForEvent as it stands
Timeouts == {"none", "finite", "negative"}

\* A doMessage that waits for the outside interpreter; messages are numbered
Event == [k : Callbacks, w : Worker, n : Nat]

\* A native call that is active on the main thread.
\*   on     the workers it is about        all     join(null)
\*   got    mprWaitForEvent has run an event since the loop was last tested
\*   nested a join made by a callback of this call has returned
Frame == [k : WaitCalls \cup Callbacks \cup {"preload", "script"}, on : SUBSET Worker,
          all : BOOLEAN, tmo : Timeouts, got : BOOLEAN, nested : BOOLEAN]

\* What a call that has returned told the script that made it
Outcome == [frame : Frame, ok : BOOLEAN, exc : BOOLEAN]

NewFrame(k, on, all, tmo) ==
    [k |-> k, on |-> on, all |-> all, tmo |-> tmo, got |-> FALSE, nested |-> FALSE]

NoCall   == NewFrame("script", {}, FALSE, "none")
NoReturn == [frame |-> NoCall, ok |-> FALSE, exc |-> FALSE]

VARIABLES
    \* the outside Worker objects
    state,      \* worker->state
    linked,     \* worker->pair and worker->pair->ejs are not null
    file,       \* worker->scriptFile
    literal,    \* worker->scriptLiteral
    gotMessage, \* worker->gotMessage
    program,    \* the one of Programs that runs
    \* the outside interpreter
    alive,      \* it has not been destroyed
    workers,    \* ejs->workers
    joining,    \* ejs->joining
    exception,  \* ejs->exception is set
    stack,      \* native calls and callbacks active on the main thread
    queue,      \* events of ejs->dispatcher
    \* the inside Worker objects and their interpreters
    istate,     \* worker->state
    igot,       \* worker->gotMessage
    iexception, \* ejs->exception is set
    iqueue,     \* events of ejs->dispatcher
    ipc,        \* where the thread of the inside dispatcher is
    icallback,  \* an onmessage callback runs on top of ipc
    iexiting,   \* ejs->exiting
    iattention, \* so is frame->attentionPc of the running frame: its next opcode
                \* abandons the script
    iwakes,     \* returns of mprWaitForEvent that are due: 1 as the condition of the
                \* dispatcher is triggered, 2 as it has just run events as well
    iheard,     \* a wait has been tested since the worker was told to exit
    \* what the properties look back at
    asked,      \* the script of the call that started the worker
    ran,        \* the script workerMain ran
    sent,       \* messages posted by the inside script
    received,   \* the number of the last of them doMessage has taken
    posted,     \* messages posted to the inside script
    skipped,    \* handlers not called as an exception was pending
    returned,   \* the call that has just returned to the outside script
    crashed     \* a null pointer has been dereferenced

outVars  == <<state, linked, file, literal, gotMessage, program>>
ejsVars  == <<alive, workers, joining, exception, stack, queue>>
exitVars == <<iexiting, iattention, iwakes, iheard>>
inVars   == <<istate, igot, iexception, iqueue, ipc, icallback, exitVars>>
histVars == <<asked, ran, sent, received, posted, skipped, returned, crashed>>
vars     == <<outVars, ejsVars, inVars, histVars>>

WaitPoints == {"run", "sleep", "wait"}
InPoints   == {"idle", "script", "ended", "closed"} \cup WaitPoints

OutTypeOK ==
    /\ state \in [Worker -> 0..4]
    /\ linked \in [Worker -> BOOLEAN]
    /\ file \in [Worker -> Script \cup {NoScript}]
    /\ literal \in [Worker -> Script \cup {NoScript}]
    /\ gotMessage \in [Worker -> BOOLEAN]
    /\ program \in Programs

EjsTypeOK ==
    /\ alive \in BOOLEAN
    /\ workers \subseteq Worker
    /\ joining \in BOOLEAN
    /\ exception \in BOOLEAN
    /\ stack \in Seq(Frame)
    /\ queue \in Seq(Event)

InTypeOK ==
    /\ istate \in [Worker -> 0..4]
    /\ igot \in [Worker -> BOOLEAN]
    /\ iexception \in [Worker -> BOOLEAN]
    /\ iqueue \in [Worker -> Seq({"main", "message"})]
    /\ ipc \in [Worker -> InPoints]
    /\ icallback \in [Worker -> BOOLEAN]
    /\ iexiting \in [Worker -> BOOLEAN]
    /\ iattention \in [Worker -> BOOLEAN]
    /\ iwakes \in [Worker -> 0..2]
    /\ iheard \in [Worker -> BOOLEAN]

HistTypeOK ==
    /\ asked \in [Worker -> Script \cup {NoScript}]
    /\ ran \in [Worker -> Script \cup {NoScript}]
    /\ sent \in [Worker -> Nat]
    /\ received \in [Worker -> Nat]
    /\ posted \in [Worker -> Nat]
    /\ skipped \in [Worker -> SUBSET Callbacks]
    /\ returned \in Outcome
    /\ crashed \in BOOLEAN

TypeOK == OutTypeOK /\ EjsTypeOK /\ InTypeOK /\ HistTypeOK

Init ==
    /\ state = [w \in Worker |-> Absent]
    /\ linked = [w \in Worker |-> FALSE]
    /\ file = [w \in Worker |-> NoScript]
    /\ literal = [w \in Worker |-> NoScript]
    /\ gotMessage = [w \in Worker |-> FALSE]
    /\ program \in Programs
    /\ alive = TRUE
    /\ workers = {}
    /\ joining = FALSE
    /\ exception = FALSE
    /\ stack = <<>>
    /\ queue = <<>>
    /\ istate = [w \in Worker |-> Absent]
    /\ igot = [w \in Worker |-> FALSE]
    /\ iexception = [w \in Worker |-> FALSE]
    /\ iqueue = [w \in Worker |-> <<>>]
    /\ ipc = [w \in Worker |-> "idle"]
    /\ icallback = [w \in Worker |-> FALSE]
    /\ iexiting = [w \in Worker |-> FALSE]
    /\ iattention = [w \in Worker |-> FALSE]
    /\ iwakes = [w \in Worker |-> 0]
    /\ iheard = [w \in Worker |-> FALSE]
    /\ asked = [w \in Worker |-> NoScript]
    /\ ran = [w \in Worker |-> NoScript]
    /\ sent = [w \in Worker |-> 0]
    /\ received = [w \in Worker |-> 0]
    /\ posted = [w \in Worker |-> 0]
    /\ skipped = [w \in Worker |-> {}]
    /\ returned = NoReturn
    /\ crashed = FALSE

-----------------------------------------------------------------------------
(***************************************************************************)
(* The main thread.  The script runs when no native call is active, or when *)
(* the innermost one is a callback.                                         *)
(***************************************************************************)
Top      == IF stack = <<>> THEN NoCall ELSE stack[Len(stack)]
Below    == [i \in 1 .. (Len(stack) - 1) |-> stack[i]]
InWait   == Top.k \in WaitCalls
InScript == Top.k \in Callbacks \cup {"script"}

\* service->loadScriptLiteral is not null, in every interpreter
hasCompiler == program.compiler

\* The script makes the native call c
CanCall(c) ==
    /\ alive /\ ~crashed
    /\ InScript /\ ~exception
    /\ c \in program.out

CanNest == Len(stack) + 2 <= MaxFrames

\* A native method throws into the script that called it
Throw == exception' = TRUE

\* initWorker: the pair is made and, when there is a script, workerMain queued
initWorker(w, s) ==
    /\ w \in program.makes /\ state[w] = Absent
    /\ state' = [state EXCEPT ![w] = IF s = NoScript THEN BEGIN ELSE STARTED]
    /\ linked' = [linked EXCEPT ![w] = TRUE]
    /\ istate' = [istate EXCEPT ![w] = BEGIN]
    /\ workers' = workers \cup {w}
    /\ file' = [file EXCEPT ![w] = s]
    /\ asked' = [asked EXCEPT ![w] = s]
    /\ iqueue' = [iqueue EXCEPT ![w] = IF s = NoScript THEN @ ELSE Append(@, "main")]
    /\ UNCHANGED <<literal, gotMessage, program, alive, joining, exception, stack, queue,
                   igot, iexception, ipc, icallback, exitVars,
                   ran, sent, received, posted, skipped, crashed>>

Construct(w, s) == CanCall("construct") /\ initWorker(w, s) /\ returned' = NoReturn

Fork(w) == CanCall("fork") /\ initWorker(w, NoScript) /\ returned' = NoReturn

\* baseWorker->pair->ejs is read without a test of pair
Clone(b, w) ==
    /\ CanCall("clone")
    /\ state[b] # Absent
    /\ returned' = NoReturn
    /\ \/ linked[b] /\ initWorker(w, NoScript)
       \/ /\ ~linked[b] /\ w \in program.makes /\ state[w] = Absent
          /\ crashed' = TRUE
          /\ UNCHANGED <<outVars, ejsVars, inVars,
                         asked, ran, sent, received, posted, skipped>>

\* Mutant: a worker counts as joined once its script has closed
ReapedWhenClosed(on, all) ==
    IF all THEN \A w \in workers : state[w] >= CLOSED
           ELSE \A w \in on : state[w] >= CLOSED

\* reapJoins
Reaped(on, all) ==
    IF all THEN \A w \in workers : state[w] >= COMPLETE
           ELSE \A w \in on : state[w] >= COMPLETE

\* Every join below the one that returns reads the joining flag it has reset
Nested(s) == [i \in DOMAIN s |-> [s[i] EXCEPT !.nested = TRUE]]

Return(f, ok, below) ==
    /\ returned' = [frame |-> f, ok |-> ok, exc |-> exception]
    /\ stack' = IF f.k \in {"join", "start"} THEN Nested(below) ELSE below

\* join, up to its first mprWaitForEvent
Join(on, all, tmo) ==
    /\ CanCall("join") /\ CanNest
    /\ LET f == NewFrame("join", IF all THEN workers ELSE on, all, tmo)
       IN  IF Reaped(on, all)
           THEN joining' = FALSE /\ Return(f, TRUE, stack)
           ELSE /\ joining' = TRUE
                /\ stack' = Append(stack, f)
                /\ returned' = NoReturn
    /\ UNCHANGED <<outVars, inVars, alive, workers, exception, queue,
                   asked, ran, sent, received, posted, skipped, crashed>>

\* startWorker, called by eval and load when they have stored the script
startWorker(w, s, tmo) ==
    /\ returned' = NoReturn
    /\ \/ /\ state[w] > BEGIN
          /\ Throw
          /\ UNCHANGED <<state, joining, stack, iqueue, asked>>
       \/ /\ state[w] = BEGIN
          /\ state' = [state EXCEPT ![w] = STARTED]
          /\ asked' = [asked EXCEPT ![w] = s]
          /\ iqueue' = [iqueue EXCEPT ![w] = Append(@, "main")]
          /\ \/ tmo = "zero" /\ UNCHANGED <<joining, stack>>
             \/ /\ tmo \in {"none", "finite"} /\ CanNest
                /\ joining' = TRUE
                /\ stack' = Append(stack, NewFrame("start", {w}, FALSE, tmo))
          /\ UNCHANGED exception
    /\ UNCHANGED <<linked, gotMessage, program, alive, workers, queue,
                   istate, igot, iexception, ipc, icallback, exitVars,
                   ran, sent, received, posted, skipped, crashed>>

Load(w, s, tmo) ==
    /\ CanCall("load") /\ state[w] # Absent
    /\ file' = [file EXCEPT ![w] = s]
    /\ startWorker(w, s, tmo)
    /\ UNCHANGED literal

Eval(w, s, tmo) ==
    /\ CanCall("eval") /\ state[w] # Absent
    /\ literal' = [literal EXCEPT ![w] = s]
    /\ startWorker(w, s, tmo)
    /\ UNCHANGED file

\* postMessage on the outside object: doMessage is queued inside
PostMessage(w) ==
    /\ CanCall("post") /\ state[w] # Absent
    /\ posted[w] < MaxPost
    /\ returned' = NoReturn
    /\ \/ /\ state[w] >= CLOSED
          /\ Throw
          /\ UNCHANGED <<iqueue, posted>>
       \/ /\ state[w] < CLOSED
          /\ iqueue' = [iqueue EXCEPT ![w] = Append(@, "message")]
          /\ posted' = [posted EXCEPT ![w] = @ + 1]
          /\ UNCHANGED exception
    /\ UNCHANGED <<outVars, alive, workers, joining, stack, queue,
                   istate, igot, iexception, ipc, icallback, exitVars,
                   asked, ran, sent, received, skipped, crashed>>

\* Mutant: the dispatcher is not signalled
SignalLost(w) == UNCHANGED iwakes

\* mprSignalDispatcher: the condition stays triggered until a wait takes it
Signal(w) == iwakes' = [iwakes EXCEPT ![w] = IF @ = 0 THEN 1 ELSE @]

\* terminate on the outside object: no attention is asked for inside
Terminate(w) ==
    /\ CanCall("terminate") /\ state[w] # Absent
    /\ returned' = NoReturn
    /\ \/ state[w] = BEGIN /\ Throw /\ UNCHANGED <<iexiting, iwakes>>
       \/ state[w] >= COMPLETE /\ UNCHANGED <<exception, iexiting, iwakes>>
       \/ /\ state[w] \in {STARTED, CLOSED}
          /\ iexiting' = [iexiting EXCEPT ![w] = TRUE]
          /\ Signal(w)
          /\ UNCHANGED exception
    /\ UNCHANGED <<outVars, alive, workers, joining, stack, queue,
                   istate, igot, iexception, iqueue, ipc, icallback, iattention, iheard,
                   asked, ran, sent, received, posted, skipped, crashed>>

\* waitForMessage, App.run and App.sleep, up to their first mprWaitForEvent
WaitForMessage(w, tmo) ==
    /\ CanCall("wait") /\ CanNest /\ state[w] # Absent
    /\ gotMessage' = [gotMessage EXCEPT ![w] = FALSE]
    /\ stack' = Append(stack, NewFrame("wait", {w}, FALSE, tmo))
    /\ returned' = NoReturn
    /\ UNCHANGED <<state, linked, file, literal, program, alive, workers, joining, exception, queue,
                   inVars, asked, ran, sent, received, posted, skipped, crashed>>

Serve(c, tmo) ==
    /\ c \in {"run", "sleep"} /\ CanCall(c) /\ CanNest
    /\ stack' = Append(stack, NewFrame(c, {}, FALSE, tmo))
    /\ returned' = NoReturn
    /\ UNCHANGED <<outVars, alive, workers, joining, exception, queue,
                   inVars, asked, ran, sent, received, posted, skipped, crashed>>

\* preload and preeval: the script runs inside, on the main thread.  The model
\* bounds the errors a failing preload queues: one per worker at a time.
ErrorQueued(w) == \E i \in DOMAIN queue : queue[i].k = "error" /\ queue[i].w = w

Preload(w) ==
    /\ CanCall("preload") /\ state[w] # Absent /\ ~ErrorQueued(w)
    /\ returned' = NoReturn
    /\ \/ state[w] > BEGIN /\ Throw /\ UNCHANGED stack
       \/ /\ state[w] = BEGIN /\ CanNest
          /\ stack' = Append(stack, NewFrame("preload", {w}, FALSE, "none"))
          /\ UNCHANGED exception
    /\ UNCHANGED <<outVars, alive, workers, joining, queue,
                   inVars, asked, ran, sent, received, posted, skipped, crashed>>

InPreload(w) == alive /\ ~crashed /\ Top.k = "preload" /\ w \in Top.on

\* Mutant: an event is queued before those that are due at the same time
PostOutFirst(k, w, n) == queue' = <<[k |-> k, w |-> w, n |-> n]>> \o queue

\* mprCreateEvent on the dispatcher of the outside interpreter
PostOut(k, w, n) == queue' = Append(queue, [k |-> k, w |-> w, n |-> n])

\* the preloaded script calls postMessage
PreloadPost(w) ==
    /\ InPreload(w) /\ ~iexception[w]
    /\ sent[w] < MaxPost
    /\ sent' = [sent EXCEPT ![w] = @ + 1]
    /\ PostOut("message", w, sent'[w])
    /\ UNCHANGED <<outVars, alive, workers, joining, exception, stack, inVars,
                   asked, ran, received, posted, skipped, returned, crashed>>

\* it returns; an exception is thrown outside and queued for onerror as well,
\* and it stays set in the inside interpreter (handleError)
PreloadReturn(w, throws) ==
    /\ InPreload(w)
    /\ iexception' = [iexception EXCEPT ![w] = @ \/ throws]
    /\ stack' = Below
    /\ IF iexception'[w] THEN Throw /\ PostOut("error", w, 0)
                         ELSE UNCHANGED <<exception, queue>>
    /\ UNCHANGED <<outVars, alive, workers, joining,
                   istate, igot, iqueue, ipc, icallback, exitVars, histVars>>

\* the outside script catches what a native method or a callback threw
Catch ==
    /\ alive /\ ~crashed /\ InScript /\ exception
    /\ exception' = FALSE
    /\ returned' = NoReturn
    /\ UNCHANGED <<outVars, alive, workers, joining, stack, queue, inVars,
                   asked, ran, sent, received, posted, skipped, crashed>>

\* Mutant: the pair is left linked
removeWorkerOnly(w) ==
    /\ workers' = workers \ {w}
    /\ UNCHANGED linked

\* removeWorker
removeWorker(w) ==
    /\ workers' = workers \ {w}
    /\ linked' = [linked EXCEPT ![w] = FALSE]

\* Mutants: a worker completes when it fails; the state is counted up
FinishMessageOnError(ev) ==
    IF ev.k \in {"close", "error"}
    THEN state' = [state EXCEPT ![ev.w] = COMPLETE] /\ removeWorker(ev.w)
    ELSE UNCHANGED <<state, workers, linked>>

FinishMessageCountUp(ev) ==
    IF ev.k = "close"
    THEN state' = [state EXCEPT ![ev.w] = @ + 2] /\ removeWorker(ev.w)
    ELSE UNCHANGED <<state, workers, linked>>

\* The end of doMessage, when there is no callback or it has returned
FinishMessage(ev) ==
    IF ev.k = "close"
    THEN state' = [state EXCEPT ![ev.w] = COMPLETE] /\ removeWorker(ev.w)
    ELSE UNCHANGED <<state, workers, linked>>

\* dispatchEvents takes the next event and doMessage runs up to its callback.
\* With no onerror handler the error is thrown into the outside interpreter.
Dispatch(handler) ==
    /\ alive /\ ~crashed /\ InWait /\ queue # <<>>
    /\ LET ev    == Head(queue)
           calls == handler /\ ~exception
           pumped == [stack EXCEPT ![Len(stack)].got = TRUE]
       IN  /\ queue' = Tail(queue)
           /\ gotMessage' = [gotMessage EXCEPT ![ev.w] = TRUE]
           /\ received' = [received EXCEPT ![ev.w] = IF ev.k = "message" THEN ev.n ELSE @]
           /\ skipped' = [skipped EXCEPT ![ev.w] = @ \cup IF handler /\ exception THEN {ev.k} ELSE {}]
           /\ IF calls
              THEN /\ stack' = Append(pumped, NewFrame(ev.k, {ev.w}, FALSE, "none"))
                   /\ UNCHANGED <<state, workers, linked>>
              ELSE /\ stack' = pumped
                   /\ FinishMessage(ev)
           /\ exception' = (exception \/ (ev.k = "error" /\ ~handler))
    /\ returned' = NoReturn
    /\ UNCHANGED <<file, literal, program, alive, joining, inVars, asked, ran, sent, posted, crashed>>

\* A callback returns, or ends with an exception it throws or does not catch
CallbackReturn(throws) ==
    /\ alive /\ ~crashed /\ Top.k \in Callbacks
    /\ exception' = (exception \/ throws)
    /\ stack' = Below
    /\ \E w \in Top.on : FinishMessage([k |-> Top.k, w |-> w, n |-> 0])
    /\ returned' = NoReturn
    /\ UNCHANGED <<file, literal, gotMessage, program, alive, joining, queue, inVars,
                   asked, ran, sent, received, posted, skipped, crashed>>

\* Mutant: join waits once
LoopOverOnce(f, expired) ==
    \/ expired
    \/ exception /\ f.k # "sleep"
    \/ f.k = "wait" /\ \A w \in f.on : gotMessage[w]
    \/ f.k = "join"

\* The loop conditions of join, waitForMessage, App.run and App.sleep
LoopOver(f, expired) ==
    \/ expired
    \/ exception /\ f.k # "sleep"
    \/ f.k = "wait" /\ \A w \in f.on : gotMessage[w]

\* mprWaitForEvent has returned: its batch of events is over, or the time is.
\* A negative timeout leaves no remaining time once an event has been run.
\* A join that ends reports the flag as it is, or 0 when there is an exception;
\* one that goes on computes it anew.
LoopTest(timesOut) ==
    /\ alive /\ ~crashed /\ InWait /\ queue = <<>>
    /\ \/ Top.got /\ (timesOut <=> Top.tmo = "negative")
       \/ timesOut /\ Top.tmo = "finite"
    /\ LET again == [stack EXCEPT ![Len(stack)].got = FALSE]
       IN  IF Top.k \in {"join", "start"}
           THEN \/ /\ LoopOver(Top, timesOut)
                   /\ joining' = (joining /\ exception)
                   /\ Return(Top, exception \/ ~joining, Below)
                \/ /\ ~LoopOver(Top, timesOut)
                   /\ joining' = ~Reaped(Top.on, Top.all)
                   /\ IF joining' THEN stack' = again /\ returned' = NoReturn
                                  ELSE Return(Top, TRUE, Below)
           ELSE /\ UNCHANGED joining
                /\ IF LoopOver(Top, timesOut)
                   THEN Return(Top, TRUE, Below)
                   ELSE stack' = again /\ returned' = NoReturn
    /\ gotMessage' = [w \in Worker |-> gotMessage[w] /\ ~(Top.k = "wait" /\ w \in Top.on)]
    /\ UNCHANGED <<state, linked, file, literal, program, alive, workers, exception, queue, inVars,
                   asked, ran, sent, received, posted, skipped, crashed>>

\* The program ends: ejsDestroyVM removes the workers and disables the
\* dispatcher, which drops its events
DestroyVM ==
    /\ alive /\ ~crashed /\ stack = <<>> /\ "destroy" \in program.out
    /\ alive' = FALSE
    /\ workers' = {}
    /\ queue' = <<>>
    /\ returned' = NoReturn
    /\ UNCHANGED <<outVars, joining, exception, stack, inVars,
                   asked, ran, sent, received, posted, skipped, crashed>>

-----------------------------------------------------------------------------
(***************************************************************************)
(* The thread of an inside dispatcher.                                      *)
(***************************************************************************)
InsideScript(w) == ~crashed /\ (icallback[w] \/ ipc[w] = "script")

\* The script that runs makes the native call c.  A native method returns to the
\* next opcode, whatever ejs->exiting is, unless attention was asked for.
CanCallInside(c, w) ==
    /\ InsideScript(w) /\ ~iexception[w] /\ ~iattention[w]
    /\ c \in program.in

\* workerMain begins.  It keeps outsideWorker->ejs, which is null once the
\* outside interpreter is destroyed, and reads it with no test.  With no
\* compiler a file fails inside; a literal makes workerMain throw outside and
\* return at once.
InsideMain(w) ==
    /\ ~crashed /\ ipc[w] = "idle" /\ ~icallback[w]
    /\ iqueue[w] # <<>> /\ Head(iqueue[w]) = "main"
    /\ iqueue' = [iqueue EXCEPT ![w] = Tail(@)]
    /\ istate' = [istate EXCEPT ![w] = STARTED]
    /\ \/ /\ ~alive
          /\ crashed' = TRUE
          /\ UNCHANGED <<exception, iexception, ipc, ran>>
       \/ /\ alive /\ (hasCompiler \/ file[w] # NoScript)
          /\ iexception' = [iexception EXCEPT ![w] = @ \/ ~hasCompiler]
          /\ ipc' = [ipc EXCEPT ![w] = IF iexception'[w] THEN "ended" ELSE "script"]
          /\ ran' = [ran EXCEPT ![w] = IF file[w] # NoScript THEN file[w] ELSE literal[w]]
          /\ UNCHANGED <<exception, crashed>>
       \/ /\ alive /\ ~hasCompiler /\ file[w] = NoScript
          /\ Throw
          /\ UNCHANGED <<iexception, ipc, ran, crashed>>
    /\ UNCHANGED <<outVars, alive, workers, joining, stack, queue,
                   igot, icallback, exitVars,
                   asked, sent, received, posted, skipped, returned>>

\* postMessage on the inside object
InsidePost(w) ==
    /\ CanCallInside("post", w) /\ sent[w] < MaxPost
    /\ \/ /\ istate[w] >= CLOSED
          /\ iexception' = [iexception EXCEPT ![w] = TRUE]
          /\ UNCHANGED <<sent, queue, crashed>>
       \/ /\ istate[w] < CLOSED /\ alive
          /\ sent' = [sent EXCEPT ![w] = @ + 1]
          /\ PostOut("message", w, sent'[w])
          /\ UNCHANGED <<iexception, crashed>>
       \/ /\ istate[w] < CLOSED /\ ~alive
          /\ crashed' = TRUE
          /\ UNCHANGED <<sent, queue, iexception>>
    /\ UNCHANGED <<outVars, alive, workers, joining, exception, stack,
                   istate, igot, iqueue, ipc, icallback, exitVars,
                   asked, ran, received, posted, skipped, returned>>

\* exit(): the frame that calls it is abandoned at its next opcode
InsideExit(w) ==
    /\ CanCallInside("exit", w)
    /\ iexiting' = [iexiting EXCEPT ![w] = TRUE]
    /\ iattention' = [iattention EXCEPT ![w] = TRUE]
    /\ UNCHANGED <<outVars, ejsVars, istate, igot, iexception, iqueue, ipc, icallback,
                   iwakes, iheard, histVars>>

\* self.terminate(): the script that calls it goes on
InsideTerminate(w) ==
    /\ CanCallInside("terminate", w)
    /\ \/ /\ istate[w] = BEGIN
          /\ iexception' = [iexception EXCEPT ![w] = TRUE]
          /\ UNCHANGED <<iexiting, iwakes>>
       \/ /\ istate[w] # BEGIN
          /\ iexiting' = [iexiting EXCEPT ![w] = TRUE]
          /\ Signal(w)
          /\ UNCHANGED iexception
    /\ UNCHANGED <<outVars, ejsVars, istate, igot, iqueue, ipc, icallback,
                   iattention, iheard, histVars>>

\* App.run, App.sleep and self.waitForMessage (an onmessage callback of an
\* inside script does not wait, in the model)
InsideWait(c, w) ==
    /\ CanCallInside(c, w) /\ c \in WaitPoints /\ ~icallback[w]
    /\ ipc' = [ipc EXCEPT ![w] = c]
    /\ igot' = [igot EXCEPT ![w] = IF c = "wait" THEN FALSE ELSE @]
    /\ UNCHANGED <<outVars, ejsVars, istate, iexception, iqueue, icallback, exitVars, histVars>>

InsideThrow(w) ==
    /\ CanCallInside("throw", w)
    /\ iexception' = [iexception EXCEPT ![w] = TRUE]
    /\ UNCHANGED <<outVars, ejsVars, istate, igot, iqueue, ipc, icallback, exitVars, histVars>>

\* EJS_OP_ATTENTION finds the handler, and then looks at exiting before the
\* handler runs
InsideCatch(w) ==
    /\ InsideScript(w) /\ iexception[w] /\ "catch" \in program.in
    /\ iexception' = [iexception EXCEPT ![w] = FALSE]
    /\ iattention' = [iattention EXCEPT ![w] = iexiting[w]]
    /\ UNCHANGED <<outVars, ejsVars, istate, igot, iqueue, ipc, icallback,
                   iexiting, iwakes, iheard, histVars>>

\* The end of doMessage: it signals the dispatcher of the thread that runs it,
\* whose mprWaitForEvent is to return for the event it has run, too
MessageDone(w) == iwakes' = [iwakes EXCEPT ![w] = IF ipc[w] \in WaitPoints THEN 2 ELSE 1]

\* doMessage for a message posted from outside; removeWorker has set
\* worker->ejs to null when the pair is no longer linked.  ejsRunFunction clears
\* the attention before it runs the callback.
InsideDispatch(w, handler) ==
    /\ ~crashed /\ ipc[w] \in WaitPoints \cup {"idle"} /\ ~icallback[w]
    /\ iqueue[w] # <<>> /\ Head(iqueue[w]) = "message"
    /\ iqueue' = [iqueue EXCEPT ![w] = Tail(@)]
    /\ igot' = [igot EXCEPT ![w] = TRUE]
    /\ \/ /\ linked[w] /\ handler /\ ~iexception[w]
          /\ icallback' = [icallback EXCEPT ![w] = TRUE]
          /\ iattention' = [iattention EXCEPT ![w] = FALSE]
          /\ UNCHANGED <<iwakes, crashed>>
       \/ /\ linked[w] /\ ~(handler /\ ~iexception[w])
          /\ MessageDone(w)
          /\ UNCHANGED <<icallback, iattention, crashed>>
       \/ /\ ~linked[w]
          /\ crashed' = TRUE
          /\ UNCHANGED <<icallback, iattention, iwakes>>
    /\ UNCHANGED <<outVars, ejsVars, istate, iexception, ipc, iexiting, iheard,
                   asked, ran, sent, received, posted, skipped, returned>>

\* The callback has run to its end, was abandoned or has not caught an exception.
\* ejsRunFunction asks for the attention of the frame that waits, if any.
InsideCallbackReturn(w) ==
    /\ ~crashed /\ icallback[w]
    /\ icallback' = [icallback EXCEPT ![w] = FALSE]
    /\ iattention' = [iattention EXCEPT ![w] = iexiting[w] /\ ipc[w] \in WaitPoints]
    /\ MessageDone(w)
    /\ UNCHANGED <<outVars, ejsVars, istate, igot, iexception, iqueue, ipc,
                   iexiting, iheard, histVars>>

\* The loop conditions: App.run and App.sleep look at exiting, App.run and
\* waitForMessage at exceptions
InsideLoopOver(w, expired) ==
    \/ expired
    \/ ipc[w] \in {"run", "wait"} /\ iexception[w]
    \/ ipc[w] \in {"run", "sleep"} /\ iexiting[w]
    \/ ipc[w] = "wait" /\ igot[w]

\* mprWaitForEvent has returned in App.run, App.sleep or waitForMessage.  The
\* test comes after the wait: a call made when exiting is set waits as well.
InsideLoopTest(w, timesOut) ==
    /\ ~crashed /\ ipc[w] \in WaitPoints /\ ~icallback[w] /\ iqueue[w] = <<>>
    /\ IF timesOut THEN "timeout" \in program.in ELSE iwakes[w] > 0
    /\ iwakes' = [iwakes EXCEPT ![w] = IF @ = 0 THEN 0 ELSE @ - 1]
    /\ iheard' = [iheard EXCEPT ![w] = @ \/ iexiting[w]]
    /\ ipc' = [ipc EXCEPT ![w] = IF InsideLoopOver(w, timesOut) THEN "script" ELSE @]
    /\ UNCHANGED <<outVars, ejsVars, istate, igot, iexception, iqueue, icallback,
                   iexiting, iattention, histVars>>

\* The script is over: it has run to its end, has not caught an exception, or
\* is abandoned, as attention was asked for or it makes an object of a class
\* with no constructor when exiting is set
InsideFinish(w) ==
    /\ ~crashed /\ ipc[w] = "script" /\ ~icallback[w]
    /\ ipc' = [ipc EXCEPT ![w] = "ended"]
    /\ iattention' = [iattention EXCEPT ![w] = FALSE]
    /\ UNCHANGED <<outVars, ejsVars, istate, igot, iexception, iqueue, icallback,
                   iexiting, iwakes, iheard, histVars>>

\* Mutant: workerMain returns when the script has failed
InsideReportOnly(w) ==
    /\ ~crashed /\ ipc[w] = "ended" /\ iexception[w]
    /\ iexception' = [iexception EXCEPT ![w] = FALSE]
    /\ ipc' = [ipc EXCEPT ![w] = "idle"]
    /\ IF alive THEN PostOut("error", w, 0) ELSE UNCHANGED queue
    /\ UNCHANGED <<outVars, alive, workers, joining, exception, stack,
                   istate, igot, iqueue, icallback, exitVars, histVars>>

\* handleError: an event for onerror, if the outside interpreter takes any
InsideReport(w) ==
    /\ ~crashed /\ ipc[w] = "ended" /\ iexception[w]
    /\ iexception' = [iexception EXCEPT ![w] = FALSE]
    /\ IF alive THEN PostOut("error", w, 0) ELSE UNCHANGED queue
    /\ UNCHANGED <<outVars, alive, workers, joining, exception, stack,
                   istate, igot, iqueue, ipc, icallback, exitVars, histVars>>

InsideClose(w) ==
    /\ ~crashed /\ ipc[w] = "ended" /\ ~iexception[w]
    /\ istate' = [istate EXCEPT ![w] = CLOSED]
    /\ state' = [state EXCEPT ![w] = CLOSED]
    /\ ipc' = [ipc EXCEPT ![w] = "closed"]
    /\ UNCHANGED <<linked, file, literal, gotMessage, program, ejsVars,
                   igot, iexception, iqueue, icallback, exitVars, histVars>>

InsidePostClose(w) ==
    /\ ~crashed /\ ipc[w] = "closed"
    /\ IF alive THEN PostOut("close", w, 0) ELSE UNCHANGED queue
    /\ ipc' = [ipc EXCEPT ![w] = "idle"]
    /\ UNCHANGED <<outVars, alive, workers, joining, exception, stack,
                   istate, igot, iexception, iqueue, icallback, exitVars, histVars>>

-----------------------------------------------------------------------------
MainThread ==
    \/ \E w \in Worker, s \in Script \cup {NoScript} : Construct(w, s)
    \/ \E w \in Worker : Fork(w)
    \/ \E b, w \in Worker : Clone(b, w)
    \/ \E w \in Worker, s \in Script, tmo \in {"zero", "finite", "none"} : Load(w, s, tmo)
    \/ \E w \in Worker, s \in Script, tmo \in {"zero", "finite", "none"} : Eval(w, s, tmo)
    \/ \E w \in Worker : PostMessage(w)
    \/ \E w \in Worker : Terminate(w)
    \/ \E on \in SUBSET {w \in Worker : state[w] # Absent}, all \in BOOLEAN, tmo \in Timeouts :
          Join(on, all, tmo)
    \/ \E w \in Worker, tmo \in {"finite", "none"} : WaitForMessage(w, tmo)
    \/ \E c \in {"run", "sleep"}, tmo \in {"finite", "none"} : Serve(c, tmo)
    \/ \E w \in Worker : Preload(w)
    \/ \E w \in Worker : PreloadPost(w)
    \/ \E w \in Worker, throws \in BOOLEAN : PreloadReturn(w, throws)
    \/ Catch
    \/ \E handler \in BOOLEAN : Dispatch(handler)
    \/ \E throws \in BOOLEAN : CallbackReturn(throws)
    \/ \E timesOut \in BOOLEAN : LoopTest(timesOut)
    \/ DestroyVM

InsideThread(w) ==
    \/ InsideMain(w)
    \/ InsidePost(w)
    \/ InsideExit(w)
    \/ InsideTerminate(w)
    \/ \E c \in WaitPoints : InsideWait(c, w)
    \/ InsideThrow(w)
    \/ InsideCatch(w)
    \/ \E handler \in BOOLEAN : InsideDispatch(w, handler)
    \/ InsideCallbackReturn(w)
    \/ \E timesOut \in BOOLEAN : InsideLoopTest(w, timesOut)
    \/ InsideFinish(w)
    \/ InsideReport(w)
    \/ InsideClose(w)
    \/ InsidePostClose(w)

Next == MainThread \/ \E w \in Worker : InsideThread(w)

Spec == Init /\ [][Next]_vars

(***************************************************************************)
(* Fairness.  The main thread runs the events it waits for and leaves a     *)
(* loop that is over; callbacks return and exceptions are caught.  The pool *)
(* serves an inside dispatcher that has events, and workerMain goes on from *)
(* the end of its script to its last statement.  A script that makes no     *)
(* call ends; nothing makes a wait expire, or a script stop waiting.        *)
(***************************************************************************)
Fairness ==
    /\ WF_vars(\E handler \in BOOLEAN : Dispatch(handler))
    /\ WF_vars(\E timesOut \in BOOLEAN : LoopTest(timesOut) /\ (timesOut => Top.got))
    /\ WF_vars(\E throws \in BOOLEAN : CallbackReturn(throws))
    /\ WF_vars(\E w \in Worker, throws \in BOOLEAN : PreloadReturn(w, throws))
    /\ \A w \in Worker :
          /\ WF_vars(InsideMain(w))
          /\ WF_vars(\E handler \in BOOLEAN : InsideDispatch(w, handler))
          /\ WF_vars(InsideCallbackReturn(w))
          /\ WF_vars(InsideLoopTest(w, FALSE))
          /\ WF_vars(InsideFinish(w))
          /\ WF_vars(InsideReport(w))
          /\ WF_vars(InsideClose(w))
          /\ WF_vars(InsidePostClose(w))

FairSpec == Spec /\ Fairness

-----------------------------------------------------------------------------
(***************************************************************************)
(* Safety.                                                                  *)
(***************************************************************************)
Live(w) == state[w] \in {BEGIN, STARTED, CLOSED}

\* doMessage reads worker->ejs, handleError and the throw for a missing
\* onerror handler read worker->pair->ejs, none with a test: an event waiting
\* for the outside interpreter is about a worker that removeWorker has not
\* unlinked, however the callbacks that run before it nest (lines 468, 510).
QueuedEventsAreLinked == \A i \in DOMAIN queue : linked[queue[i].w] /\ Live(queue[i].w)

\* The finalization message is the last a worker sends: nothing follows it on
\* the dispatcher, so it is not overtaken (workerMain posts it at line 713).
CloseIsLast ==
    \A i, j \in DOMAIN queue :
        (i < j /\ queue[i].k = "close") => queue[i].w # queue[j].w

\* When a worker completes, every message its script posted has been taken
\* from the queue, none is dropped with the worker (doMessage, line 525).
CompleteHasAllMessages == \A w \in Worker : state[w] = COMPLETE => received[w] = sent[w]

\* ejs->workers, which join(null) and lookup search, and the links between
\* the pairs agree with the states: terminate() may follow worker->pair->ejs
\* in every state it does so (line 733), although threads write the states.
ListAndLinksAgree ==
    /\ alive => workers = {w \in Worker : Live(w)}
    /\ \A w \in Worker : linked[w] <=> Live(w)

\* A join that succeeds, and with it eval and load, means that its workers are
\* complete and their messages were taken, provided no callback made a join
\* and none threw while it waited (join, lines 352 to 373).
JoinMeansComplete ==
    LET f == returned.frame
    IN  (f.k \in {"join", "start"} /\ returned.ok /\ ~returned.exc /\ ~f.nested)
            => \A w \in f.on : state[w] = COMPLETE /\ received[w] = sent[w]

\* Without a timeout a join does not report that it timed out, whichever joins
\* its callbacks make (they reset the flag it reads at line 369).
NoTimeoutNoFailure ==
    (returned.frame.k \in {"join", "start"} /\ ~returned.ok) => returned.frame.tmo # "none"

\* The state of an outside worker never goes back: workerMain sets CLOSED from
\* its thread before it posts onclose, whose doMessage sets COMPLETE on the
\* main thread (lines 711 to 713 and 525).
StateNeverGoesBack == [][\A w \in Worker : state'[w] >= state[w]]_vars

\* The contract a script relies on.
PhaseOf(n) == CASE n = Absent -> "absent" [] n = BEGIN -> "made" [] n = STARTED -> "started"
                [] n = CLOSED -> "closed" [] n = COMPLETE -> "complete"
Contract == INSTANCE WorkerContract
                WITH up <- alive, phase <- [w \in Worker |-> PhaseOf(state[w])]

\* Workers keep the contract: messages are taken in full before a worker is
\* complete, and no message is posted by a worker that has closed.
KeepsContract == Contract!Spec

(***************************************************************************)
(* Liveness, under FairSpec.                                                *)
(***************************************************************************)
\* A join with no timeout returns once its workers have been started, as their
\* scripts end: no event or flag is lost between the threads (join and
\* workerMain; a join of all waits for a worker made in the meantime as well).
JoinReturns ==
    (/\ Len(stack) = 1 /\ stack[1].k \in {"join", "start"} /\ stack[1].tmo = "none"
     /\ \A w \in stack[1].on : state[w] >= STARTED)
        ~> (stack = <<>> \/ (stack[1].all /\ \E w \in workers : state[w] = BEGIN))

\* A worker that is told to exit leaves the App.run or App.sleep it is in, or
\* makes next: the signal is not lost, whether it is given before the wait,
\* during it or while a callback runs (workerTerminate line 736, mprWaitForEvent,
\* the loops of app_run and app_sleep).  Only the first wait is promised.
WakesWhenTold(w) ==
    (iexiting[w] /\ ~iheard[w] /\ ipc[w] \in {"run", "sleep"})
        ~> (ipc[w] \notin {"run", "sleep"} \/ crashed)

(***************************************************************************)
(* What the documentation, the comments and the assertions of the code say, *)
(* and the code does not do.                                                *)
(***************************************************************************)
\* ejs.h:3709, of EJS_WORKER_COMPLETE: "Worker state when completed all
\* messages".  A message posted to the worker can still be queued inside.
CompletedAllMessages == \A w \in Worker : state[w] = COMPLETE => iqueue[w] = <<>>

\* Worker.es:144, of terminate(): "Terminate the worker".  The script goes on
\* when its wait returns, and its next App.run or App.sleep waits before it looks
\* at exiting, with no signal left to end it (under FairSpec).
TerminateCloses ==
    \A w \in Worker :
        (iexiting[w] /\ ipc[w] \in {"run", "sleep"}) ~> (istate[w] = CLOSED \/ crashed)

\* ejsInterp.c:2666, ejsRunFunction: assert(ejs->exception == 0).  The batch
\* of dispatchEvents goes on when a callback has thrown.
CallbacksRunWithoutException == \A w \in Worker : skipped[w] = {}

\* Worker.es, Worker(): "If supplied, then a new Worker instance will invoke
\* load() to execute the script".  A later load(), though it throws, replaces it.
RunsTheScriptAskedFor ==
    \A w \in Worker : ran[w] # NoScript => ran[w] = asked[w]
=============================================================================
