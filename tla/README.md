# Ejscript: a TLA+ verification project

Ejscript (version 2) is an implementation of JavaScript with classes, workers
and a web framework: a compiler to bytecode, an interpreter, a core library and
packages above it, on a portable runtime (MPR) that gives it threads,
dispatchers of events, locks and a garbage collector.

This directory models two sides of it. One is the parts in which several actors
meet: worker threads, the cache that interpreters share, timers, and the
emitters whose observers call each other. The other is the core of the language:
what the compiler makes of expressions and of functions with try statements and
what the interpreter does with it, the objects that hold properties, arrays, byte
arrays as streams, and the classes and module files through which programs are put together.
The models are translated from the C and Ejscript source; `PROJECT.json` gives
for every definition the lines it stands for. Source paths below are relative to
`src/src/`.

## 1. Inventory

| component | state | operations | what is hard | what makes it correct |
|---|---|---|---|---|
| **Worker threads** `core/src/ejsWorker.c`, `core/Worker.es` | a pair of objects per worker (`state`, `pair`, `ejs`, `gotMessage`, scripts), the list `ejs->workers`, the flag `ejs->joining`, one dispatcher per interpreter | constructor, clone, fork, load, eval, preload, preeval, postMessage, join, terminate, exit, waitForMessage; workerMain, doMessage, handleError, removeWorker | two threads write one pair; every wait serves events whose callbacks wait again; a worker may end, fail or be left while its owner does anything | messages arrive once and in order before the worker completes; onclose is last; a join tells the truth and returns; no event is about a worker that is unlinked |
| **Local cache** `core/src/ejsLocalCache.c`, `core/LocalCache.es`, `core/Cache.es` | the singleton `shared`; per cache a hash of items (data, expiry, lifespan, version), `usedMem`, limits, a lock, a timer | construct, clone, destroy, setLimits, read, write (set, add, append, prepend; conditional on a version), inc, expire, remove, the pruner | interpreters of several threads, a timer on another, state outside the lock, the collector | no lost update under a conditional write; the memory count covers what is stored; items have a timer and go when they are due; limits are enforced; callers are not blocked |
| **Timers** `core/src/ejsTimer.c`, `core/Timer.es` | the event and its place in the queue, the period, repeat, the interpreter | start, stop, restart, set repeat and period, the callback, onerror, collection | stop of an event that is queued, due or running; restart from the callback; a callback that throws or serves events | what is queued runs in order, once for a start and again while it repeats; stop reaches the event that goes on |
| **Emitter** `core/Emitter.es` | observers per event name, each active or not, pending fires | on, off, fire, clear | callbacks that fire, add and remove in turn | no observer is entered twice; one that nobody removed is called once for each event, no more and no less; none that was removed is called |
| **Promise** `core/Promise.es` | complete, a timer, observers | emit*, cancel, timeout, wait | an answer that races the timeout or a cancel | one outcome |
| **Expressions** `compiler/ecParser.c`, `compiler/ecCodeGen.c`, `vm/ejsInterp.c` | tokens and the tree; state of the generator (whether a value or a place is wanted, what is on the stack); the evaluation stack | parse by precedence, generate, interpret | who leaves a value and who takes it, in every context of every operator; order of effects | the caller's operands are left alone, effects come in the order of the language, values are right |
| **try, loops and blocks** the same files | jump lists and handlers of a function; frames, the chain of blocks, the pending exception | generate, throw, find the handler, finally, return, break, continue | exits of every kind through try, catch and finally, nested in loops and blocks and across calls | a program does what the language means; blocks are opened and closed in pairs; nothing stays pending |
| **Objects** `core/src/ejsPot.c`, `vm/ejsHelper.c`, `vm/ejsScope.c` | slots, names with namespaces, hash buckets and chains | look up, store, delete, define, freeze, seal, sort, grow, clone | chains through slots that move, are deleted and are outgrown | an object is a map; every property is found; chains end |
| **Arrays** `core/src/ejsArray.c`, `core/Array.es` | `data`, its size, `length` | all methods of Array, iteration, sort | functions called in the middle of a loop or sort that change the array; lengths and blocks that disagree | an array is a list; nothing beyond its block is touched; loops miss nothing; sort keeps what it sorts |
| **Pool of interpreters** `vm/ejsService.c` | list of idle interpreters, count, maximum, template | allocate, free | threads of the web server allocate together | never more than the maximum; an interpreter has one user |
| **Interpreter, the rest** `vm/ejsInterp.c`, `ejsException.c`, `ejsScope.c` | frames, attention and exit flags | slot-bound opcodes, definitions, attention | callbacks run with an exception pending; exit is seen at some instructions only | exceptions reach a handler or are reported |
| **App** `core/src/ejsApp.c` | none of its own | run, sleep | loops around the dispatcher with different ends | both end when told to exit |
| **Loader and classes** `vm/ejsLoader.c`, `ejsModule.c`, `core/src/ejsType.c`, `compiler/ecModuleWrite.c` | the list of modules, each with its checksum, forward references and initializer; classes with inherited and own slots | write, load, reload, resolve, run initializers | initializers that load modules; files compiled again; a load that fails half way; classes that come before their base class | what a module requires has run before it does; classes are laid out as the compiler had them |
| **Compiler, the rest** `compiler/*` | scopes, types, slots | declarations, directives, binding, writing of modules | what is bound early must be what is found late | language semantics |
| **Byte arrays** `core/src/ejsByteArray.c` | a block, a read and a write position, observers | read, write, flush, close, reset, compact | observers of "readable" and "writable" that read and write in the middle of a write or a read | bytes come out once and in the order they went in; nothing beyond the block is touched |
| **Other data types** `core/src/ejsString.c`, `ejsNumber.c`, ... | values; the intern table is shared by interpreters | methods | the intern table under its lock | one string per text |
| **Files, commands, sockets, HTTP, WebSocket** `core/src/ejs{File,Cmd,Socket,Http,WebSocket}.c` | handles, buffers, modes | open, read, write, events | callbacks while a script waits; retries | events in order, none after close |
| **Web framework** `jems/ejs.web` | requests, sessions, routes | serve, session get/set | requests on several interpreters, sessions in the shared cache | a request has one interpreter; session updates |
| **Packages** `jems/ejs.{db,mvc,jem,utest,...}` | scripts | | sequential | |
| **Programs** `cmd/*` | command lines | | the shell destroys its interpreter while workers run | |
| **Bundled code** `deps/*` | MPR, http, pcre, sqlite, zlib, est | | MPR's dispatchers are what workers, timers and HTTP stand on | |

How they interact. A script is parsed, bound and compiled into a module of
functions in bytecode, which the loader links and the interpreter runs; what it
works on are objects (pots) whose properties it looks up by name or slot, and
built-in types such as arrays with native methods, which call functions of the
script back in the middle of their work. A script runs in an interpreter, on one
thread. Everything asynchronous comes to it as an event of its dispatcher, and
only while it is in a call that waits; the callback runs on top of that call and
may wait again. Timers and emitters are such callbacks within one interpreter. A
worker is a second interpreter with a dispatcher of its own that a thread of the
pool serves. The two sides call each other only by events, but they share the
pair of Worker objects and write them without a lock. The local cache is plain
memory shared by all interpreters of the process, used by the application, by
web sessions and by controllers. The web server takes an interpreter of the pool
for a connection.

The hazards this leads to are listed, each at its line and with the properties
about it, in `PROJECT.json` under "hazards".

## 2. Modules

| module | what it is |
|---|---|
| `EjsWorker` | workers: the main thread with its stack of nested calls, and the thread of every inside interpreter |
| `WorkerContract` | abstract: what a script may rely on of its workers |
| `EjsWorkerProofs` | type correctness of `EjsWorker`, its inductive invariant and safety properties, and that it implements `WorkerContract` |
| `LocalCache` | the cache, its users and its pruner |
| `LocalCacheProofs` | conditional writes and timers of `LocalCache` |
| `EjsTimer` | timers over the dispatcher's queue, with loops that nest |
| `EjsTimerProofs` | the queue of `EjsTimer` and the events its timers know |
| `EjsEmitter` | an emitter, its observers and the fires they make in turn |
| `EjsEmitterProofs` | who is active in `EjsEmitter`, and how often observers are called |
| `EcParser` | the parser of expressions: tokens to tree |
| `EcExpressions` | the code generator for that tree |
| `EjsEval` | the interpreter of that code, with its evaluation stack |
| `ExpressionMeaning` | reference: what an expression means, in effects and values |
| `EjsCodeGen` | the code generator for functions with try, loops, blocks and jumps |
| `EjsTry` | the interpreter of that code: frames, handlers, finally, blocks |
| `TryMeaning` | reference: what such a function means |
| `EjsPot` | an object: slots, hash and chains, and every operation on them |
| `PropertyMap` | abstract: a map from qualified names to properties |
| `EjsPotProofs` | the chains of `EjsPot`, and that it implements `PropertyMap` |
| `EjsArray` | an array: its block, its methods, loops and sorts |
| `ArrayMeaning` | reference: what the methods return for a list |
| `EjsArrayProofs` | that loops and sorts stay in the block of `EjsArray`, what loops give and what sorts keep |
| `EjsByteArray` | a byte array as a stream, with observers called in the middle of reads and writes |
| `ByteQueue` | abstract: a queue of bytes |
| `EjsByteArrayProofs` | that `EjsByteArray` implements `ByteQueue`, and what its readers have |
| `EjsType` | classes: their slots and how they take over those of others |
| `EcModuleWrite` | what the compiler writes into the file of a module: the layout of its classes and its sections |
| `EjsLoader` | the loader of those files, with modules that require and load each other and are compiled again |
| `EjsLoaderProofs` | the list of modules of `EjsLoader`: what has run, how often, and what it finds |
| `MC*` | values of constants and, for `MCFunctions`, `MCStatements` and `MCEjsLoader`, the functions, statements and sources of modules |
| `MCPrograms`, `MCContainers` | a function with try, a statement or a byte array in one run, an object or a cache in another |

How they compose. `EjsEval` extends `EcExpressions`, which extends `EcParser`:
a run writes an expression down, parses the tokens, generates code and
interprets it, and compares with `ExpressionMeaning`. `EjsTry` extends
`EjsCodeGen` in the same way and compares with `TryMeaning`. `EjsWorker`
instantiates `WorkerContract`, `EjsPot` `PropertyMap`, `EjsByteArray`
`ByteQueue` and `EjsArray` `ArrayMeaning`, under a refinement mapping.
`EjsLoader` extends `EcModuleWrite`, which extends `EjsType`: the compiler lays
classes out and the loader lays them out again from what was written, by the
same functions of `ejsType.c` with and without room to be made.

Definitions marked "Mutant" in a comment are what a plausible bug would make of
the definition after them. No specification uses them; they show that each
property can fail.

### EjsWorker and the code

State. `state`, `linked` (`pair` and `pair->ejs` are set), `file`, `literal` and
`gotMessage` are fields of the outside objects; `istate`, `igot` of the inside
ones. `workers`, `joining`, `exception` and `queue` belong to the outside
interpreter, `iexception`, `iexiting` and `iqueue` to the inside ones. `iattention`
is the attention flag of an inside frame, `iwakes` the returns of
`mprWaitForEvent` that are due inside (the condition of a dispatcher stays
triggered until a wait takes it, so a signal given before the wait counts) and
`iheard` that a wait was tested since the worker was told to exit. `stack`
is the C stack of the main thread as far as it matters: the native calls that
wait and the callbacks that run on top of them. `ipc` says where the thread of
an inside dispatcher is between two statements that another thread can observe.
`asked`, `ran`, `sent`, `received`, `posted`, `skipped` and `returned` are
history that the properties read.

Actions. One per native method (`Construct`, `Fork`, `Clone`, `Load`, `Eval`,
`PostMessage`, `Terminate`, `WaitForMessage`, `Join`, `Preload`) up to its first
wait; `LoopTest` is the test at the end of each waiting loop and the code that
follows it; `Dispatch` is doMessage up to its callback and `CallbackReturn` the
rest of it; `DestroyVM` is ejsDestroyVM. Inside, `InsideMain` to
`InsidePostClose` are workerMain in the five pieces that the main thread can
tell apart, `InsideDispatch` its doMessage, and `InsideLoopTest` the test after
mprWaitForEvent in App.run, App.sleep and waitForMessage. After a native method
the script goes on with its next opcode, whatever `exiting` is (callFunction,
ejsInterp.c:3503); a script is abandoned only where the code looks at it: at the
opcode after attention was asked for, by its own exit() or by the end of a
callback (line 2698), and where an object without a constructor is made (3452).
`terminate` sets `exiting` and signals the dispatcher, and asks for no attention.
What a script does is unconstrained, but for the calls that the `program` of the
behavior lets it make and the workers it may make: it is one of the constant
`Programs`, and no step changes it. It says too whether there is a compiler.

Choices a reader should know:

- A dispatcher hands out a batch of events before it returns to the loop. That
  the batch is over and that the loop is tested is one step, which is sound:
  what another thread does between them commutes with both.
- `mprWaitForEvent` with a negative time returns after one batch, so a `join`
  given -1 does too (`tmo = "negative"`). Returns with no event at all are left
  out on the main thread: a loop that is tested again with nothing changed
  stutters. Inside they are counted (`iwakes`), as the loops test `exiting` only
  when a wait has returned.
- Callbacks of an inside interpreter do not wait themselves.
- A failing `preload` queues an error per call; the model keeps one per worker
  waiting.
- The path taken when the program is being shut down
  (`mprShouldAbortRequests`), failures to allocate, the limit of ten workers
  asserted in addWorker, `lookup`, names and collection are left out.
- A script that is destroyed under its worker leaves the worker's thread with
  pointers to a dead interpreter. The model lets the thread go on to its end
  and posts nothing; a null pointer that is followed sets `crashed`, and nothing
  happens after that.

### WorkerContract

A worker goes through made, started, closed and complete; its script posts
messages until it closes, its owner takes them one by one, and it completes
when all are taken, unless the owner is destroyed. `KeepsContract` says that
`EjsWorker` implements it under the mapping of `state` to phases.

### LocalCache and the code

State. `link` is `cache->shared`, `store`, `usedMem`, `limits` and `timer` are
fields of a cache; `shared` is the static singleton; `holder` is the thread that
keeps the mutex between two steps. Each object stands for the interpreter that
uses it. `seen` is the version an interpreter last read and what happened to the
key since, `lost` and `destroyed` are history, `crashed` is memory used after it
was freed or a null pointer followed.

Actions. `Read`, `Write`, `Inc`, `Expire`, `RemoveKey` and `RemoveAll` are the
native methods between `lock` and `unlock`, one step each; `Call` is the entry,
so that a caller can be seen to wait for the lock. What is outside the lock is
in steps of its own: the constructor's test of `shared` and its assignment,
destroy's test of the timer and its use, setLimits. `Prune` is localPruner with
its two loops (`Kept` is what they leave), `Collect` the collector's view of an
object nobody refers to, `Tick` the clock.

Choices:

- Data is its length; append and prepend do the same to it. The default
  lifespan of a cache is one of the lifespans a write may have.
- The pruner uses mprTryLock on a recursive mutex, so it may run although the
  lock is kept, on the thread that keeps it. When it does not get the lock it
  does nothing.
- `Factors` are the steps by which the second loop looks ahead, eight from 3600
  on in the code; the theorems hold for any.
- setLimits may be given some of the limits; the values are arbitrary, so a
  limit left alone is one that is set to what it was.

### EjsTimer and the code

State. `period`, `repeat`, `event` and `ejs` are fields of a timer, `events`
the events that were made, with the number of times each has run, and `queue`
the dispatcher's, ordered by due time as `mprQueueEvent` orders it, with the due
times kept as the time that is left. `stack` holds the script and the callbacks
that run on top of each other, each of which may be serving events.

Actions. `start`, `stop`, restart by a second `start`, the setters of `repeat`
and `period`, the dispatch of a due event (timerCallback with the function, the
onerror handler and the rearming of a repeating event by the dispatcher), the
return from a callback, the loops of `App.run` and `App.sleep`, the clock.

Choices: the time left is clipped at zero; the clock moves at any time and is
only fair when a loop is idle. `drift` is never read by the code. A null pointer
that is followed or an assertion that fails is a crash, after which nothing
happens (`Rest`).

### EjsEmitter and the code

State. `endpoints` gives each name its array of `arrays`, whose members are
endpoints of `eps` with their callback, the `active` mark and the pending
events; `stack` has a frame for each fireThis and removeOneObserver that has not
returned, at the place of its loop. Actions: one per call of `fire`, `on`, `off`
and `clearObservers` by the script or by a callback, one per iteration of those
loops, one for a callback's end. `seen`, `since`, `cleared` and `removed` are
history that the properties read. Whether
a callback is found again by `off` depends on whether the function has a bound
this (`Bound`): reading it from the array makes a clone otherwise.

### EcParser, EcExpressions, EjsEval and the code

`EcParser` is the chain of parse functions from parseListExpression down to
parsePrimaryExpression: one recursive function over levels, each of which takes
what the level below returns and what the code's loops and tests of the next
token add. `EcExpressions` is the generator: `genCallSequence`, `genDot`,
`genAssignOp`, ... with the two flags it passes around (`needsValue`, `onLeft`)
and the items it pops. `EjsEval` has one action per opcode the generator emits.
The input of a run is the expression; `ExpressionMeaning!Statement` writes it
down with no more parentheses than precedence and association ask for, so that a
parser that binds wrongly is found.

`ExpressionMeaning` gives for an expression the effects (reads, writes and calls
in order) and the value. What is compared is the trace of effects, the final
value and the evaluation stack, below which the operands of a caller lie.

Choices. Values are the terms that made them: `x + y` is the operation on two
values, and what it computes on numbers is left out, as are conversions. The
statements of the run leave out the forms that the build itself gets wrong or
refuses; they are listed under "Met while modelling". For every statement of the
run the instructions agree with the listing of a build of the program.

### EjsCodeGen, EjsTry and the code

`EjsCodeGen` is genTry, genCatch, genFinally, genLoop, genBreak, genContinue,
genReturn, genThrow, genBlock with the exception handlers and the patching of
jumps; a jump target is an index of an instruction. `EjsTry` has one action per
opcode and one for processException, which looks for a handler, pops blocks and
frames and enters catch or finally. `TryMeaning` is a denotational semantics of
the same statements. The trace of marks is compared.

Choices. An exception is its type; a catch clause takes a type or all; `while`
and `for in` loops run up to `Fuel` times; the evaluation stack is left out. A
body with a `let` is a block; others are not. Single try statements agree with a
build of the program in all compared programs.

### EjsPot, PropertyMap and the code

State. `slots` (name and namespace, value, attributes and the next of the hash
chain), `size`, `hash` (its size and the heads of its buckets), `dynamic`, and
the result of the last operation. Actions: get,
put, delete, defineProperty, freeze, seal, preventExtensions, sort of the
properties, clone, growth, and the moment at which the hash is made, made anew
or left. Names are hashed by a constant function, so that chains have more than
one member and cross. `PropertyMap` is a map from names to values and
attributes; `IsMap` says that the object is one.

Choices. Of the accessors only that a property may have one; properties of
prototypes and types are looked up in each object in turn by the same
operation. `MaxProp` is below the largest hash size, beyond which the code
recurses for ever.

### EjsArray, ArrayMeaning and the code

State. `data` with its size in blocks of two, `length`, and the loop or sort in
progress with the place it has reached. Each method is one action that applies
the code's own steps to the block; loops (`forEach`, `filter`, `map`, `some`,
`every`, `find`, `transform`, `for in`) and sorts take one step per call of the
script's function, in which the function may change the array. `sort` is the
quicksort of the code with its partition as it is written. `ArrayMeaning` says
what a list answers; `IsList` compares results and contents, where only slots
never used before are undefined.

Choices. A call's result is taken before the next call. Elements are model
values compared by identity; an ordering is a rank, or a function that lies,
throws or answers no number. join and toString are text.

### EjsByteArray, ByteQueue and the code

State. `value` is the block, `readPosition` and `writePosition` are the code's,
`growInc` and `resizable` say how it grows. `listening` are the events with an
observer, `pending` those that wait for an observer that is running (Emitter.es
calls it again). `stack` holds the calls under way, each at the place where it
sent an event, with the observers between them. Each call is one action up to
its first event and one for what follows each event: `writeNumber` and
`putNumber`, `ejsWriteToByteArray` with `writePiece`, `putString` and
`copyRoom`, `getInput` and the three that take what is there, `flush`, `close`,
`compact`, `ejsResetByteArray` and the setters of the positions. The script and
an observer make the same calls; one kind of observer (`reader`) reads all there
is and does nothing else.

`ByteQueue` is a queue: a step appends the next bytes, takes some from the front
or drops some where the script asked for it. `IsQueue` says that what lies
between the positions is one, whatever observers do. The n-th byte written has
the value n, so that lost, repeated and reordered bytes are told apart.

Choices. `Copies` = FALSE leaves out the writes of another ByteArray to one that
has a reader or cannot grow, which go wrong (see "Met while modelling"). Access
by index, copyIn and copyOut, positions moved backwards or beyond what was
written, and the encoding of numbers are left out. `taken` and `drops` are
history.

### EjsType, EcModuleWrite, EjsLoader and the code

A class is a record with its base class, the classes it implements and two
sequences of slots: those of the class itself (`statics`) and of its prototype.
A slot has a name, the class whose definition is in it and whether it is a
method that overrides. `ejsFixupType` is called by the compiler with `makeRoom`
and by the loader without, as in the code: the compiler puts the inherited slots
in front of the class' own, writes the numbers of slots and the own members
(`EcModuleWrite`); the loader creates blank slots by those numbers, fills in what
is inherited and then the members at their numbers. Code refers to slots by the
compiler's numbers, so the two layouts have to be the same.

`EjsLoader` is one interpreter: `modules` is `ejs->modules`, `mods` every module
structure that was ever made, `globals` the classes of the global object, and
`stack` the calls of loadScriptModule and of initializers, which nest: a load
waits for a dependency's load, and an initializer may load. A frame of a load
has a phase: sections one by one (an action per kind of section), a dependency
under way, what comes after the sections (forward references and initializers of
all modules from its first on, over a list that grows meanwhile), or failed. A
script is one of: runs, throws, loads a module, or tries to and catches. Between
calls `CompileAgain` replaces a file by another version of its source, if the
compiler would accept what it requires. Loads pass `reload` or not. A load that
fails removes modules while iterating over them (`Unload`); classes stay in the
global object.

A `world` gives each module its sources. Only the order and the layout of a file
are modelled, not its bytes; the checksum is what the code sums: names of
dependencies, classes and properties, and the numbers of slots. Worlds leave out
what the compiler refuses (cyclic dependencies, two modules with the same public
class) and two uses of implemented classes that go wrong by themselves, listed
under section 4.

## 3. Runs

All runs are of small constants; `PROJECT.json` says in a sentence what each
shows.

| run | constants that matter | checks |
|---|---|---|
| `worker_life` | 1 worker, 1 script, 2 messages each way, 4 frames | TypeOK, QueuedEventsAreLinked, CloseIsLast, CompleteHasAllMessages, ListAndLinksAgree, NoTimeoutNoFailure |
| `worker_programs` | 2 workers, 1 message, 2 frames, fair; scripts that make and join two workers, or that start one, wait and terminate, with and without compiler | JoinMeansComplete, KeepsContract, PairJoinReturns, TerminateWakes |
| `worker_terminate` | 1 worker that calls App.run or App.sleep, fair | TerminateCloses, which fails |
| `cache_share` | 2 interpreters, 1 key, shared stores, fair | MemoryIsCounted, ItemsHaveTimer, CasSeesUpdates, DueItemsGo |
| `timers` | 2 timers, 4 calls, loops two deep, fair | QueueIsSound, KnowsItsEvent, StartIsGood, TimersRun |
| `emitter_events` | 3 names, 2 functions, 5 calls, fair | ActiveIsRunning, CallsMatchEvents, Settles |
| `programs` | over a thousand functions with one try, typed clauses, loops, blocks, calls; 30,476 statements of two operations; a byte array with a block of 1 or 3 bytes that grows or not, five bytes written, 3 calls, 4 frames | DoesAsMeant, LeavesInOrder, CalleeIsolated, Terminates of the functions; StackKept, EffectsAndValues of the statements; ReaderKeepsUp, IsQueue of the byte array |
| `try_nested_return` | a return in a try or a loop within a try | FinallyBeforeReturn, which fails |
| `containers` | an object: 3 names of which two collide, 3 properties, a hash that is outgrown; a cache: 1 interpreter, 2 keys, all modes and dates, limits | HashFinds, IsMap; PruneEnforcesLimits |
| `arrays` | 3 elements, blocks of two, every method, loops and sorts with functions that push, shift and clear | StaysInBlock, LoopsMissNothing, SortKeeps, IsList |
| `module_loads` | 3 modules in 104 worlds, 3 loads by scripts, 2 compilations | ReadyWhenRun, ListedHaveRun, OnceUnlessFailed, LaidOutIfOnce |
| `module_reload_stale` | 3 modules in 4 worlds, the same bounds | LaidOutAsCompiled, which fails |

A run with several subjects picks one of them in its first state and leaves the
variables of the others alone, so each property is about its own.

Why the bounds are enough. A defect in the worker protocol is about the order
of a handful of events: the close of a worker, an error, a message, and a
callback that nests another wait. Two messages tell a queue from a set; four
frames are a join within a callback within a join; two workers are needed for a
list to be searched while it shrinks and for one worker's event to be served by
another's wait. In the cache two interpreters are a reader and a writer of a
version, two versions are one update; two keys are needed for a limit of one;
a clock that goes once past a date is enough for expiry, and the lifespans lie
within and beyond what the pruner looks ahead. Two timers are one that is due
before, with or after another; four calls are a start, a stop, another start and
a change between them; two loops are one that a callback runs within one. Five
calls of an emitter are an observer added, a fire, and within it a fire, an add
and a removal. The generator of expressions decides by an operator, the context
its operand is in and the kind of the operand, so two operations, one within the
other, are all pairs of decisions. A try has three bodies and five ways to leave
each; one level of loop, block or call around or inside is what changes the way
out. Two names of one bucket and a third are a chain whose first, middle or last
member goes. Three elements in blocks of two are an array that is full, half
full and has outgrown its block. Five bytes in a block of one or three are
numbers and pieces that fit, just fill it and outgrow it; three calls are a write
whose observer reads, whose observer writes. Three modules are one that requires another that
requires a third, or both; three loads are two of the main script and one of an
initializer, or a load, a reload and a load of what was compiled in between.

Deadlock is checked in `containers`, `arrays`, `programs`, `emitter_events` and
`timers`: a state with no step is one in which an instruction, a loop or a
callback is stuck, as the end of a statement, of a script with no calls left and
of a crashed one are steps that change nothing. Elsewhere a script may simply
end, the clocks and counters are bounded and nothing happens after a crash; what
must happen is stated as a liveness property instead.

Bounds of the models: `MaxPost` (messages), `MaxFrames` (nesting), `MaxTime`,
`MaxLen`, `MaxVersion`, `MaxUsed`, `MaxOps` (calls), `MaxDepth` (loops that
nest), `Fuel` (iterations), `MaxTrace`, `MaxProp`, `MaxWritten`, `MaxLoads`, `MaxCompiles`. They occur in guards only.

### Fairness

`EjsWorker!Fairness`: the main thread takes events while it waits and leaves a
loop that is over (it is a thread of the program and each is one iteration);
callbacks return; the pool serves a dispatcher that has events, and workerMain
proceeds. No fairness is assumed of a timeout (a time may be as long as it
likes), of the script making any call, or of an inside script that waits and is
not told to stop. The scripts of a behavior of `worker_programs` are those of
`PairProgram` or of `WaitsPrograms` (`MCEjsWorker`): the first leaves waiting
calls out of the inside scripts, as a script that waits for ever is not the fault
of join, the others leave out the second worker and join. A program leaves out
calls that scripts make, never a step fairness is about.
`TerminateWakes` promises that the first wait of a terminated worker returns, which
takes a signal that is not lost; that a worker that is terminated closes is not
true (`worker_terminate`).

`LocalCache!Fairness`: a call that has the lock returns, and the timer of a
cache runs again and again while the lock is free. It is weak fairness: no
order among callers is assumed.

`EjsTimer!Fairness`: a callback returns; a loop dispatches what is due or waits,
which is strong fairness since each iteration of a loop of App.run or App.sleep
does one of the two and between them callbacks run; the clock goes on while a
loop is idle.

`EjsEmitter` and `EjsTry` have weak fairness of the next step of the one thread
there is.

### Disagreements that are runs

`try_nested_return`: with a return in a try or a loop within another try, the
code goes to the caller without the finally block of the outer one, which TLC
must find as a violation of `FinallyBeforeReturn`.

`module_reload_stale`: load a module, compile it with one more variable in its
class and load it again, then load a module that was compiled against the first
form. Its checksum is compared with the first module of that name on the list,
the older one, and it is let in; its class is laid out over the newer class and
its code has the old numbers of slots (`LaidOutAsCompiled`).

`worker_terminate`: Worker.es:144 says of terminate() "Terminate the worker".
It sets `exiting` inside and signals the dispatcher (ejsWorker.c:735), but does
not ask for attention, so nothing stops the script: the wait it is in returns,
the script goes on, and its next App.run or App.sleep waits before it looks at
`exiting` (ejsApp.c:256 and 281). A worker that sleeps in a loop, or calls
App.run() and then App.sleep(), need not close (`TerminateCloses`). The same
holds of the calls without a time: App.run() entered after the one signal was
taken waits for ever.

### Met while modelling

In the models' behaviours, and observed on a build of the program where they
are about a script, but not kept as runs. A property that a run checks leaves
them out by what it says or by what the run may do.

Workers.

- Messages posted to a worker may still wait inside when it completes, though
  `ejs.h:3709` says that complete is "when completed all messages"; their
  doMessage then reads a null `worker->ejs` (`CompletedAllMessages`, not run).
- After a callback that threw, the next events of the batch do not get theirs,
  though `vm/ejsInterp.c:2666` asserts that no exception is left
  (`CallbacksRunWithoutException`, not run).
- A later load() that throws has replaced the script of a worker that has not
  read it yet (`RunsTheScriptAskedFor`, not run).
- `join([])` returns at once, though Worker.es:96 says that it waits for all.
- `join(w, -1)` reports a timeout after the first event (Worker.es:98: -1
  disables the timeout).
- `waitForMessage` returns true whether or not a message came (line 766).
- eval with a timeout may return a value though its script still runs, when a
  callback made a join of its own that reset `ejs->joining` (line 369).
- `terminate` does not end a worker that waits in waitForMessage (line 760).
- `preload` runs the inside interpreter on the main thread while a pool thread
  may run an onmessage callback in it (line 590 against the comment at 456).
- After a failed preload the exception stays in the inside interpreter, and
  handleError's `assert(ejs == worker->ejs)` fails when the owner was destroyed
  (lines 797 and 783).
- Without the compiler an eval with no timeout never returns (line 687).
- clone of a worker that has completed follows a null pointer (line 251).
- The list of workers asserts that it is shorter than ten (line 147).

Local cache.

- A write in mode "add" of a key that exists returns without unlocking (line
  408), so other interpreters block, though LocalCache.es:20 says that they "can
  use the local cache to reliably share information" (`SharersAreNotBlocked`,
  not run).
- The timer of a cache does not keep it: the collector may free a cache that the
  pruner then finds (`PrunerFindsCache`, not run; `Reclaims` lets it happen).
- Two interpreters that construct the shared cache together get two; destroy by
  the one that made it leaves the others linked to a cache that is not the
  singleton their operations assert (lines 64 and 106); destroy tests and uses
  the timer without the lock and races the pruner (line 84).
- inc of a missing key stores nothing and adds to `usedMem` (Cache.es:
  "initialized to the amount value"); inc of an item that never expires makes it
  expire at once (line 160).
- expire with null removes the key (Cache.es: "Set to null to never expire").
- A key that was removed starts again at version 1, so that a version is not
  unique to an update (line 393).
- clone of a cache copies the memory count and not the items.

Timers.

- stop() of a timer that does not repeat does not prevent its run: the event
  stays in the queue.
- A timer that does not repeat and is started again, after it ran or while it is
  pending, fails the assertion of `ejs` at `vm/ejsInterp.c:2663`: timerCallback
  clears it and start does not set it, though Timer.es says that once stopped a
  timer can be restarted. `CrashNeedsRestart` says that nothing else does.
- A collection after such a timer ran follows its null `ejs` (line 191).
- A timer that does not repeat and starts itself in its callback does not run
  again. repeat = true, start, stop, start gives a run too many; repeat = false
  while one is pending runs once more.
- A new `period` of a repeating timer is not that of its next runs (Timer.es:45
  says that it is).
- An onerror that throws leaves its exception to the next timer, whose function
  is not called and whose own onerror gets it.

Emitter.

- off(name, f) removes nothing and on registers twice unless f has a bound this.
- off(name, null) leaves every second observer, though the documentation says
  that all are removed.
- A fire within a fire replaces the arguments that later observers get
  (Emitter.es:118): with f1 and f2 on x, x(1) is fired and f1 fires x(2); f2 is
  called with 2 twice and never with 1. So `CallsMatchEvents` compares numbers
  of calls and of events, and which event a call is for only where the code
  tells: for the first observer of a list.
- An observer removed during a fire makes the loop skip the next one. An
  observer of "off" that removes one makes the outer removal take another, or
  throw as the array is empty.

Expressions.

- Lists of two or more members between commas leave every member on the stack
  where they are operands, arguments or branches: `1 + (10, 100)` is 110.
- Where no value is asked for, a unary minus or an array over a call, an
  assignment or a conditional takes an operand of the caller.
- Targets with effects are evaluated after the value, and twice in compound
  assignments and postfix operators; a method is looked up after its arguments.
- `void` does not evaluate; `o["m"]()` has the wrong this; `(x, y) = 5` fails an
  assertion; a statement may not begin with - + ~ void nor with `name *`, which
  isAttribute (ecParser.c:6363) takes for attributes; an array literal before
  `:` is taken for an array type.

Functions with try.

- break or continue in a catch clause with no finally is skipped and may leave
  the chain of blocks wrong.
- A return in a try or a loop within a try goes past the outer finally (the run
  above). What an inner catch throws is not seen by an outer catch of the same
  function, as the comment at ejsInterp.c:2934 grants. The outer catch of an
  inner try without one is found before the inner finally.
- A try in a catch or finally block never gets to its own catch.
- An exception that a throw in finally replaced is raised again at the end of an
  outer catch.
- A finally block with lexical blocks of its own fails after an exception thrown
  with blocks open.
- The expression of a return is evaluated after the finally block.

Objects.

- A property with an empty name is taken for a deleted slot.
- defineProperty adds to objects that are frozen or not extensible; a read-only
  property that is null may be written once; accessors given to it are lost.
- getOwnPropertyCount counts deleted slots. delete of a name that is in several
  namespaces throws (and fails an assertion at ejsHelper.c:147).
- Beyond 196,613 properties hashProperty and ejsIndexProperties call each other
  for ever (ejsPot.c:765); `MaxProp` is an assumption that excludes it.
- ejsInsertPotProperties shifts wrongly for an offset; ejsCompactPot, which
  nothing calls, leaves stale slots.

Arrays.

- Slots beyond the length keep their old elements, which come back when an array
  that was longer grows again (Array.es: new elements are undefined). Only slots
  never used are undefined in the reference too (`high`). splice with a count of
  more than there are writes its values behind the new end, where they come back
  in the same way: `high` counts slots that have held elements, not the greatest
  length.
- splice(start, count) with start + count beyond the end, or a negative count,
  drops elements before start: `[1,2,3].splice(1,10)` leaves nothing; it may
  read behind the block. splice with more values than there is room, concat onto
  an empty array and `a << a` write behind the block; guards leave these out.
- `a - b` skips the second of two equal neighbours. slice with a negative step
  includes what lies at the length. A negative index appends.
- A compare function that does not answer with a number makes sort repeat for
  ever; direction 0 rotates the elements.
- Loops visit slots behind the end of an array that has become shorter, and
  transform brings them back. A sort keeps its pivot aside, so that a compare
  function that changes the array may lose an element (`SortKeeps` is about
  sorts that are alone with the array).

Byte arrays.

- write of a ByteArray keeps the write position of before the "readable" event
  and makes room for it and the length: with `ba = new ByteArray(10)` that holds
  "abcdef" and an observer that reads, a write of another with "gh" gives the
  reader "abcdef" and then "ab", and "gh" is lost. On an array that cannot grow a
  copy that fails still moves the write position.
- flush drops what an observer of "writable" wrote. The piece of a write that is
  neither text nor bytes makes no room.
- writeLong makes room for an integer only; read ignores the offset when a count
  is given; copyIn compares with the size of the source; swap16, swap32 and
  swap64 bind shifts and masks wrongly; readString at the end returns "".

Module loader.

- A load that fails removes every second module only (line 1008): the others
  count as loaded, and one that ran may be removed and run again. Its classes
  stay in the global object. `ListedHaveRun` holds as those that stay have run.
- A module that requires b, which requires a, and extends a class of a is
  checked against b only; with a compiled again its slots are wrong.
  `LaidOutIfOnce` is about modules that require what their requirements do.
- A load with reload = false of a module whose load is under way returns as if
  it had been loaded. A module whose dependency is under way, loaded by an
  initializer, may fail with "Cannot fixup forward type reference".
- A reload of a changed module keeps the older global functions and, where code
  has moved, goes on reading at a wrong place (assertion at line 714). Global
  functions are not modelled.
- A class whose base class implements a class has Object as its base class
  after a load. A method that overrides one of an implemented class is lost to
  that of the implemented class, though the comment at ecAst.c:3350 says that
  the inherited slot is set to the overridden method. Implementing a class
  without static members fails an assertion (ejsType.c:466).

## 4. Proofs

TLAPS proves these for every value of the constants.

`EjsWorkerProofs!TypeCorrect`: `Spec => []TypeOK`. The lemmas before it give the
type of what each helper returns (`Top`, `Below`, `Nested`, `Return`) and of what
each group of actions does to the queues; the proof of a step has one case per
action.

The rest of `EjsWorkerProofs` proves every safety property that the runs of `EjsWorker`
check. None of them is inductive: that a complete worker has all its messages,
say, needs to be known before the step that completes it, when its close event
is still queued on one thread or its callback runs deep in the stack of another.
The invariant `Core` supplies that, in parts that follow the life of a message:

- `ThreadsAgree` and `MainIsNext` tie `state`, which two threads write, to the
  state of the inside object and to where its thread is; workerMain is queued
  once, for a worker that has been started.
- `EventsHold` and `InOrder` are about the outside queue: each event is about a
  worker that is linked; its messages are numbered upwards, each not taken yet;
  an event for onclose has nothing of its worker after it.
- `MessagesAreQueued`: while the owner lives, each message that was posted and
  not taken is in the queue. With the order this makes the first message of a
  worker in the queue the next one, and leaves none when its close is taken.
- `CallsHold`: an onclose callback that runs is of a worker that has nothing
  more queued (`ClosedUp`), no other callback is about the same closing, and a
  preload is the last call of the stack, about a worker that was not started.
- `ListAndLinksAgree` and `CompleteHasAllMessages` are properties of the runs.

Lemmas about the queue say what adding, taking and leaving alone do to these
parts, lemmas about the stack what a call, a return and a loop test do; each
action has a lemma that combines them, and `NextCore` has a case per action.
`EventsAreLinked`, `CloseComesLast`, `NoMessageIsDropped` and `LinksAgree`
follow from `Core`.

`Seen` lists the changes that a step can make to what a script sees of its
workers, and `SeenStep` shows from `Core` that there are no others. From it
follow `StatesGoForward` and `WorkersKeepContract`, the refinement: an initial
state maps to one of the contract and each step to one of its steps or a stutter.

`JoinsHold` is the invariant about what a join says: one that still waits is
about workers that exist, and `joining` is set unless a callback made a join of
its own. `JoinsAreTrue` and `NoJoinTimesOutByItself` follow. The first has the
code's limit as a hypothesis: after a nested join or a callback that threw,
success means nothing (see the list above).

`LocalCacheProofs!ConditionalWritesSeeUpdates`: `Spec => []CasSeesUpdates`. The
property says that a flag is never raised and is not inductive. The invariant
`Inv` adds the types, that objects not yet made have no items, no readings and
no links to them (`Made`), and `ReadingsHold`: what an interpreter has read is in
the store at the same version, or was updated and is at a later one, or the key
has been removed since. A conditional write that matches the version then cannot
be of a key that was updated. `UpdateKeepsReadings`, `RemovalKeepsReadings` and
`DropKeepsReadings` say this of the three ways a store changes; one lemma per
operation applies them.

`LocalCacheProofs!PrunerIsScheduled`: `Spec => []ItemsHaveTimer`, from the same
invariant: the pruner gives up its timer only when it has kept nothing, and a
write sets one.

`LocalCacheProofs!MemoryIsCovered`: `Spec => []MemoryIsCounted`. What the items of
a set of keys take is the cardinality of a set of their bytes (`Bytes`), so that
its changes are facts about finite sets and no induction over a sum. `Counted`
says that a store has finitely many bytes and `usedMem` is at least their number;
each operation changes the bytes of one key and counts as many (`OperationCounts`),
the pruner those of the keys that it drops (`PruneCounts`), and a clone starts
with those of its original (`CloneCounts`).

`LocalCacheProofs!PrunerKeepsLimits`: `Spec => PruneEnforcesLimits`. `Loop` is the
invariant of the pruner's loop: what is left is not due before where the loop has
looked, or within the limits, and nothing has been taken from a store that was
within them. `LoopGoes` is one turn, `KeptIs` all of them: an induction on the
number of turns, which `UpTo` makes from the least number that fails. `TurnsAre`
and `AheadIs` show that the recursive functions have the values they describe.

`EjsTimerProofs` proves that the queue of the dispatcher is sound
(`QueueStaysSound`), that at most one event of a timer goes on and its timer
knows which (`TimersKnowTheirEvents`), and that a timer that was started and not
stopped has an event that waits or runs (`StartsAreGood`). Its `IInv` is a
predicate of the one record that start, stop and the dispatcher pass on, so that
the lemmas are about their operators (`StartGood`, `StopGood`, `TakeGood`, ...)
and not about steps: the queue is in order, holds no event twice and none that
runs (`GoodQueue`); what goes on by itself is what its timer knows (`Agrees`); an
event of a timer that never repeats runs once (`RunOnce`); a timer without its
interpreter has an event that is over (`Forgotten`); and the stack has the script
at the bottom and different events above (`GoodStack`). The last two are there
for a crash: it needs two events of one timer.

`EjsByteArrayProofs` proves that a byte array is a queue of its bytes
(`ArrayIsQueue`, the refinement of `ByteQueue`) and that a reader has all that was
written when the calls have returned (`ReaderReadsAll`). `IInv` says that the
positions are in order within the block (`BlockOK`); that the frames of the stack
are of calls that occur, none but the top one about to copy, and that one to the
position of now (`StackOK`); and that bytes that a reader has not read are on
their way to it: a frame is still going to send an event, or one waits
(`Told`). Steps are steps of the queue by lemmas about the bytes between two
positions (`Window`). Both have `Arguments` (sizes and counts are numbers) and
`~Copies` as hypotheses. The second is the code's limit: a byte array that is
written to one with a reader, or that cannot grow, loses or repeats bytes (see
the list above), and runs leave it out in the same way.

`EjsEmitterProofs` proves that an observer is marked active exactly while it is
called (`ActiveWhileRunning`) and that observers are called as often as events
were fired while they were registered (`CallsAgree`): a count, as an observer
behind the first of a list may get the arguments of one event twice and of another
never. Whether an event is going to reach an observer
depends on every loop of the stack, so the invariant counts: with `Meant(e)` the
events of its name since it was added, an undisturbed observer has seen, has
waiting, or is ahead of as many loops as there are (`CountsOK`), as many times.
`FirstOK` says which they are for the first observer of a list, and that
they come in order; `SilentOK` that loops and waiting events of an observer that
was cleared are of events before that; `RunningOK` that calls of an observer are
none or one, as its mark says; `StackOK` that a call is below another only if its
callback runs or it fires "off"; `ListsOK` that lists hold each observer once, of
their name, and one that is elsewhere was cleared. A removal shifts the elements
under the loops that are over that list, which the counts forgive by `removed`, as
`Undisturbed` does. Adding and removing observers fires too, so those steps are
done from the middle: `Firing` says what a state is when an event has just been
fired and its loop has begun, and `FiringLeadsOn` shows `IInv` of it; each
action that fires establishes `Firing` of the state it leads to.

`EjsPotProofs` proves that an object is a map of its properties (`ObjectIsMap`,
the refinement of `PropertyMap`) and that its hash finds each property and ends
(`HashAlwaysFinds`), for every hash function, table of sizes, order of names and
number of slots. `ChainsEnd` and `LookupFinds` are not inductive: a slot that is
not hashed, because its name was there before it, hides behind another, and comes
up when that one is deleted. `IInv` is `Good` of the slots and the hash: types, no
two slots in use with one name (`Distinct`), and some set H of slots, with all
those in use among them, that are linked (`Links`): the `hashChain` of a slot is
the first slot of H after it in its bucket, and the bucket is the first of all.
`ChainIs` shows that a walk along a chain then passes just the slots of H in its
bucket; `LinkHead`, `LinkLast`, `Unlink`, `LinksAppend` and `LinksFresh` say what
each way of changing a chain makes of H. With these a lookup is a question about
names in use (`FoundIs`, `OnlyIs`, `ByNameIs`), and each operation has a lemma
that says which map it leaves (`Means`), from `AddSlotIs`, `DeleteIs`,
`ValuedIs`, `LockedIs`, `SortIs` and `CloneIs`. `Stepping` puts them together:
each step keeps `IInv` and is a step of the map or a stutter.

`EjsArrayProofs` proves of arrays of any length, in blocks that grow by any number
of slots, with loops and sorts inside each other to any depth, that these stay in
the block (`StaysWithin`), that loops give what they should (`LoopsGiveAll`) and
that sorts keep and order the elements (`SortsRight`); and that to a script an array
is a list (`ArrayIsList`, the refinement of `ArrayMeaning`). `Inv` is that slots that
never held an element are undefined (`BlockOK`), and what holds of every loop and
sort under way (`FrameOK`), for each change that a function inside may make:

- `IsLoop`: the limit is within the block, and what has been there all the time
  and was passed has been given. A block never shrinks, so a method called by the
  body leaves the limit where it is (`CanBecome`: what a method may make of a block).
- `IsSort`: ranges that are still to be sorted and the partition lie within the
  block. For a sort that is alone with the array, `IsAlone`: the elements are
  those it began with, each as many times, which exchanges keep by a bijection of
  slots (`TimesKept`); and as long as the answers were honest, `InOrder`: two
  elements are in order or in one range that is still to be sorted, ranges do not
  meet, and the partition has what comes before the pivot in front of what does
  not. `ComparedInOrder` and `PartitionInOrder` are the two steps of quickSort; at
  the end no range is left and all elements are in order.
- `AllInReach`: a sort lies below `high`. A sort whose function has shortened the
  array goes on exchanging slots behind its length; without this part, one of
  them might be a slot that has never held an element.

Each method has a lemma that says which block and length it leaves, element by
element; those that are recursive functions (removeElements, unique, compact) by
`Recursion`, which makes the values of a function on 0..n from the least number
without one.

`ArrayIsList` needs `Inv` for what a method uncovers: an array that grows shows the
slots behind its old length, which are undefined from `high` on. `high` has to count
the slots that ever held an element and not the lengths there have been, as a
splice that counts more elements than there are copies what is behind the end. `ListNow`
and `ListNext` give the list that a block and a length stand for, and each method
has a lemma (`PushMeant`, `SpliceMeant`, ...) that turns what it does to the block
into what it means for the list: `Replaced` and `AroundInserted` where elements are
put in, `PickedAlong` and `LeftAlong` where some are chosen or left (intersection,
union, removeElements, unique), `StepsIs` and `SlotsIs` for the slots of a slice, the
count of which is a division. `SilentMeant` has the steps of loops and sorts,
`MethodsMeant` and `StepMeant` put them together.

`EjsLoaderProofs` proves that a module on the list, which is all a later load looks
at, has run to its end once no load is under way (`ListedModulesHaveRun`), that
modules run once (`ModulesRunOnce`), and that what a module requires has run or
waits for it, in the form it was compiled with, and its classes are complete, when
its code begins (`ModulesAreReady`). `LInv` has the types of modules and classes
(`Types`); that the stack alternates loads, dependencies, initializers and scripts,
each about the file and module that the one below it is waiting for (`StackOK`
with `CallOK` and `Calls`); what the innermost call has found when the one above it
has returned (`TopOK`); and that a listed module has run unless a load under way
has put it on the list (`Listed`). `Once` adds that names are unique and all
modules listed until a load fails or reloads; `Met` that dependencies passed by a
load are met; `ClassesOK` that a class that still waits for its base has an entry
on the list of forward references of its module. The theorems have
`[]FilesAreWhole` as a hypothesis: files begin with a module section of their name
and end with an end section, with the members of each class behind it. The
compiler that writes them is a recursion over sources, so that this is out of
reach of a proof; `MCEjsLoader` has TLC evaluate it for every file of the run
(`WritesWhole`).

Assumptions: those named in the modules (a null pointer is no cache, lengths and
times are naturals, NoScript is no script, the names that on and off fire are
names, arguments of array methods are lists of values and integers). None bounds the sizes.

Only model-checked:

- Liveness (`PairJoinReturns`, `TerminateWakes`, `DueItemsGo`, `TimersRun`,
  `Settles`, `Terminates`): under fairness, thus ENABLED.
- The parser, the generators, the interpreters of their code and what it means
  (`DoesAsMeant`, `LeavesInOrder`, `CalleeIsolated`, `StackKept`,
  `EffectsAndValues`): their operators are RECURSIVE over trees and tokens.
- `LaidOutIfOnce`, that classes are laid out as the module that begins was
  compiled for: it compares with what the compiler made of the sources, which is
  a recursion over them.
- The three properties that fail are shown by their runs.

## 5. Not modelled, and why

- The binder (`compiler/ecAst.c`), declarations and directives in the parser and
  generator, except for the layout of classes: what they decide is which of the forms of an instruction
  (by name, by slot, in which scope) is used. The generators here emit the forms
  by name, which is what a build does for names that are not bound.
- Of the loader: files that are missing or damaged, native modules and their
  libraries, versions, several modules in one file, blocks, global variables and
  functions, debug and exception sections. They add steps of the same kind, or
  are input and output.
- The scanner, numbers, dates, strings, regular expressions, XML and JSON:
  conversions of text, whose errors are in characters.
- Files, commands, sockets, HTTP and WebSocket: the state is the system's and
  the bundled library's.
- The collector: it decides nothing but what is freed; what it does to a cache,
  its timer and a timer's interpreter is in those models.
- The web framework, packages and programs: scripts above the core.
- Bundled dependencies, except what the models say of MPR's queues, which they
  take from how this code uses them.

## 6. Plan

1. (done) Workers, their contract and the cache, checked and proved about.
2. (done) Timers, emitter, expressions, functions with try, objects, arrays, byte arrays, and the loader, checked.
3. (done) Proofs about them: timers, byte arrays, the emitter, objects as maps,
   arrays as lists with their loops and sorts, and the modules on the list of the
   loader. Left: the layout of classes.
4. The statements of the parser in front of `EjsCodeGen`, the pool of interpreters under the threads of the web server, and promises
   over the emitter and the timers.
