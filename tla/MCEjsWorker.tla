---------------------------- MODULE MCEjsWorker ----------------------------
(***************************************************************************)
(* Instances of EjsWorker for TLC: the programs whose scripts are run.  The *)
(* calls a program makes keep a behavior to the interplay it is about; what *)
(* it leaves out are calls of scripts, never a step that Fairness is about. *)
(***************************************************************************)
EXTENDS EjsWorker

CONSTANT First      \* the worker of a program that makes one

Program(compiler, makes, out, in) ==
    [compiler |-> compiler, makes |-> makes, out |-> out, in |-> in]

\* A worker is started, posted to, told to exit and joined.
LifePrograms ==
    {Program(TRUE, Worker, {"construct", "load", "post", "terminate", "join"},
             {"post", "throw", "exit", "terminate"})}

\* Workers are made, some with a script, some by fork() and clone(), and joined
\* while their threads post, fail and close.
PairProgram ==
    Program(TRUE, Worker, {"construct", "fork", "clone", "join"}, {"post", "throw"})

\* A worker is preloaded, started, posted to and told to exit while both sides
\* wait in waitForMessage, App.run and App.sleep, and the program may end before
\* the worker does.
WaitsPrograms ==
    {Program(compiler, {First},
             {"fork", "preload", "eval", "post", "wait", "run", "sleep", "terminate", "destroy"},
             {"post", "exit", "terminate", "run", "sleep", "wait", "catch", "throw", "timeout"}) :
        compiler \in BOOLEAN}

PairOrWaits == {PairProgram} \cup WaitsPrograms

\* A worker is told to exit, and does nothing but wait.
SleepPrograms == {Program(TRUE, {First}, {"construct", "terminate"}, {"run", "sleep"})}

\* A join with no timeout returns, of workers whose scripts do not wait (those of
\* WaitsPrograms may wait for ever) in a program that has the compiler (without it
\* workerMain returns at once and leaves its worker started): JoinReturns.
PairJoinReturns == (program = PairProgram) => JoinReturns

\* The first wait of a worker that is told to exit returns: WakesWhenTold (App.run
\* and App.sleep, terminate and exit).
TerminateWakes == WakesWhenTold(First)
=============================================================================
