--------------------------- MODULE EjsWorkerProofs ---------------------------
(***************************************************************************)
(* Theorems about EjsWorker, for any number of workers, messages and nested *)
(* calls: its types, its invariants, and that it implements WorkerContract. *)
(***************************************************************************)
EXTENDS EjsWorker, SequenceTheorems, TLAPS

-----------------------------------------------------------------------------
(***************************************************************************)
(* The operators on the stack of native calls.                              *)
(***************************************************************************)

\* A frame that a call pushes is well formed.
LEMMA NewFrameType ==
    ASSUME NEW k \in WaitCalls \cup Callbacks \cup {"preload", "script"},
           NEW on \in SUBSET Worker, NEW all \in BOOLEAN, NEW tmo \in Timeouts
    PROVE  NewFrame(k, on, all, tmo) \in Frame
BY DEF NewFrame, Frame

\* The innermost call and those below it, when there is one.
LEMMA TopAndBelow ==
    ASSUME stack \in Seq(Frame)
    PROVE  /\ Top \in Frame
           /\ Top.k # "script" => stack # <<>>
           /\ stack # <<>> => Len(stack) \in DOMAIN stack /\ Top = stack[Len(stack)]
           /\ stack # <<>> => Below \in Seq(Frame)
           /\ stack # <<>> => DOMAIN Below = 1..(Len(stack) - 1)
           /\ stack # <<>> => \A i \in DOMAIN Below : Below[i] = stack[i]
<1>1. NoCall \in Frame
  BY NewFrameType DEF NoCall, Timeouts
<1>2. NoCall.k = "script"
  BY DEF NoCall, NewFrame
<1>3. CASE stack = <<>>
  BY <1>1, <1>2, <1>3 DEF Top
<1>4. CASE stack # <<>>
  <2>1. Len(stack) \in Nat /\ Len(stack) >= 1 /\ Len(stack) \in DOMAIN stack
    BY <1>4, EmptySeq, LenProperties
  <2>2. Top = stack[Len(stack)] /\ Top \in Frame
    BY <1>4, <2>1, ElementOfSeq DEF Top
  <2>3. DOMAIN Below = 1 .. (Len(stack) - 1) /\ \A i \in DOMAIN Below : Below[i] = stack[i]
    BY DEF Below
  <2>4. Below \in Seq(Frame)
    BY <2>1 DEF Below
  <2> QED BY <1>4, <2>1, <2>2, <2>3, <2>4
<1> QED BY <1>3, <1>4

\* Marking the joins below a call keeps the stack well formed.
LEMMA NestedType ==
    ASSUME NEW s \in Seq(Frame)
    PROVE  /\ Nested(s) \in Seq(Frame)
           /\ DOMAIN Nested(s) = DOMAIN s
           /\ \A i \in DOMAIN s : Nested(s)[i] = [s[i] EXCEPT !.nested = TRUE]
<1>1. \A i \in DOMAIN s : s[i] \in Frame
  BY ElementOfSeq, LenProperties
<1>2. \A i \in DOMAIN s : [s[i] EXCEPT !.nested = TRUE] \in Frame
  BY <1>1 DEF Frame
<1>3. Len(s) \in Nat /\ DOMAIN s = 1 .. Len(s)
  BY LenProperties
<1> QED BY <1>2, <1>3 DEF Nested

\* So does writing the flag of the innermost call.
LEMMA GotType ==
    ASSUME stack \in Seq(Frame), stack # <<>>, NEW b \in BOOLEAN
    PROVE  /\ [stack EXCEPT ![Len(stack)].got = b] \in Seq(Frame)
           /\ DOMAIN [stack EXCEPT ![Len(stack)].got = b] = DOMAIN stack
<1>1. /\ Len(stack) \in Nat /\ DOMAIN stack = 1 .. Len(stack)
      /\ Len(stack) \in DOMAIN stack
      /\ \A i \in DOMAIN stack : stack[i] \in Frame
  BY TopAndBelow, ElementOfSeq, LenProperties
<1>2. [stack[Len(stack)] EXCEPT !.got = b] \in Frame
  BY <1>1 DEF Frame
<1> QED BY <1>1, <1>2

\* What a call leaves behind as it returns.
LEMMA ReturnType ==
    ASSUME NEW f \in Frame, NEW ok \in BOOLEAN, NEW below \in Seq(Frame),
           exception \in BOOLEAN, Return(f, ok, below)
    PROVE  /\ stack' \in Seq(Frame)
           /\ returned' \in Outcome
BY NestedType DEF Return, Outcome

\* An event that joins the queue of the outside interpreter.
LEMMA PostOutType ==
    ASSUME queue \in Seq(Event), NEW k \in Callbacks, NEW w \in Worker, NEW n \in Nat,
           PostOut(k, w, n)
    PROVE  queue' \in Seq(Event)
BY AppendProperties DEF PostOut, Event

LEMMA InQueueType ==
    ASSUME InTypeOK, NEW w \in Worker, NEW e \in {"main", "message"},
           iqueue' = [iqueue EXCEPT ![w] = Append(@, e)]
    PROVE  (iqueue \in [Worker -> Seq({"main", "message"})])'
<1>1. iqueue \in [Worker -> Seq({"main", "message"})]
  BY DEF InTypeOK
<1>2. iqueue[w] \in Seq({"main", "message"})
  BY <1>1
<1>3. Append(iqueue[w], e) \in Seq({"main", "message"})
  BY <1>2, AppendProperties
<1> QED BY <1>1, <1>3

\* An event that leaves it.
LEMMA InTailType ==
    ASSUME InTypeOK, NEW w \in Worker, iqueue[w] # <<>>,
           iqueue' = [iqueue EXCEPT ![w] = Tail(@)]
    PROVE  (iqueue \in [Worker -> Seq({"main", "message"})])'
<1>1. iqueue \in [Worker -> Seq({"main", "message"})]
  BY DEF InTypeOK
<1>2. iqueue[w] \in Seq({"main", "message"})
  BY <1>1
<1>3. Tail(iqueue[w]) \in Seq({"main", "message"})
  BY <1>2, HeadTailProperties
<1> QED BY <1>1, <1>3

\* A call that begins.
LEMMA PushType ==
    ASSUME stack \in Seq(Frame), NEW k \in WaitCalls \cup Callbacks \cup {"preload", "script"},
           NEW on \in SUBSET Worker, NEW all \in BOOLEAN, NEW tmo \in Timeouts
    PROVE  Append(stack, NewFrame(k, on, all, tmo)) \in Seq(Frame)
BY NewFrameType, AppendProperties

\* What a call tells its script before it has returned.
LEMMA NoReturnType == NoReturn \in Outcome
BY NewFrameType DEF NoReturn, NoCall, Timeouts, Outcome

-----------------------------------------------------------------------------
(***************************************************************************)
(* Type correctness.                                                        *)
(***************************************************************************)
\* The end of doMessage writes the state of the worker and unlinks it.
LEMMA FinishMessageType ==
    ASSUME TypeOK, NEW ev, ev.w \in Worker,
           FinishMessage(ev) \/ UNCHANGED <<state, workers, linked>>
    PROVE  /\ (state \in [Worker -> 0..4])'
           /\ (linked \in [Worker -> BOOLEAN])'
           /\ (workers \subseteq Worker)'
<1> USE DEF TypeOK, OutTypeOK, EjsTypeOK
<1>1. CASE UNCHANGED <<state, workers, linked>>
  BY <1>1
<1>2. CASE /\ state' = [state EXCEPT ![ev.w] = COMPLETE]
           /\ linked' = [linked EXCEPT ![ev.w] = FALSE]
           /\ workers' = workers \ {ev.w}
  BY <1>2 DEF COMPLETE
<1> QED
  BY <1>1, <1>2 DEF FinishMessage, removeWorker

\* initWorker keeps the types.
LEMMA initWorkerType ==
    ASSUME TypeOK, NEW w \in Worker, NEW s \in Script \cup {NoScript},
           initWorker(w, s), returned' = NoReturn
    PROVE  TypeOK'
<1>1. OutTypeOK'
  BY DEF initWorker, TypeOK, OutTypeOK, BEGIN, STARTED
<1>2. EjsTypeOK'
  BY DEF initWorker, TypeOK, EjsTypeOK
<1>3. InTypeOK'
  BY InQueueType DEF initWorker, TypeOK, InTypeOK, exitVars, BEGIN
<1>4. HistTypeOK'
  BY NoReturnType DEF initWorker, TypeOK, HistTypeOK
<1> QED BY <1>1, <1>2, <1>3, <1>4 DEF TypeOK

\* startWorker keeps those it may change.
LEMMA startWorkerType ==
    ASSUME TypeOK, NEW w \in Worker, NEW s \in Script, NEW tmo \in {"zero", "finite", "none"},
           startWorker(w, s, tmo)
    PROVE  /\ EjsTypeOK' /\ InTypeOK' /\ HistTypeOK'
           /\ (state \in [Worker -> 0..4])'
<1>1. (stack \in Seq(Frame))'
  <2>1. tmo # "zero" => Append(stack, NewFrame("start", {w}, FALSE, tmo)) \in Seq(Frame)
    BY PushType DEF Timeouts, WaitCalls, TypeOK, EjsTypeOK
  <2> QED
    BY <2>1 DEF startWorker, TypeOK, EjsTypeOK
<1>2. (joining \in BOOLEAN /\ exception \in BOOLEAN)'
  BY DEF startWorker, Throw, TypeOK, EjsTypeOK
<1>3. UNCHANGED <<alive, workers, queue>>
  BY DEF startWorker
<1>4. EjsTypeOK'
  BY <1>1, <1>2, <1>3 DEF TypeOK, EjsTypeOK
<1>5. InTypeOK'
  BY InQueueType DEF startWorker, InTypeOK, exitVars, TypeOK
<1>6. HistTypeOK'
  BY NoReturnType DEF startWorker, HistTypeOK, TypeOK
<1>7. (state \in [Worker -> 0..4])'
  <2>1. UNCHANGED state \/ state' = [state EXCEPT ![w] = STARTED]
    BY DEF startWorker
  <2> QED BY <2>1 DEF OutTypeOK, TypeOK, STARTED
<1> QED BY <1>4, <1>5, <1>6, <1>7
\* The first state is well typed.
LEMMA InitType == Init => TypeOK
<1> SUFFICES ASSUME Init PROVE TypeOK
  OBVIOUS
<1>1. OutTypeOK
  BY DEF Init, OutTypeOK, Absent
<1>2. EjsTypeOK
  <2>1. stack \in Seq(Frame) /\ queue \in Seq(Event)
    BY EmptySeq DEF Init
  <2>2. alive \in BOOLEAN /\ joining \in BOOLEAN /\ exception \in BOOLEAN /\ workers = {}
    BY DEF Init
  <2> QED
    BY <2>1, <2>2 DEF EjsTypeOK
<1>3. InTypeOK
  BY DEF Init, InTypeOK, InPoints, Absent
<1>4. HistTypeOK
  BY NoReturnType DEF Init, HistTypeOK
<1> QED
  BY <1>1, <1>2, <1>3, <1>4 DEF TypeOK

\* What a signal and the end of doMessage leave in the condition.
LEMMA SignalType ==
    ASSUME InTypeOK, NEW w \in Worker, Signal(w)
    PROVE  (iwakes \in [Worker -> 0..2])'
BY DEF InTypeOK, Signal

LEMMA MessageDoneType ==
    ASSUME InTypeOK, NEW w \in Worker, MessageDone(w)
    PROVE  (iwakes \in [Worker -> 0..2])'
BY DEF InTypeOK, MessageDone

\* Every step keeps the types: one step of the proof per action.
LEMMA NextType == TypeOK /\ [Next]_vars => TypeOK'
<1> SUFFICES ASSUME TypeOK, [Next]_vars PROVE TypeOK'
  OBVIOUS
<1>0. CASE UNCHANGED vars
  BY <1>0 DEF vars, outVars, ejsVars, inVars, histVars, TypeOK, OutTypeOK, EjsTypeOK, InTypeOK, exitVars, HistTypeOK
<1> USE DEF TypeOK
<1>1. ASSUME NEW w \in Worker, NEW s \in Script \cup {NoScript}, Construct(w, s)
      PROVE  TypeOK'
  BY <1>1, initWorkerType DEF Construct
<1>2. ASSUME NEW w \in Worker, Fork(w)
      PROVE  TypeOK'
  BY <1>2, initWorkerType DEF Fork
<1>3. ASSUME NEW b \in Worker, NEW w \in Worker, Clone(b, w)
      PROVE  TypeOK'
  <2>1. CASE initWorker(w, NoScript)
    BY <1>3, <2>1, initWorkerType DEF Clone
  <2>2. CASE crashed' = TRUE /\ UNCHANGED <<outVars, ejsVars, inVars, asked, ran, sent, received, posted, skipped>>
    BY <1>3, <2>2, NoReturnType
       DEF Clone, outVars, ejsVars, inVars, OutTypeOK, EjsTypeOK, InTypeOK, exitVars, HistTypeOK
  <2> QED
    BY <1>3, <2>1, <2>2 DEF Clone
<1>4. ASSUME NEW w \in Worker, NEW s \in Script, NEW tmo \in {"zero", "finite", "none"}, Load(w, s, tmo)
      PROVE  TypeOK'
  <2>1. EjsTypeOK' /\ InTypeOK' /\ HistTypeOK' /\ (state \in [Worker -> 0..4])'
    BY <1>4, startWorkerType DEF Load
  <2>2. /\ file' = [file EXCEPT ![w] = s]
        /\ UNCHANGED <<linked, literal, gotMessage, program>>
    BY <1>4 DEF Load, startWorker
  <2> QED
    BY <2>1, <2>2 DEF OutTypeOK
<1>5. ASSUME NEW w \in Worker, NEW s \in Script, NEW tmo \in {"zero", "finite", "none"}, Eval(w, s, tmo)
      PROVE  TypeOK'
  <2>1. EjsTypeOK' /\ InTypeOK' /\ HistTypeOK' /\ (state \in [Worker -> 0..4])'
    BY <1>5, startWorkerType DEF Eval
  <2>2. /\ literal' = [literal EXCEPT ![w] = s]
        /\ UNCHANGED <<linked, file, gotMessage, program>>
    BY <1>5 DEF Eval, startWorker
  <2> QED
    BY <2>1, <2>2 DEF OutTypeOK
<1>6. ASSUME NEW w \in Worker, PostMessage(w)
      PROVE  TypeOK'
  <2>1. OutTypeOK'
    BY <1>6 DEF PostMessage, OutTypeOK, outVars
  <2>2. EjsTypeOK'
    BY <1>6 DEF PostMessage, EjsTypeOK, Throw, ejsVars
  <2>3. InTypeOK'
    BY <1>6, InQueueType DEF PostMessage, InTypeOK, exitVars, inVars
  <2>4. HistTypeOK'
    <3>1. (posted \in [Worker -> Nat])'
      <4>1. posted' = posted \/ posted' = [posted EXCEPT ![w] = @ + 1]
        BY <1>6 DEF PostMessage
      <4> QED
        BY <4>1 DEF HistTypeOK
    <3>2. UNCHANGED <<asked, ran, sent, received, skipped, crashed>> /\ returned' = NoReturn
      BY <1>6 DEF PostMessage
    <3> QED
      BY <3>1, <3>2, NoReturnType DEF HistTypeOK
  <2> QED
    BY <2>1, <2>2, <2>3, <2>4
<1>7. ASSUME NEW w \in Worker, Terminate(w)
      PROVE  TypeOK'
  <2>1. OutTypeOK'
    BY <1>7 DEF Terminate, OutTypeOK, outVars
  <2>2. EjsTypeOK'
    BY <1>7 DEF Terminate, EjsTypeOK, Throw, ejsVars
  <2>3. InTypeOK'
    BY <1>7, SignalType DEF Terminate, InTypeOK
  <2>4. HistTypeOK'
    BY <1>7, NoReturnType DEF Terminate, HistTypeOK, histVars
  <2> QED
    BY <2>1, <2>2, <2>3, <2>4
<1>8. ASSUME NEW on \in SUBSET Worker, NEW all \in BOOLEAN, NEW tmo \in Timeouts, Join(on, all, tmo)
      PROVE  TypeOK'
  <2> DEFINE f == NewFrame("join", IF all THEN workers ELSE on, all, tmo)
  <2>1. f \in Frame /\ stack \in Seq(Frame) /\ exception \in BOOLEAN
    BY NewFrameType DEF WaitCalls, EjsTypeOK
  <2>2. \/ Return(f, TRUE, stack) /\ joining' = FALSE
        \/ stack' = Append(stack, f) /\ returned' = NoReturn /\ joining' = TRUE
    BY <1>8 DEF Join
  <2>a. UNCHANGED <<alive, workers, exception, queue, asked, ran, sent, received, posted, skipped, crashed>>
    BY <1>8 DEF Join
  <2> HIDE DEF f
  <2>3. (stack \in Seq(Frame) /\ joining \in BOOLEAN /\ returned \in Outcome)'
    <3>1. CASE Return(f, TRUE, stack) /\ joining' = FALSE
      BY <3>1, <2>1, ReturnType
    <3>2. CASE stack' = Append(stack, f) /\ returned' = NoReturn /\ joining' = TRUE
      <4>1. Append(stack, f) \in Seq(Frame)
        BY <2>1, AppendProperties
      <4> QED BY <3>2, <4>1, NoReturnType
    <3> QED BY <2>2, <3>1, <3>2
  <2>4. OutTypeOK' /\ InTypeOK'
    BY <1>8 DEF Join, OutTypeOK, outVars, InTypeOK, exitVars, inVars
  <2> QED BY <2>3, <2>4, <2>a DEF EjsTypeOK, HistTypeOK
<1>9. ASSUME NEW w \in Worker, NEW tmo \in {"finite", "none"}, WaitForMessage(w, tmo)
      PROVE  TypeOK'
  <2>1. OutTypeOK'
    BY <1>9 DEF WaitForMessage, OutTypeOK, outVars
  <2>2. EjsTypeOK'
    <3>1. Append(stack, NewFrame("wait", {w}, FALSE, tmo)) \in Seq(Frame)
      BY PushType DEF Timeouts, WaitCalls, EjsTypeOK
    <3> QED
      BY <1>9, <3>1 DEF WaitForMessage, EjsTypeOK
  <2>3. InTypeOK'
    BY <1>9 DEF WaitForMessage, InTypeOK, exitVars, inVars
  <2>4. HistTypeOK'
    BY <1>9, NoReturnType DEF WaitForMessage, HistTypeOK, histVars
  <2> QED
    BY <2>1, <2>2, <2>3, <2>4
<1>10. ASSUME NEW c \in {"run", "sleep"}, NEW tmo \in {"finite", "none"}, Serve(c, tmo)
      PROVE  TypeOK'
  <2>1. OutTypeOK'
    BY <1>10 DEF Serve, OutTypeOK, outVars
  <2>2. EjsTypeOK'
    <3>1. Append(stack, NewFrame(c, {}, FALSE, tmo)) \in Seq(Frame)
      BY PushType DEF Timeouts, WaitCalls, EjsTypeOK
    <3> QED
      BY <1>10, <3>1 DEF Serve, EjsTypeOK
  <2>3. InTypeOK'
    BY <1>10 DEF Serve, InTypeOK, exitVars, inVars
  <2>4. HistTypeOK'
    BY <1>10, NoReturnType DEF Serve, HistTypeOK, histVars
  <2> QED
    BY <2>1, <2>2, <2>3, <2>4
<1>11. ASSUME NEW w \in Worker, Preload(w)
      PROVE  TypeOK'
  <2>1. OutTypeOK'
    BY <1>11 DEF Preload, OutTypeOK, outVars
  <2>2. EjsTypeOK'
    <3>1. Append(stack, NewFrame("preload", {w}, FALSE, "none")) \in Seq(Frame)
      BY PushType DEF Timeouts, EjsTypeOK
    <3>2. (stack \in Seq(Frame) /\ exception \in BOOLEAN)'
      BY <1>11, <3>1 DEF Preload, Throw, EjsTypeOK
    <3> QED
      BY <1>11, <3>2 DEF Preload, EjsTypeOK
  <2>3. InTypeOK'
    BY <1>11 DEF Preload, InTypeOK, exitVars, inVars
  <2>4. HistTypeOK'
    BY <1>11, NoReturnType DEF Preload, HistTypeOK, histVars
  <2> QED
    BY <2>1, <2>2, <2>3, <2>4
<1>12. ASSUME NEW w \in Worker, PreloadPost(w)
      PROVE  TypeOK'
  <2>1. OutTypeOK'
    BY <1>12 DEF PreloadPost, OutTypeOK, outVars
  <2>2. EjsTypeOK'
    BY <1>12, PostOutType DEF PreloadPost, EjsTypeOK, Callbacks, HistTypeOK
  <2>3. InTypeOK'
    BY <1>12 DEF PreloadPost, InTypeOK, exitVars, inVars
  <2>4. HistTypeOK'
    BY <1>12 DEF PreloadPost, HistTypeOK, histVars
  <2> QED
    BY <2>1, <2>2, <2>3, <2>4
<1>13. ASSUME NEW w \in Worker, NEW throws \in BOOLEAN, PreloadReturn(w, throws)
      PROVE  TypeOK'
  <2>1. OutTypeOK'
    BY <1>13 DEF PreloadReturn, OutTypeOK, outVars
  <2>2. EjsTypeOK'
    BY <1>13, TopAndBelow, PostOutType DEF PreloadReturn, EjsTypeOK, Callbacks, Throw, InPreload
  <2>3. InTypeOK'
    BY <1>13 DEF PreloadReturn, InTypeOK, exitVars, inVars
  <2>4. HistTypeOK'
    BY <1>13 DEF PreloadReturn, HistTypeOK, histVars
  <2> QED
    BY <2>1, <2>2, <2>3, <2>4
<1>14. ASSUME Catch
      PROVE  TypeOK'
  <2>1. OutTypeOK'
    BY <1>14 DEF Catch, OutTypeOK, outVars
  <2>2. EjsTypeOK'
    BY <1>14 DEF Catch, EjsTypeOK, ejsVars
  <2>3. InTypeOK'
    BY <1>14 DEF Catch, InTypeOK, exitVars, inVars
  <2>4. HistTypeOK'
    BY <1>14, NoReturnType DEF Catch, HistTypeOK, histVars
  <2> QED
    BY <2>1, <2>2, <2>3, <2>4
<1>15. ASSUME NEW handler \in BOOLEAN, Dispatch(handler)
      PROVE  TypeOK'
  <2> DEFINE ev == Head(queue)
             pumped == [stack EXCEPT ![Len(stack)].got = TRUE]
  <2>1. ev \in Event /\ queue' \in Seq(Event)
    BY <1>15, HeadTailProperties DEF Dispatch, TypeOK, EjsTypeOK
  <2>2. stack # <<>>
    BY <1>15 DEF Dispatch, InWait, Top, NoCall, NewFrame, WaitCalls
  <2>3. pumped \in Seq(Frame)
    BY <2>2, GotType DEF TypeOK, EjsTypeOK
  <2>4. NewFrame(ev.k, {ev.w}, FALSE, "none") \in Frame
    BY <2>1, NewFrameType DEF Event, Timeouts
  <2>d. ev.w \in Worker /\ ev.k \in Callbacks /\ ev.n \in Nat
     BY <2>1 DEF Event
  <2>5. /\ stack' = pumped \/ stack' = Append(pumped, NewFrame(ev.k, {ev.w}, FALSE, "none"))
        /\ UNCHANGED <<state, workers, linked>> \/ FinishMessage(ev)
        /\ gotMessage' = [gotMessage EXCEPT ![ev.w] = TRUE]
        /\ received' = [received EXCEPT ![ev.w] = IF ev.k = "message" THEN ev.n ELSE @]
        /\ skipped' = [skipped EXCEPT ![ev.w] = @ \cup IF handler /\ exception THEN {ev.k} ELSE {}]
        /\ exception' = (exception \/ (ev.k = "error" /\ ~handler))
        /\ returned' = NoReturn
        /\ UNCHANGED <<file, literal, program, alive, joining, inVars, asked, ran, sent, posted, crashed>>
    BY <1>15 DEF Dispatch
  <2> HIDE DEF ev, pumped
  <2>6. (stack \in Seq(Frame))'
    <3>1. Append(pumped, NewFrame(ev.k, {ev.w}, FALSE, "none")) \in Seq(Frame)
      BY <2>3, <2>4, AppendProperties
    <3> QED BY <2>3, <2>5, <3>1
  <2>7. (state \in [Worker -> 0..4] /\ linked \in [Worker -> BOOLEAN] /\ workers \subseteq Worker)'
    BY <2>d, <2>5, FinishMessageType
  <2>8. OutTypeOK'
    BY <2>5, <2>d, <2>7 DEF TypeOK, OutTypeOK
  <2>9. EjsTypeOK'
    BY <2>1, <2>5, <2>6, <2>7 DEF TypeOK, EjsTypeOK
  <2>10. InTypeOK'
    BY <2>5 DEF inVars, TypeOK, InTypeOK, exitVars
  <2>11. HistTypeOK'
    BY <2>5, <2>d, NoReturnType DEF TypeOK, HistTypeOK
  <2> QED BY <2>8, <2>9, <2>10, <2>11 DEF TypeOK
<1>16. ASSUME NEW throws \in BOOLEAN, CallbackReturn(throws)
      PROVE  TypeOK'
  <2>1. Top.on \subseteq Worker /\ Below \in Seq(Frame)
    BY <1>16, TopAndBelow DEF CallbackReturn, Callbacks, Frame, EjsTypeOK
  <2>2. PICK w \in Worker : FinishMessage([k |-> Top.k, w |-> w, n |-> 0])
    BY <1>16, <2>1 DEF CallbackReturn
  <2>3. (state \in [Worker -> 0..4] /\ linked \in [Worker -> BOOLEAN] /\ workers \subseteq Worker)'
    <3> DEFINE ev == [k |-> Top.k, w |-> w, n |-> 0]
    <3>1. FinishMessage(ev) /\ ev.w \in Worker
      BY <2>2
    <3> HIDE DEF ev
    <3> QED
      BY <3>1, FinishMessageType
  <2>4. OutTypeOK'
    BY <1>16, <2>3 DEF CallbackReturn, OutTypeOK
  <2>5. EjsTypeOK'
    BY <1>16, <2>1, <2>3 DEF CallbackReturn, EjsTypeOK
  <2>6. InTypeOK'
    BY <1>16 DEF CallbackReturn, inVars, InTypeOK, exitVars
  <2>7. HistTypeOK'
    BY <1>16, NoReturnType DEF CallbackReturn, HistTypeOK
  <2> QED
    BY <2>4, <2>5, <2>6, <2>7
<1>17. ASSUME NEW timesOut \in BOOLEAN, LoopTest(timesOut)
      PROVE  TypeOK'
  <2>1. OutTypeOK'
    BY <1>17 DEF LoopTest, OutTypeOK, outVars
  <2>2. EjsTypeOK'
    BY <1>17, TopAndBelow, ReturnType, GotType DEF LoopTest, EjsTypeOK, InWait, WaitCalls
  <2>3. InTypeOK'
    BY <1>17 DEF LoopTest, InTypeOK, exitVars, inVars
  <2>4. HistTypeOK'
    BY <1>17, NoReturnType, TopAndBelow, ReturnType DEF LoopTest, HistTypeOK, EjsTypeOK, InWait, WaitCalls, histVars
  <2> QED
    BY <2>1, <2>2, <2>3, <2>4
<1>18. ASSUME DestroyVM
      PROVE  TypeOK'
  <2>1. OutTypeOK'
    BY <1>18 DEF DestroyVM, OutTypeOK, outVars
  <2>2. EjsTypeOK'
    <3>1. queue' \in Seq(Event) /\ workers' = {} /\ alive' = FALSE
      BY <1>18, EmptySeq DEF DestroyVM
    <3> QED
      BY <1>18, <3>1 DEF DestroyVM, EjsTypeOK
  <2>3. InTypeOK'
    BY <1>18 DEF DestroyVM, InTypeOK, exitVars, inVars
  <2>4. HistTypeOK'
    BY <1>18, NoReturnType DEF DestroyVM, HistTypeOK, histVars
  <2> QED
    BY <2>1, <2>2, <2>3, <2>4
<1>19. ASSUME NEW w \in Worker, InsideMain(w)
      PROVE  TypeOK'
  <2>1. OutTypeOK'
    BY <1>19 DEF InsideMain, OutTypeOK, outVars
  <2>2. EjsTypeOK'
    BY <1>19 DEF InsideMain, EjsTypeOK, Throw
  <2>3. InTypeOK'
    <3>1. (ipc \in [Worker -> InPoints])' /\ (iexception \in [Worker -> BOOLEAN])'
      BY <1>19 DEF InsideMain, InTypeOK, InPoints
    <3>2. (istate \in [Worker -> 0..4])'
      BY <1>19 DEF InsideMain, InTypeOK, STARTED
    <3>3. (iqueue \in [Worker -> Seq({"main", "message"})])'
      BY <1>19, InTailType DEF InsideMain
    <3> QED
      BY <1>19, <3>1, <3>2, <3>3 DEF InsideMain, InTypeOK, exitVars
  <2>4. HistTypeOK'
    BY <1>19 DEF InsideMain, HistTypeOK, OutTypeOK
  <2> QED
    BY <2>1, <2>2, <2>3, <2>4
<1>20. ASSUME NEW w \in Worker, InsidePost(w)
      PROVE  TypeOK'
  <2>1. OutTypeOK'
    BY <1>20 DEF InsidePost, OutTypeOK, outVars
  <2>2. EjsTypeOK'
    BY <1>20, PostOutType DEF InsidePost, EjsTypeOK, Callbacks, HistTypeOK
  <2>3. InTypeOK'
    BY <1>20 DEF InsidePost, InTypeOK, exitVars
  <2>4. HistTypeOK'
    <3>1. (sent \in [Worker -> Nat])'
      BY <1>20 DEF InsidePost, HistTypeOK
    <3>2. (crashed \in BOOLEAN)'
      BY <1>20 DEF InsidePost, HistTypeOK
    <3> QED
      BY <1>20, <3>1, <3>2 DEF InsidePost, HistTypeOK
  <2> QED
    BY <2>1, <2>2, <2>3, <2>4
<1>21. ASSUME NEW w \in Worker, InsideExit(w)
      PROVE  TypeOK'
  <2>1. OutTypeOK'
    BY <1>21 DEF InsideExit, OutTypeOK, outVars
  <2>2. EjsTypeOK'
    BY <1>21 DEF InsideExit, EjsTypeOK, ejsVars
  <2>3. InTypeOK'
    BY <1>21 DEF InsideExit, InTypeOK
  <2>4. HistTypeOK'
    BY <1>21 DEF InsideExit, HistTypeOK, histVars
  <2> QED
    BY <2>1, <2>2, <2>3, <2>4
<1>21a. ASSUME NEW w \in Worker, InsideTerminate(w)
      PROVE  TypeOK'
  <2>1. OutTypeOK'
    BY <1>21a DEF InsideTerminate, OutTypeOK, outVars
  <2>2. EjsTypeOK'
    BY <1>21a DEF InsideTerminate, EjsTypeOK, ejsVars
  <2>3. InTypeOK'
    BY <1>21a, SignalType DEF InsideTerminate, InTypeOK
  <2>4. HistTypeOK'
    BY <1>21a DEF InsideTerminate, HistTypeOK, histVars
  <2> QED
    BY <2>1, <2>2, <2>3, <2>4
<1>22. ASSUME NEW w \in Worker, NEW c \in WaitPoints, InsideWait(c, w)
      PROVE  TypeOK'
  <2>1. OutTypeOK'
    BY <1>22 DEF InsideWait, OutTypeOK, outVars
  <2>2. EjsTypeOK'
    BY <1>22 DEF InsideWait, EjsTypeOK, ejsVars
  <2>3. InTypeOK'
    BY <1>22 DEF InsideWait, InTypeOK, exitVars, InPoints
  <2>4. HistTypeOK'
    BY <1>22 DEF InsideWait, HistTypeOK, histVars
  <2> QED
    BY <2>1, <2>2, <2>3, <2>4
<1>23. ASSUME NEW w \in Worker, InsideThrow(w)
      PROVE  TypeOK'
  <2>1. OutTypeOK'
    BY <1>23 DEF InsideThrow, OutTypeOK, outVars
  <2>2. EjsTypeOK'
    BY <1>23 DEF InsideThrow, EjsTypeOK, ejsVars
  <2>3. InTypeOK'
    BY <1>23 DEF InsideThrow, InTypeOK, exitVars, inVars
  <2>4. HistTypeOK'
    BY <1>23 DEF InsideThrow, HistTypeOK, histVars
  <2> QED
    BY <2>1, <2>2, <2>3, <2>4
<1>24. ASSUME NEW w \in Worker, InsideCatch(w)
      PROVE  TypeOK'
  <2>1. OutTypeOK'
    BY <1>24 DEF InsideCatch, OutTypeOK, outVars
  <2>2. EjsTypeOK'
    BY <1>24 DEF InsideCatch, EjsTypeOK, ejsVars
  <2>3. InTypeOK'
    BY <1>24 DEF InsideCatch, InTypeOK, exitVars, inVars
  <2>4. HistTypeOK'
    BY <1>24 DEF InsideCatch, HistTypeOK, histVars
  <2> QED
    BY <2>1, <2>2, <2>3, <2>4
<1>25. ASSUME NEW w \in Worker, NEW handler \in BOOLEAN, InsideDispatch(w, handler)
      PROVE  TypeOK'
  <2>1. OutTypeOK'
    BY <1>25 DEF InsideDispatch, OutTypeOK, outVars
  <2>2. EjsTypeOK'
    BY <1>25 DEF InsideDispatch, EjsTypeOK, ejsVars
  <2>3. InTypeOK'
    <3>1. (icallback \in [Worker -> BOOLEAN])' /\ (igot \in [Worker -> BOOLEAN])'
      BY <1>25 DEF InsideDispatch, InTypeOK
    <3>2. (iattention \in [Worker -> BOOLEAN])' /\ (iwakes \in [Worker -> 0..2])'
      BY <1>25, MessageDoneType DEF InsideDispatch, InTypeOK
    <3>3. (iqueue \in [Worker -> Seq({"main", "message"})])'
      BY <1>25, InTailType DEF InsideDispatch
    <3> QED
      BY <1>25, <3>1, <3>2, <3>3 DEF InsideDispatch, InTypeOK
  <2>4. HistTypeOK'
    BY <1>25 DEF InsideDispatch, HistTypeOK
  <2> QED
    BY <2>1, <2>2, <2>3, <2>4
<1>26. ASSUME NEW w \in Worker, InsideCallbackReturn(w)
      PROVE  TypeOK'
  <2>1. OutTypeOK'
    BY <1>26 DEF InsideCallbackReturn, OutTypeOK, outVars
  <2>2. EjsTypeOK'
    BY <1>26 DEF InsideCallbackReturn, EjsTypeOK, ejsVars
  <2>3. InTypeOK'
    BY <1>26, MessageDoneType DEF InsideCallbackReturn, InTypeOK
  <2>4. HistTypeOK'
    BY <1>26 DEF InsideCallbackReturn, HistTypeOK, histVars
  <2> QED
    BY <2>1, <2>2, <2>3, <2>4
<1>27. ASSUME NEW w \in Worker, NEW timesOut \in BOOLEAN, InsideLoopTest(w, timesOut)
      PROVE  TypeOK'
  <2>1. OutTypeOK'
    BY <1>27 DEF InsideLoopTest, OutTypeOK, outVars
  <2>2. EjsTypeOK'
    BY <1>27 DEF InsideLoopTest, EjsTypeOK, ejsVars
  <2>3. InTypeOK'
    BY <1>27 DEF InsideLoopTest, InTypeOK, InPoints
  <2>4. HistTypeOK'
    BY <1>27 DEF InsideLoopTest, HistTypeOK, histVars
  <2> QED
    BY <2>1, <2>2, <2>3, <2>4
<1>28. ASSUME NEW w \in Worker, InsideFinish(w)
      PROVE  TypeOK'
  <2>1. OutTypeOK'
    BY <1>28 DEF InsideFinish, OutTypeOK, outVars
  <2>2. EjsTypeOK'
    BY <1>28 DEF InsideFinish, EjsTypeOK, ejsVars
  <2>3. InTypeOK'
    BY <1>28 DEF InsideFinish, InTypeOK, InPoints
  <2>4. HistTypeOK'
    BY <1>28 DEF InsideFinish, HistTypeOK, histVars
  <2> QED
    BY <2>1, <2>2, <2>3, <2>4
<1>29. ASSUME NEW w \in Worker, InsideReport(w)
      PROVE  TypeOK'
  <2>1. OutTypeOK'
    BY <1>29 DEF InsideReport, OutTypeOK, outVars
  <2>2. EjsTypeOK'
    BY <1>29, PostOutType DEF InsideReport, EjsTypeOK, Callbacks
  <2>3. InTypeOK'
    BY <1>29 DEF InsideReport, InTypeOK, exitVars
  <2>4. HistTypeOK'
    BY <1>29 DEF InsideReport, HistTypeOK, histVars
  <2> QED
    BY <2>1, <2>2, <2>3, <2>4
<1>30. ASSUME NEW w \in Worker, InsideClose(w)
      PROVE  TypeOK'
  <2>1. OutTypeOK'
    BY <1>30 DEF InsideClose, OutTypeOK, CLOSED
  <2>2. EjsTypeOK'
    BY <1>30 DEF InsideClose, EjsTypeOK, ejsVars
  <2>3. InTypeOK'
    BY <1>30 DEF InsideClose, InTypeOK, exitVars, InPoints, CLOSED
  <2>4. HistTypeOK'
    BY <1>30 DEF InsideClose, HistTypeOK, histVars
  <2> QED
    BY <2>1, <2>2, <2>3, <2>4
<1>31. ASSUME NEW w \in Worker, InsidePostClose(w)
      PROVE  TypeOK'
  <2>1. OutTypeOK'
    BY <1>31 DEF InsidePostClose, OutTypeOK, outVars
  <2>2. EjsTypeOK'
    BY <1>31, PostOutType DEF InsidePostClose, EjsTypeOK, Callbacks
  <2>3. InTypeOK'
    BY <1>31 DEF InsidePostClose, InTypeOK, exitVars, InPoints
  <2>4. HistTypeOK'
    BY <1>31 DEF InsidePostClose, HistTypeOK, histVars
  <2> QED
    BY <2>1, <2>2, <2>3, <2>4
<1> QED
  BY <1>0, <1>1, <1>2, <1>3, <1>4, <1>5, <1>6, <1>7, <1>8, <1>9, <1>10, <1>11, <1>12, <1>13, <1>14, <1>15, <1>16, <1>17, <1>18, <1>19, <1>20, <1>21, <1>22, <1>23, <1>24, <1>25, <1>26, <1>27, <1>28, <1>29, <1>30, <1>31, <1>21a DEF Next, MainThread, InsideThread

\* Every value of the state of a worker, of its queues and of the calls on the
\* main thread is one the code gives it.
THEOREM TypeCorrect == Spec => []TypeOK
BY InitType, NextType, PTL DEF Spec

-----------------------------------------------------------------------------
(***************************************************************************)
(* The inductive invariant.                                                 *)
(***************************************************************************)

\* The two objects of a pair and the thread of the inside one go through the
\* life of a worker together.
ThreadsAgree ==
    \A w \in Worker :
        /\ state[w] = Absent => iqueue[w] = <<>> /\ ~icallback[w]
        /\ state[w] \in {Absent, BEGIN} => istate[w] = state[w] /\ ipc[w] = "idle"
        /\ state[w] = STARTED => istate[w] \in {BEGIN, STARTED}
        /\ state[w] \in {CLOSED, COMPLETE} => istate[w] = CLOSED
        /\ ipc[w] \in {"script", "ended"} \cup WaitPoints => istate[w] = STARTED /\ state[w] = STARTED
        /\ ipc[w] = "closed" => state[w] = CLOSED

\* workerMain is queued once, for a worker that has been started.
MainIsNext ==
    \A w \in Worker :
        /\ \A i \in DOMAIN iqueue[w] : iqueue[w][i] = "main" => state[w] = STARTED /\ istate[w] = BEGIN
        /\ \A i, j \in DOMAIN iqueue[w] : iqueue[w][i] = "main" /\ iqueue[w][j] = "main" => i = j

\* An event is about a worker that has not completed; one for onclose, about
\* one that has nothing more to say; one for onmessage carries a message that
\* has been posted and not been taken.
EventsHold ==
    \A i \in DOMAIN queue :
        /\ Live(queue[i].w)
        /\ queue[i].k = "close" => state[queue[i].w] = CLOSED /\ ipc[queue[i].w] = "idle"
        /\ queue[i].k = "message" => received[queue[i].w] < queue[i].n /\ queue[i].n <= sent[queue[i].w]

\* The events of a worker are in the order it queued them.
InOrder ==
    \A i, j \in DOMAIN queue :
        i < j /\ queue[i].w = queue[j].w =>
            /\ queue[i].k # "close"
            /\ queue[i].k = "message" /\ queue[j].k = "message" => queue[i].n < queue[j].n

\* A message that has been posted has been taken or is in the queue.
MessagesAreQueued ==
    /\ \A w \in Worker : received[w] <= sent[w]
    /\ alive => \A w \in Worker : \A n \in Nat :
                    received[w] < n /\ n <= sent[w] =>
                        \E i \in DOMAIN queue :
                            queue[i].k = "message" /\ queue[i].w = w /\ queue[i].n = n

\* A worker whose onclose callback runs has nothing more to say.
ClosedUp(w) ==
    /\ state[w] = CLOSED /\ ipc[w] = "idle"
    /\ received[w] = sent[w]
    /\ \A j \in DOMAIN queue : queue[j].w # w

CallsHold ==
    /\ \A i \in DOMAIN stack :
          /\ stack[i].k = "preload" => i = Len(stack) /\ \A w \in stack[i].on : state[w] = BEGIN
          /\ stack[i].k \in Callbacks => \E w \in Worker : stack[i].on = {w}
          /\ stack[i].k = "close" => \A w \in stack[i].on : ClosedUp(w)
    /\ \A i, j \in DOMAIN stack :
          stack[i].k = "close" /\ stack[j].k = "close" /\ i # j => stack[i].on \cap stack[j].on = {}

Core ==
    /\ ThreadsAgree /\ MainIsNext /\ ListAndLinksAgree
    /\ EventsHold /\ InOrder
    /\ MessagesAreQueued /\ CompleteHasAllMessages
    /\ CallsHold

coreVars == <<state, linked, alive, workers, stack, queue, istate, iqueue, ipc, icallback, sent, received>>

-----------------------------------------------------------------------------
(***************************************************************************)
(* The queue of the outside interpreter.                                    *)
(***************************************************************************)

\* An event that is added comes last.
LEMMA Queued ==
    ASSUME queue \in Seq(Event), NEW k \in Callbacks, NEW w \in Worker, NEW n \in Nat,
           PostOut(k, w, n)
    PROVE  /\ Len(queue) \in Nat /\ DOMAIN queue = 1 .. Len(queue)
           /\ DOMAIN queue' = 1 .. (Len(queue) + 1)
           /\ \A i \in DOMAIN queue : queue'[i] = queue[i]
           /\ queue'[Len(queue) + 1].k = k
           /\ queue'[Len(queue) + 1].w = w
           /\ queue'[Len(queue) + 1].n = n
<1> DEFINE ev == [k |-> k, w |-> w, n |-> n]
<1>1. ev \in Event /\ ev.k = k /\ ev.w = w /\ ev.n = n
  BY DEF Event
<1>2. queue' = Append(queue, ev)
  BY DEF PostOut
<1> HIDE DEF ev
<1>3. queue'[Len(queue) + 1] = ev
  BY <1>1, <1>2, AppendProperties
<1> QED BY <1>1, <1>2, <1>3, AppendProperties, LenProperties

\* An event that is taken was first.
LEMMA Unqueued ==
    ASSUME queue \in Seq(Event), queue # <<>>, queue' = Tail(queue)
    PROVE  /\ Len(queue) \in Nat /\ DOMAIN queue = 1 .. Len(queue) /\ 1 \in DOMAIN queue
           /\ DOMAIN queue' = 1 .. (Len(queue) - 1)
           /\ \A i \in DOMAIN queue' : i + 1 \in DOMAIN queue /\ queue'[i] = queue[i + 1]
           /\ Head(queue) = queue[1]
<1>1. Len(queue) \in Nat /\ DOMAIN queue = 1 .. Len(queue) /\ Len(queue) >= 1
  BY LenProperties, EmptySeq
<1>2. queue' \in Seq(Event) /\ Len(queue') = Len(queue) - 1
      /\ \A i \in 1 .. Len(queue') : queue'[i] = queue[i + 1]
  BY HeadTailProperties
<1>3. DOMAIN queue' = 1 .. Len(queue')
  BY <1>2, LenProperties
<1> QED BY <1>1, <1>2, <1>3

\* The fields of an event.
LEMMA EventFields ==
    ASSUME queue \in Seq(Event), NEW i \in DOMAIN queue
    PROVE  queue[i].k \in Callbacks /\ queue[i].w \in Worker /\ queue[i].n \in Nat
<1>1. queue[i] \in Event
  BY ElementOfSeq, LenProperties
<1> QED BY <1>1 DEF Event

\* The events stay as they are while their workers do.
LEMMA EventsStay ==
    ASSUME TypeOK, TypeOK', EventsHold, InOrder, queue' = queue, received' = received,
           \A v \in Worker : sent'[v] >= sent[v],
           \A v \in Worker : Live(v) => Live(v)',
           \A v \in Worker : state[v] = CLOSED /\ ipc[v] = "idle" => state'[v] = CLOSED /\ ipc'[v] = "idle"
    PROVE  EventsHold' /\ InOrder'
<1>1. queue \in Seq(Event) /\ sent \in [Worker -> Nat] /\ sent' \in [Worker -> Nat]
      /\ received \in [Worker -> Nat]
  BY DEF TypeOK, EjsTypeOK, HistTypeOK
<1>2. InOrder'
  BY DEF InOrder
<1>3. ASSUME NEW i \in DOMAIN queue
      PROVE  /\ Live(queue[i].w)'
             /\ queue[i].k = "close" => state'[queue[i].w] = CLOSED /\ ipc'[queue[i].w] = "idle"
             /\ queue[i].k = "message" => received[queue[i].w] < queue[i].n /\ queue[i].n <= sent'[queue[i].w]
  <2>1. queue[i].w \in Worker /\ queue[i].n \in Nat
    BY <1>1, <1>3, EventFields
  <2>2. /\ Live(queue[i].w)
        /\ queue[i].k = "close" => state[queue[i].w] = CLOSED /\ ipc[queue[i].w] = "idle"
        /\ queue[i].k = "message" => received[queue[i].w] < queue[i].n /\ queue[i].n <= sent[queue[i].w]
    BY <1>3 DEF EventsHold
  <2> QED BY <1>1, <2>1, <2>2
<1>4. EventsHold'
  BY <1>3 DEF EventsHold, Live
<1> QED BY <1>2, <1>4

\* An event is added by a worker that has not closed, and it is newer than the
\* others of the worker.
LEMMA EventsGrow ==
    ASSUME TypeOK, TypeOK', EventsHold, InOrder,
           NEW k \in Callbacks, NEW w \in Worker, NEW n \in Nat, PostOut(k, w, n),
           Live(w), \A v \in Worker : Live(v) => Live(v)',
           \A v \in Worker : state[v] = CLOSED /\ ipc[v] = "idle" => state'[v] = CLOSED /\ ipc'[v] = "idle",
           state[w] = CLOSED => ipc[w] # "idle",
           received' = received, \A v \in Worker : sent'[v] >= sent[v],
           k = "close" => state'[w] = CLOSED /\ ipc'[w] = "idle",
           k = "message" => n = sent[w] + 1 /\ sent'[w] = n /\ received[w] <= sent[w]
    PROVE  EventsHold' /\ InOrder'
<1>1. queue \in Seq(Event) /\ sent \in [Worker -> Nat] /\ sent' \in [Worker -> Nat]
      /\ received \in [Worker -> Nat]
  BY DEF TypeOK, EjsTypeOK, HistTypeOK
<1> DEFINE N == Len(queue)
<1>2. /\ N \in Nat /\ DOMAIN queue = 1 .. N
      /\ DOMAIN queue' = 1 .. (N + 1)
      /\ \A i \in DOMAIN queue : queue'[i] = queue[i]
      /\ queue'[N + 1].k = k /\ queue'[N + 1].w = w /\ queue'[N + 1].n = n
  BY <1>1, Queued
<1>3. ASSUME NEW i \in DOMAIN queue
      PROVE  /\ queue[i].w \in Worker /\ queue[i].n \in Nat
             /\ Live(queue[i].w)
             /\ queue[i].k = "close" => state[queue[i].w] = CLOSED /\ ipc[queue[i].w] = "idle"
             /\ queue[i].k = "message" => received[queue[i].w] < queue[i].n /\ queue[i].n <= sent[queue[i].w]
             /\ queue[i].w = w => queue[i].k # "close"
  BY <1>1, <1>3, EventFields DEF EventsHold
<1> HIDE DEF N
<1>4. EventsHold'
  <2>1. ASSUME NEW i \in DOMAIN queue'
        PROVE  /\ Live(queue[i].w)'
               /\ queue'[i].k = "close" => state'[queue'[i].w] = CLOSED /\ ipc'[queue'[i].w] = "idle"
               /\ queue'[i].k = "message" =>
                     received'[queue'[i].w] < queue'[i].n /\ queue'[i].n <= sent'[queue'[i].w]
    <3>1. CASE i \in DOMAIN queue
      <4>1. /\ queue'[i] = queue[i] /\ queue[i].w \in Worker /\ queue[i].n \in Nat
            /\ Live(queue[i].w)
            /\ queue[i].k = "close" => state[queue[i].w] = CLOSED /\ ipc[queue[i].w] = "idle"
            /\ queue[i].k = "message" => received[queue[i].w] < queue[i].n /\ queue[i].n <= sent[queue[i].w]
        BY <3>1, <1>2, <1>3
      <4>2. Live(queue[i].w)'
        BY <4>1 DEF Live
      <4>3. queue[i].k = "close" => state'[queue[i].w] = CLOSED /\ ipc'[queue[i].w] = "idle"
        BY <4>1
      <4>4. queue[i].k = "message" => received'[queue[i].w] < queue[i].n /\ queue[i].n <= sent'[queue[i].w]
        BY <4>1, <1>1
      <4> QED BY <4>1, <4>2, <4>3, <4>4
    <3>2. CASE i = N + 1
      BY <3>2, <1>1, <1>2 DEF Live
    <3> QED BY <2>1, <3>1, <3>2, <1>2
  <2> QED BY <2>1 DEF EventsHold, Live
<1>5. InOrder'
  <2>1. ASSUME NEW i \in DOMAIN queue', NEW j \in DOMAIN queue', i < j, queue'[i].w = queue'[j].w
        PROVE  /\ queue'[i].k # "close"
               /\ queue'[i].k = "message" /\ queue'[j].k = "message" => queue'[i].n < queue'[j].n
    <3>1. i \in DOMAIN queue /\ (j \in DOMAIN queue \/ j = N + 1)
      BY <2>1, <1>2
    <3>2. CASE j \in DOMAIN queue
      BY <2>1, <3>1, <3>2, <1>2 DEF InOrder
    <3>3. CASE j = N + 1
      BY <2>1, <3>1, <3>3, <1>1, <1>2, <1>3
    <3> QED BY <3>1, <3>2, <3>3
  <2> QED BY <2>1 DEF InOrder
<1> QED BY <1>4, <1>5

\* The first event is taken.
LEMMA EventsTaken ==
    ASSUME TypeOK, TypeOK', EventsHold, InOrder, queue # <<>>, queue' = Tail(queue), sent' = sent,
           ipc' = ipc,
           \A v \in Worker : v # queue[1].w => state'[v] = state[v] /\ received'[v] = received[v],
           queue[1].k = "message" => received'[queue[1].w] = queue[1].n,
           queue[1].k # "message" => received'[queue[1].w] = received[queue[1].w],
           queue[1].k # "close" => state'[queue[1].w] = state[queue[1].w]
    PROVE  /\ EventsHold' /\ InOrder'
           /\ queue[1].k = "close" => \A i \in DOMAIN queue' : queue'[i].w # queue[1].w
<1>1. queue \in Seq(Event) /\ sent \in [Worker -> Nat]
      /\ received \in [Worker -> Nat] /\ received' \in [Worker -> Nat]
  BY DEF TypeOK, EjsTypeOK, HistTypeOK
<1> DEFINE N == Len(queue)
           w == queue[1].w
<1>2. /\ N \in Nat /\ DOMAIN queue = 1 .. N /\ 1 \in DOMAIN queue
      /\ DOMAIN queue' = 1 .. (N - 1)
      /\ \A i \in DOMAIN queue' : i + 1 \in DOMAIN queue /\ queue'[i] = queue[i + 1]
  BY <1>1, Unqueued
<1>3. w \in Worker /\ queue[1].n \in Nat
  BY <1>1, <1>2, EventFields
<1> HIDE DEF N
<1>4. ASSUME NEW i \in DOMAIN queue'
      PROVE  /\ queue[1].w = queue[i + 1].w => queue[1].k # "close"
             /\ queue[1].w = queue[i + 1].w /\ queue[1].k = "message" /\ queue[i + 1].k = "message"
                   => queue[1].n < queue[i + 1].n
  <2>1. i + 1 \in DOMAIN queue /\ 1 < i + 1 /\ 1 \in DOMAIN queue
    BY <1>2, <1>4
  <2> QED BY <2>1 DEF InOrder
<1>5. InOrder'
  <2>1. ASSUME NEW i \in DOMAIN queue', NEW j \in DOMAIN queue', i < j, queue'[i].w = queue'[j].w
        PROVE  /\ queue'[i].k # "close"
               /\ queue'[i].k = "message" /\ queue'[j].k = "message" => queue'[i].n < queue'[j].n
    <3>1. /\ i + 1 \in DOMAIN queue /\ j + 1 \in DOMAIN queue /\ i + 1 < j + 1
          /\ queue'[i] = queue[i + 1] /\ queue'[j] = queue[j + 1]
      BY <2>1, <1>2
    <3>2. queue[i + 1].w = queue[j + 1].w
      BY <2>1, <3>1
    <3> QED BY <3>1, <3>2 DEF InOrder
  <2> QED BY <2>1 DEF InOrder
<1>6. EventsHold'
  <2>1. ASSUME NEW i \in DOMAIN queue'
        PROVE  /\ Live(queue[i].w)'
               /\ queue'[i].k = "close" => state'[queue'[i].w] = CLOSED /\ ipc'[queue'[i].w] = "idle"
               /\ queue'[i].k = "message" =>
                     received'[queue'[i].w] < queue'[i].n /\ queue'[i].n <= sent'[queue'[i].w]
    <3> DEFINE v == queue[i + 1].w
    <3>1. i + 1 \in DOMAIN queue /\ queue'[i] = queue[i + 1]
      BY <1>2, <2>1
    <3>2. /\ v \in Worker /\ queue[i + 1].n \in Nat /\ Live(v)
          /\ queue[i + 1].k = "close" => state[v] = CLOSED /\ ipc[v] = "idle"
          /\ queue[i + 1].k = "message" => received[v] < queue[i + 1].n /\ queue[i + 1].n <= sent[v]
      BY <1>1, <3>1, EventFields DEF EventsHold
    <3>3. state'[v] = state[v]
      BY <1>4, <2>1, <3>2
    <3>4. queue[i + 1].k = "message" => received'[v] < queue[i + 1].n
      BY <1>4, <2>1, <3>2
    <3>5. Live(queue[i].w)'
      BY <3>2, <3>3, <3>1 DEF Live
    <3> QED BY <3>1, <3>2, <3>3, <3>4, <3>5
  <2> QED BY <2>1 DEF EventsHold, Live
<1>7. queue[1].k = "close" => \A i \in DOMAIN queue' : queue'[i].w # queue[1].w
  BY <1>2, <1>4
<1> QED BY <1>5, <1>6, <1>7

\* A message is posted.
LEMMA MessagesGrow ==
    ASSUME TypeOK, TypeOK', MessagesAreQueued, alive' = alive, received' = received,
           NEW k \in Callbacks, NEW w \in Worker, NEW n \in Nat, PostOut(k, w, n),
           \/ k # "message" /\ sent' = sent
           \/ k = "message" /\ n = sent[w] + 1 /\ sent' = [sent EXCEPT ![w] = n]
    PROVE  MessagesAreQueued'
<1>1. queue \in Seq(Event) /\ sent \in [Worker -> Nat] /\ sent' \in [Worker -> Nat]
      /\ received \in [Worker -> Nat]
  BY DEF TypeOK, EjsTypeOK, HistTypeOK
<1> DEFINE N == Len(queue)
<1>2. /\ N \in Nat /\ DOMAIN queue = 1 .. N
      /\ DOMAIN queue' = 1 .. (N + 1)
      /\ \A i \in DOMAIN queue : queue'[i] = queue[i]
      /\ queue'[N + 1].k = k /\ queue'[N + 1].w = w /\ queue'[N + 1].n = n
  BY <1>1, Queued
<1> HIDE DEF N
<1>3. \A v \in Worker : received[v] <= sent[v] /\ sent[v] <= sent'[v]
  BY <1>1 DEF MessagesAreQueued
<1>4. \A v \in Worker : received'[v] <= sent'[v]
  BY <1>1, <1>3
<1>5. ASSUME alive, NEW v \in Worker, NEW m \in Nat, received[v] < m, m <= sent'[v]
      PROVE  \E i \in DOMAIN queue' : queue'[i].k = "message" /\ queue'[i].w = v /\ queue'[i].n = m
  <2>1. CASE m <= sent[v]
    <3>1. PICK i \in DOMAIN queue : queue[i].k = "message" /\ queue[i].w = v /\ queue[i].n = m
      BY <1>5, <2>1 DEF MessagesAreQueued
    <3>2. i \in DOMAIN queue' /\ queue'[i] = queue[i]
      BY <1>2
    <3> QED BY <3>1, <3>2
  <2>2. CASE ~(m <= sent[v])
    <3>1. k = "message" /\ v = w /\ m = n
      BY <1>1, <1>5, <2>2
    <3>2. N + 1 \in DOMAIN queue'
      BY <1>2
    <3> QED BY <1>2, <3>1, <3>2
  <2> QED BY <2>1, <2>2
<1> QED BY <1>4, <1>5 DEF MessagesAreQueued

\* A message is taken: it was the next.  When an event for onclose is taken,
\* all messages of the worker have been.
LEMMA MessagesTaken ==
    ASSUME TypeOK, TypeOK', EventsHold, InOrder, MessagesAreQueued, alive, alive' = alive, sent' = sent,
           queue # <<>>, queue' = Tail(queue),
           \A v \in Worker : v # queue[1].w => received'[v] = received[v],
           queue[1].k = "message" => received'[queue[1].w] = queue[1].n,
           queue[1].k # "message" => received'[queue[1].w] = received[queue[1].w]
    PROVE  /\ MessagesAreQueued'
           /\ queue[1].k = "message" => received'[queue[1].w] = received[queue[1].w] + 1
           /\ queue[1].k = "close" => received[queue[1].w] = sent[queue[1].w]
<1>1. queue \in Seq(Event) /\ sent \in [Worker -> Nat]
      /\ received \in [Worker -> Nat] /\ received' \in [Worker -> Nat]
  BY DEF TypeOK, EjsTypeOK, HistTypeOK
<1> DEFINE N == Len(queue)
           w == queue[1].w
<1>2. /\ N \in Nat /\ DOMAIN queue = 1 .. N /\ 1 \in DOMAIN queue
      /\ DOMAIN queue' = 1 .. (N - 1)
      /\ \A i \in DOMAIN queue' : i + 1 \in DOMAIN queue /\ queue'[i] = queue[i + 1]
  BY <1>1, Unqueued
<1>3. w \in Worker /\ queue[1].n \in Nat /\ received[w] <= sent[w]
  BY <1>1, <1>2, EventFields DEF MessagesAreQueued
<1>4. queue[1].k = "message" => received[w] < queue[1].n /\ queue[1].n <= sent[w]
  BY <1>2 DEF EventsHold
<1> HIDE DEF N
<1>5. ASSUME NEW i \in DOMAIN queue, i # 1, queue[i].w = w
      PROVE  /\ queue[1].k # "close"
             /\ queue[1].k = "message" /\ queue[i].k = "message" => queue[1].n < queue[i].n
  <2>1. 1 < i /\ 1 \in DOMAIN queue
    BY <1>2, <1>5
  <2> QED BY <1>5, <2>1 DEF InOrder
<1>6. queue[1].k = "close" => received[w] = sent[w]
  <2>1. SUFFICES ASSUME queue[1].k = "close", received[w] # sent[w] PROVE FALSE
    OBVIOUS
  <2>2. sent[w] \in Nat /\ received[w] < sent[w] /\ sent[w] <= sent[w]
    BY <1>1, <1>3, <2>1
  <2>3. PICK i \in DOMAIN queue : queue[i].k = "message" /\ queue[i].w = w /\ queue[i].n = sent[w]
    BY <1>3, <2>2 DEF MessagesAreQueued
  <2> QED BY <1>5, <2>1, <2>3
<1>7. queue[1].k = "message" => received'[w] = received[w] + 1
  <2>1. SUFFICES ASSUME queue[1].k = "message", queue[1].n # received[w] + 1 PROVE FALSE
    BY <1>1
  <2> DEFINE m == received[w] + 1
  <2>2. m \in Nat /\ received[w] < m /\ m <= sent[w] /\ m < queue[1].n
    BY <1>1, <1>3, <1>4, <2>1
  <2> HIDE DEF m
  <2>3. PICK i \in DOMAIN queue : queue[i].k = "message" /\ queue[i].w = w /\ queue[i].n = m
    BY <1>3, <2>2 DEF MessagesAreQueued
  <2>4. i # 1
    BY <1>3, <2>2, <2>3
  <2> QED BY <1>3, <1>5, <2>1, <2>2, <2>3, <2>4
<1>8. \A v \in Worker : received'[v] <= sent'[v]
  BY <1>1, <1>3, <1>4 DEF MessagesAreQueued
<1>9. ASSUME NEW v \in Worker, NEW m \in Nat, received'[v] < m, m <= sent[v]
      PROVE  \E i \in DOMAIN queue' : queue'[i].k = "message" /\ queue'[i].w = v /\ queue'[i].n = m
  <2>1. received[v] < m
    <3>1. received[v] <= received'[v]
      <4>1. CASE v # w
        BY <1>1, <4>1
      <4>2. CASE v = w
        BY <1>1, <1>3, <1>4, <4>2
      <4> QED BY <4>1, <4>2
    <3> QED BY <1>1, <1>9, <3>1
  <2>2. PICK i \in DOMAIN queue : queue[i].k = "message" /\ queue[i].w = v /\ queue[i].n = m
    BY <1>9, <2>1 DEF MessagesAreQueued
  <2>3. i # 1
    BY <1>1, <1>3, <1>9, <2>2
  <2>4. (i - 1) \in DOMAIN queue' /\ (i - 1) + 1 = i
    BY <1>2, <2>3
  <2> QED BY <1>2, <2>2, <2>4
<1>10. MessagesAreQueued'
  BY <1>8, <1>9 DEF MessagesAreQueued
<1> QED BY <1>6, <1>7, <1>10

-----------------------------------------------------------------------------
(***************************************************************************)
(* The calls of the main thread.                                            *)
(***************************************************************************)

\* A worker that has nothing more to say says nothing more.
LEMMA ClosedUpStays ==
    ASSUME queue \in Seq(Event), NEW v \in Worker, ClosedUp(v), state'[v] = state[v], ipc'[v] = ipc[v],
           received'[v] = received[v], sent'[v] = sent[v],
           \/ queue' = queue
           \/ queue # <<>> /\ queue' = Tail(queue)
           \/ \E k \in Callbacks, w \in Worker, n \in Nat : w # v /\ PostOut(k, w, n)
    PROVE  ClosedUp(v)'
<1>1. \A j \in DOMAIN queue' : queue'[j].w # v
  <2>1. CASE queue' = queue
    BY <2>1 DEF ClosedUp
  <2>2. CASE queue # <<>> /\ queue' = Tail(queue)
    BY <2>2, Unqueued DEF ClosedUp
  <2>3. ASSUME NEW k \in Callbacks, NEW w \in Worker, NEW n \in Nat, w # v, PostOut(k, w, n)
        PROVE  \A j \in DOMAIN queue' : queue'[j].w # v
    <3> DEFINE N == Len(queue)
    <3>1. /\ N \in Nat /\ DOMAIN queue = 1 .. N
          /\ DOMAIN queue' = 1 .. (N + 1)
          /\ \A i \in DOMAIN queue : queue'[i] = queue[i]
          /\ queue'[N + 1].w = w
      BY <2>3, Queued
    <3>2. \A j \in DOMAIN queue : queue[j].w # v
      BY DEF ClosedUp
    <3> HIDE DEF N
    <3> QED BY <2>3, <3>1, <3>2
  <2> QED BY <2>1, <2>2, <2>3
<1> QED BY <1>1 DEF ClosedUp

\* The workers a call is about.
LEMMA CallWorkers ==
    ASSUME stack \in Seq(Frame)
    PROVE  \A i \in DOMAIN stack : stack[i].on \subseteq Worker
<1>1. \A i \in DOMAIN stack : stack[i] \in Frame
  BY ElementOfSeq, LenProperties
<1> QED BY <1>1 DEF Frame

\* A preload is the innermost call: no other is made while it runs.
LEMMA PreloadOnTop ==
    ASSUME stack \in Seq(Frame), CallsHold, NEW i \in DOMAIN stack, stack[i].k = "preload"
    PROVE  Top.k = "preload" /\ Top.on = stack[i].on
<1>1. i = Len(stack)
  BY DEF CallsHold
<1>2. stack # <<>>
  BY <1>1, TopAndBelow, LenProperties, EmptySeq
<1> QED BY <1>1, <1>2, TopAndBelow

\* Calls stay, or return, while the workers they are about stay as they are.
LEMMA CallsKept ==
    ASSUME stack \in Seq(Frame), stack' \in Seq(Frame), CallsHold,
           Len(stack') <= Len(stack),
           \A i \in DOMAIN stack' : stack'[i].k = stack[i].k /\ stack'[i].on = stack[i].on,
           \A i \in DOMAIN stack' : stack[i].k = "preload" => \A w \in stack[i].on : state'[w] = BEGIN,
           \A i \in DOMAIN stack' : stack[i].k = "close" => \A w \in stack[i].on : ClosedUp(w)'
    PROVE  CallsHold'
<1>1. /\ Len(stack) \in Nat /\ DOMAIN stack = 1 .. Len(stack)
      /\ Len(stack') \in Nat /\ DOMAIN stack' = 1 .. Len(stack')
  BY LenProperties
<1>2. \A i \in DOMAIN stack' : i \in DOMAIN stack
  BY <1>1
<1>3. \A i \in DOMAIN stack' : stack'[i].k = "preload" => i = Len(stack')
  <2>1. \A i \in DOMAIN stack' : stack'[i].k = "preload" => i = Len(stack)
    BY <1>2 DEF CallsHold
  <2> DEFINE M == Len(stack)
             N == Len(stack')
  <2>2. M \in Nat /\ N \in Nat /\ N <= M /\ DOMAIN stack' = 1 .. N
    BY <1>1
  <2> HIDE DEF M, N
  <2>3. \A i \in DOMAIN stack' : i = M => i = N
    BY <2>2
  <2> QED BY <2>1, <2>3 DEF M, N
<1>4. \A i \in DOMAIN stack' :
          /\ stack'[i].k \in Callbacks => \E w \in Worker : stack'[i].on = {w}
          /\ stack'[i].k = "preload" => \A w \in stack'[i].on : state'[w] = BEGIN
          /\ stack'[i].k = "close" => \A w \in stack'[i].on : ClosedUp(w)'
  BY <1>2 DEF CallsHold
<1>5. \A i, j \in DOMAIN stack' :
          stack'[i].k = "close" /\ stack'[j].k = "close" /\ i # j => stack'[i].on \cap stack'[j].on = {}
  BY <1>2 DEF CallsHold
<1> QED BY <1>3, <1>4, <1>5 DEF CallsHold

\* A call is made on top of the others.
LEMMA CallMade ==
    ASSUME stack \in Seq(Frame), stack' \in Seq(Frame), CallsHold, Top.k # "preload",
           Len(stack') = Len(stack) + 1,
           \A i \in DOMAIN stack : stack'[i].k = stack[i].k /\ stack'[i].on = stack[i].on,
           \A i \in DOMAIN stack : stack[i].k = "close" => \A w \in stack[i].on : ClosedUp(w)',
           NEW f, f = stack'[Len(stack) + 1],
           f.k = "preload" => \A w \in f.on : state'[w] = BEGIN,
           f.k \in Callbacks => \E w \in Worker : f.on = {w},
           f.k = "close" => /\ \A w \in f.on : ClosedUp(w)'
                            /\ \A i \in DOMAIN stack : stack[i].k = "close" => stack[i].on \cap f.on = {}
    PROVE  CallsHold'
<1>1. /\ Len(stack) \in Nat /\ DOMAIN stack = 1 .. Len(stack)
      /\ Len(stack') \in Nat /\ DOMAIN stack' = 1 .. Len(stack')
  BY LenProperties
<1> DEFINE t == Len(stack) + 1
<1>2. t = Len(stack') /\ f = stack'[t] /\ \A i \in DOMAIN stack' : i \in DOMAIN stack \/ i = t
  BY <1>1
<1> HIDE DEF t
<1>3. \A i \in DOMAIN stack : stack[i].k # "preload"
  BY PreloadOnTop
<1>4. ASSUME NEW i \in DOMAIN stack'
      PROVE  /\ stack'[i].k = "preload" => i = Len(stack') /\ \A w \in stack'[i].on : state'[w] = BEGIN
             /\ stack'[i].k \in Callbacks => \E w \in Worker : stack'[i].on = {w}
             /\ stack'[i].k = "close" => \A w \in stack'[i].on : ClosedUp(w)'
  <2>1. CASE i \in DOMAIN stack
    BY <1>3, <2>1 DEF CallsHold
  <2>2. CASE i = t
    BY <1>2, <2>2
  <2> QED BY <1>2, <2>1, <2>2
<1>5. ASSUME NEW i \in DOMAIN stack', NEW j \in DOMAIN stack',
             stack'[i].k = "close", stack'[j].k = "close", i # j
      PROVE  stack'[i].on \cap stack'[j].on = {}
  <2>1. CASE i \in DOMAIN stack /\ j \in DOMAIN stack
    BY <1>5, <2>1 DEF CallsHold
  <2>2. CASE i = t /\ j \in DOMAIN stack
    BY <1>2, <1>5, <2>2
  <2>3. CASE j = t /\ i \in DOMAIN stack
    BY <1>2, <1>5, <2>3
  <2> QED BY <1>2, <1>5, <2>1, <2>2, <2>3
<1> QED BY <1>4, <1>5 DEF CallsHold

\* The names and the workers of the calls, as a call begins.
LEMMA Pushed ==
    ASSUME stack \in Seq(Frame), NEW f \in Frame
    PROVE  /\ Append(stack, f) \in Seq(Frame)
           /\ Len(Append(stack, f)) = Len(stack) + 1
           /\ \A i \in DOMAIN stack : Append(stack, f)[i] = stack[i]
           /\ Append(stack, f)[Len(stack) + 1] = f
BY AppendProperties, LenProperties

\* Those that are left when the innermost returns.
LEMMA BelowIsShorter ==
    ASSUME stack \in Seq(Frame), stack # <<>>
    PROVE  /\ Below \in Seq(Frame) /\ Len(Below) <= Len(stack)
           /\ \A i \in DOMAIN Below : Below[i] = stack[i] /\ i \in DOMAIN stack /\ i # Len(stack)
<1> DEFINE N == Len(stack)
<1>1. /\ Below \in Seq(Frame) /\ DOMAIN Below = 1 .. (N - 1)
      /\ \A i \in DOMAIN Below : Below[i] = stack[i]
  BY TopAndBelow
<1>2. N \in Nat /\ N # 0 /\ DOMAIN stack = 1 .. N
  BY LenProperties, EmptySeq
<1>3. Len(Below) \in Nat /\ DOMAIN Below = 1 .. Len(Below)
  BY <1>1, LenProperties
<1> HIDE DEF N
<1>4. Len(Below) <= N
  <2> DEFINE M == Len(Below)
  <2>1. M \in Nat /\ 1 .. M = 1 .. (N - 1)
    BY <1>1, <1>3
  <2> HIDE DEF M
  <2>2. M <= N
    BY <1>2, <2>1
  <2> QED BY <2>2 DEF M
<1>5. \A i \in DOMAIN Below : i \in DOMAIN stack /\ i # N
  BY <1>1, <1>2
<1> QED BY <1>1, <1>4, <1>5 DEF N

\* The calls below the one that returns are the same, nested or not.
LEMMA Popped ==
    ASSUME stack \in Seq(Frame), NEW f, NEW ok, NEW below \in Seq(Frame), Return(f, ok, below)
    PROVE  /\ stack' \in Seq(Frame)
           /\ Len(stack') = Len(below)
           /\ \A i \in DOMAIN stack' : stack'[i].k = below[i].k /\ stack'[i].on = below[i].on
<1>1. /\ Nested(below) \in Seq(Frame)
      /\ DOMAIN Nested(below) = DOMAIN below
      /\ \A i \in DOMAIN below : Nested(below)[i] = [below[i] EXCEPT !.nested = TRUE]
  BY NestedType
<1>2. \A i \in DOMAIN below : Nested(below)[i].k = below[i].k /\ Nested(below)[i].on = below[i].on
  <2>1. \A i \in DOMAIN below : below[i] \in Frame
    BY ElementOfSeq, LenProperties
  <2> QED BY <1>1, <2>1 DEF Frame
<1>3. Len(Nested(below)) = Len(below)
  BY <1>1, LenProperties
<1>4. stack' = Nested(below) \/ stack' = below
  BY DEF Return
<1> QED BY <1>1, <1>2, <1>3, <1>4

\* A loop that is tested keeps the name and the workers of its call.
LEMMA Tested ==
    ASSUME stack \in Seq(Frame), stack # <<>>, NEW b \in BOOLEAN
    PROVE  LET s == [stack EXCEPT ![Len(stack)].got = b]
           IN  /\ s \in Seq(Frame)
               /\ Len(s) = Len(stack)
               /\ \A i \in DOMAIN stack :
                     s[i].k = stack[i].k /\ s[i].on = stack[i].on /\ s[i].nested = stack[i].nested
<1> DEFINE s == [stack EXCEPT ![Len(stack)].got = b]
<1>1. s \in Seq(Frame) /\ DOMAIN s = DOMAIN stack
  BY GotType
<1>2. \A i \in DOMAIN stack : stack[i] \in Frame
  BY ElementOfSeq, LenProperties
<1>3. \A i \in DOMAIN stack : s[i] = stack[i] \/ s[i] = [stack[i] EXCEPT !.got = b]
  OBVIOUS
<1>4. ASSUME NEW i \in DOMAIN stack
      PROVE  s[i].k = stack[i].k /\ s[i].on = stack[i].on /\ s[i].nested = stack[i].nested
  BY <1>2, <1>3 DEF Frame
<1> HIDE DEF s
<1>5. Len(s) = Len(stack)
  BY <1>1, LenProperties
<1> QED BY <1>1, <1>4, <1>5 DEF s

-----------------------------------------------------------------------------
(***************************************************************************)
(* Every step keeps the invariant.                                          *)
(***************************************************************************)

\* A step of the thread of an inside dispatcher that no other thread sees.
LEMMA InsideOnly ==
    ASSUME TypeOK, TypeOK', Core,
           UNCHANGED <<state, linked, alive, workers, stack, queue, sent, received>>,
           \A v \in Worker : state[v] = CLOSED /\ ipc[v] = "idle" => ipc'[v] = "idle",
           ThreadsAgree', MainIsNext'
    PROVE  Core'
<1>1. stack \in Seq(Frame) /\ queue \in Seq(Event) /\ sent \in [Worker -> Nat]
  BY DEF TypeOK, EjsTypeOK, HistTypeOK
<1>2. ListAndLinksAgree' /\ CompleteHasAllMessages' /\ MessagesAreQueued'
  BY DEF Core, ListAndLinksAgree, CompleteHasAllMessages, MessagesAreQueued, Live
<1>3. EventsHold' /\ InOrder'
  <2>1. \A v \in Worker : sent'[v] >= sent[v]
    BY <1>1
  <2>2. \A v \in Worker : Live(v) => Live(v)'
    BY DEF Live
  <2> QED BY <2>1, <2>2, EventsStay DEF Core
<1>4. CallsHold'
  <2>1. ASSUME NEW v \in Worker, ClosedUp(v) PROVE ClosedUp(v)'
    <3>1. ipc'[v] = ipc[v]
      BY <2>1 DEF ClosedUp
    <3> QED BY <1>1, <2>1, <3>1, ClosedUpStays
  <2>2. \A i \in DOMAIN stack : stack[i].on \subseteq Worker
    BY <1>1, CallWorkers
  <2>3. \A i \in DOMAIN stack' : stack[i].k = "close" => \A w \in stack[i].on : ClosedUp(w)'
    BY <2>1, <2>2 DEF Core, CallsHold
  <2>4. \A i \in DOMAIN stack' : stack[i].k = "preload" => \A w \in stack[i].on : state'[w] = BEGIN
    BY DEF Core, CallsHold
  <2>5. Len(stack') <= Len(stack)
    BY <1>1, LenProperties
  <2> QED BY <1>1, <2>3, <2>4, <2>5, CallsKept DEF Core
<1> QED BY <1>2, <1>3, <1>4 DEF Core

\* A step that changes nothing the invariant reads.
LEMMA Quiet ==
    ASSUME TypeOK, TypeOK', Core, UNCHANGED coreVars
    PROVE  Core'
<1>1. ThreadsAgree' /\ MainIsNext'
  BY DEF Core, ThreadsAgree, MainIsNext, coreVars
<1> QED BY <1>1, InsideOnly DEF coreVars

\* A call of the main thread begins, or some return; no worker changes.
LEMMA CallsOnly ==
    ASSUME TypeOK, TypeOK', Core,
           UNCHANGED <<state, linked, alive, workers, queue, istate, iqueue, ipc, icallback, sent, received>>,
           \/ /\ Len(stack') <= Len(stack)
              /\ \A i \in DOMAIN stack' : stack'[i].k = stack[i].k /\ stack'[i].on = stack[i].on
           \/ \E f \in Frame :
                /\ Top.k # "preload"
                /\ stack' = Append(stack, f)
                /\ f.k = "preload" => \A w \in f.on : state[w] = BEGIN
                /\ f.k \notin Callbacks
    PROVE  Core'
<1>1. stack \in Seq(Frame) /\ stack' \in Seq(Frame) /\ queue \in Seq(Event) /\ sent \in [Worker -> Nat]
  BY DEF TypeOK, EjsTypeOK, HistTypeOK
<1>2. ListAndLinksAgree' /\ CompleteHasAllMessages' /\ MessagesAreQueued' /\ ThreadsAgree' /\ MainIsNext'
  BY DEF Core, ListAndLinksAgree, CompleteHasAllMessages, MessagesAreQueued, ThreadsAgree, MainIsNext, Live
<1>3. EventsHold' /\ InOrder'
  BY DEF Core, EventsHold, InOrder, Live
<1>4. CallsHold'
  <2>1. \A v : ClosedUp(v) => ClosedUp(v)'
    BY DEF ClosedUp
  <2>2. CASE /\ Len(stack') <= Len(stack)
             /\ \A i \in DOMAIN stack' : stack'[i].k = stack[i].k /\ stack'[i].on = stack[i].on
    <3>1. \A i \in DOMAIN stack' : i \in DOMAIN stack
      <4> DEFINE M == Len(stack)
                 N == Len(stack')
      <4>1. M \in Nat /\ N \in Nat /\ N <= M /\ DOMAIN stack = 1 .. M /\ DOMAIN stack' = 1 .. N
        BY <1>1, <2>2, LenProperties
      <4> HIDE DEF M, N
      <4> QED BY <4>1
    <3>2. \A i \in DOMAIN stack' : stack[i].k = "close" => \A w \in stack[i].on : ClosedUp(w)'
      BY <2>1, <3>1 DEF Core, CallsHold
    <3>3. \A i \in DOMAIN stack' : stack[i].k = "preload" => \A w \in stack[i].on : state'[w] = BEGIN
      BY <3>1 DEF Core, CallsHold
    <3> QED BY <1>1, <2>2, <3>2, <3>3, CallsKept DEF Core
  <2>3. ASSUME NEW f \in Frame, Top.k # "preload", stack' = Append(stack, f),
               f.k = "preload" => \A w \in f.on : state[w] = BEGIN, f.k \notin Callbacks
        PROVE  CallsHold'
    <3>1. /\ Len(stack') = Len(stack) + 1
          /\ \A i \in DOMAIN stack : stack'[i] = stack[i]
          /\ f = stack'[Len(stack) + 1]
      BY <1>1, <2>3, Pushed
    <3>2. \A i \in DOMAIN stack : stack[i].k = "close" => \A w \in stack[i].on : ClosedUp(w)'
      BY <2>1 DEF Core, CallsHold
    <3>3. f.k # "close" /\ (f.k = "preload" => \A w \in f.on : state'[w] = BEGIN)
      BY <2>3 DEF Callbacks
    <3> QED BY <1>1, <2>3, <3>1, <3>2, <3>3, CallMade DEF Core
  <2> QED BY <2>2, <2>3
<1> QED BY <1>2, <1>3, <1>4 DEF Core

\* An event is queued by a worker that has not closed.
LEMMA EventQueued ==
    ASSUME TypeOK, TypeOK', Core, alive, UNCHANGED <<state, linked, alive, workers, received>>,
           NEW k \in Callbacks, NEW w \in Worker, NEW n \in Nat, PostOut(k, w, n),
           Live(w), state[w] = CLOSED => ipc[w] # "idle",
           \A v \in Worker : state[v] = CLOSED /\ ipc[v] = "idle" => ipc'[v] = "idle",
           k = "close" => state[w] = CLOSED /\ ipc'[w] = "idle",
           \/ k # "message" /\ sent' = sent
           \/ k = "message" /\ n = sent[w] + 1 /\ sent' = [sent EXCEPT ![w] = n],
           Len(stack') <= Len(stack),
           \A i \in DOMAIN stack' : stack'[i].k = stack[i].k /\ stack'[i].on = stack[i].on,
           ThreadsAgree', MainIsNext'
    PROVE  Core'
<1>1. /\ stack \in Seq(Frame) /\ stack' \in Seq(Frame) /\ queue \in Seq(Event)
      /\ sent \in [Worker -> Nat] /\ received \in [Worker -> Nat]
  BY DEF TypeOK, EjsTypeOK, HistTypeOK
<1>2. ListAndLinksAgree'
  BY DEF Core, ListAndLinksAgree, Live
<1>3. CompleteHasAllMessages'
  <2>1. \A v \in Worker : v # w => sent'[v] = sent[v]
    BY <1>1
  <2>2. state[w] # COMPLETE
    BY DEF Live, COMPLETE, BEGIN, STARTED, CLOSED
  <2> QED BY <2>1, <2>2 DEF Core, CompleteHasAllMessages
<1>4. EventsHold' /\ InOrder'
  <2>1. \A v \in Worker : sent'[v] >= sent[v]
    BY <1>1
  <2>2. \A v \in Worker : Live(v) => Live(v)'
    BY DEF Live
  <2>3. k = "message" => n = sent[w] + 1 /\ sent'[w] = n /\ received[w] <= sent[w]
    BY <1>1 DEF Core, MessagesAreQueued
  <2> QED BY <2>1, <2>2, <2>3, EventsGrow DEF Core
<1>5. MessagesAreQueued'
  BY MessagesGrow DEF Core
<1>6. CallsHold'
  <2>1. ASSUME NEW v \in Worker, ClosedUp(v) PROVE ClosedUp(v)'
    <3>1. v # w /\ ipc'[v] = ipc[v]
      BY <2>1 DEF ClosedUp
    <3>2. sent'[v] = sent[v]
      BY <1>1, <3>1
    <3> QED BY <1>1, <2>1, <3>1, <3>2, ClosedUpStays
  <2>2. \A i \in DOMAIN stack : stack[i].on \subseteq Worker
    BY <1>1, CallWorkers
  <2>3. \A i \in DOMAIN stack' : i \in DOMAIN stack
    <3> DEFINE M == Len(stack)
               N == Len(stack')
    <3>1. M \in Nat /\ N \in Nat /\ N <= M /\ DOMAIN stack = 1 .. M /\ DOMAIN stack' = 1 .. N
      BY <1>1, LenProperties
    <3> HIDE DEF M, N
    <3> QED BY <3>1
  <2>4. \A i \in DOMAIN stack' : stack[i].k = "close" => \A v \in stack[i].on : ClosedUp(v)'
    BY <2>1, <2>2, <2>3 DEF Core, CallsHold
  <2>5. \A i \in DOMAIN stack' : stack[i].k = "preload" => \A v \in stack[i].on : state'[v] = BEGIN
    BY <2>3 DEF Core, CallsHold
  <2> QED BY <1>1, <2>4, <2>5, CallsKept DEF Core
<1> QED BY <1>2, <1>3, <1>4, <1>5, <1>6 DEF Core

\* The scripts are not yet run.
LEMMA InitCore == Init => Core
<1> SUFFICES ASSUME Init PROVE Core
  OBVIOUS
<1>1. ThreadsAgree /\ MainIsNext /\ ListAndLinksAgree /\ CompleteHasAllMessages
  BY DEF Init, ThreadsAgree, MainIsNext, ListAndLinksAgree, CompleteHasAllMessages, Live, WaitPoints,
         Absent, BEGIN, STARTED, CLOSED, COMPLETE
<1>2. EventsHold /\ InOrder /\ CallsHold
  <2>1. DOMAIN queue = {} /\ DOMAIN stack = {}
    BY DEF Init
  <2> QED BY <2>1 DEF EventsHold, InOrder, CallsHold
<1>3. MessagesAreQueued
  BY DEF Init, MessagesAreQueued
<1> QED BY <1>1, <1>2, <1>3 DEF Core

\* A pair is made.
LEMMA initWorkerCore ==
    ASSUME TypeOK, TypeOK', Core, NEW w \in Worker, NEW s \in Script \cup {NoScript}, initWorker(w, s)
    PROVE  Core'
<1> USE DEF Absent, BEGIN, STARTED, CLOSED, COMPLETE
<1>1. /\ stack \in Seq(Frame) /\ queue \in Seq(Event) /\ sent \in [Worker -> Nat]
      /\ state \in [Worker -> 0..4] /\ linked \in [Worker -> BOOLEAN] /\ istate \in [Worker -> 0..4]
      /\ iqueue \in [Worker -> Seq({"main", "message"})]
  BY DEF TypeOK, OutTypeOK, EjsTypeOK, InTypeOK, HistTypeOK
<1>2. /\ state[w] = Absent
      /\ state'[w] \in {BEGIN, STARTED} /\ \A v \in Worker : v # w => state'[v] = state[v]
      /\ istate'[w] = BEGIN /\ \A v \in Worker : v # w => istate'[v] = istate[v]
      /\ state'[w] = BEGIN => iqueue'[w] = iqueue[w]
      /\ iqueue'[w] = iqueue[w] \/ iqueue'[w] = Append(iqueue[w], "main")
      /\ \A v \in Worker : v # w => iqueue'[v] = iqueue[v]
      /\ linked' = [linked EXCEPT ![w] = TRUE] /\ workers' = workers \cup {w}
      /\ UNCHANGED <<alive, stack, queue, ipc, icallback, sent, received>>
  BY <1>1 DEF initWorker
<1>3. iqueue[w] = <<>> /\ ipc[w] = "idle" /\ ~icallback[w]
  BY <1>2 DEF Core, ThreadsAgree
<1>4. ThreadsAgree'
  BY <1>2, <1>3 DEF Core, ThreadsAgree, WaitPoints
<1>5. MainIsNext'
  <2>1. ASSUME NEW v \in Worker
        PROVE  /\ \A i \in DOMAIN iqueue'[v] : iqueue'[v][i] = "main" =>
                    state'[v] = STARTED /\ istate'[v] = BEGIN
               /\ \A i, j \in DOMAIN iqueue'[v] : iqueue'[v][i] = "main" /\ iqueue'[v][j] = "main" => i = j
    <3>1. CASE v # w
      BY <1>2, <3>1 DEF Core, MainIsNext
    <3>2. CASE v = w /\ iqueue'[w] = <<>>
      BY <3>2
    <3>3. CASE v = w /\ iqueue'[w] = <<"main">> /\ state'[w] # BEGIN
      BY <1>2, <3>3
    <3>4. Append(<<>>, "main") = <<"main">>
      OBVIOUS
    <3> QED BY <1>2, <1>3, <3>1, <3>2, <3>3, <3>4
  <2> QED BY <2>1 DEF MainIsNext
<1>6. ListAndLinksAgree' /\ CompleteHasAllMessages' /\ MessagesAreQueued'
  BY <1>1, <1>2 DEF Core, ListAndLinksAgree, CompleteHasAllMessages, MessagesAreQueued, Live
<1>7. EventsHold' /\ InOrder'
  <2>1. \A v \in Worker : sent'[v] >= sent[v]
    BY <1>1, <1>2
  <2>2. \A v \in Worker : Live(v) => Live(v)'
    BY <1>2 DEF Live
  <2>3. \A v \in Worker : state[v] = CLOSED /\ ipc[v] = "idle" => state'[v] = CLOSED /\ ipc'[v] = "idle"
    BY <1>2
  <2>4. queue' = queue /\ received' = received
    BY <1>2
  <2> QED BY <2>1, <2>2, <2>3, <2>4, EventsStay DEF Core
<1>8. CallsHold'
  <2>1. ASSUME NEW v \in Worker, ClosedUp(v) PROVE ClosedUp(v)'
    <3>1. state'[v] = state[v]
      BY <1>2, <2>1 DEF ClosedUp
    <3> QED BY <1>1, <1>2, <2>1, <3>1, ClosedUpStays
  <2>2. \A i \in DOMAIN stack : stack[i].on \subseteq Worker
    BY <1>1, CallWorkers
  <2>3. \A i \in DOMAIN stack' : stack[i].k = "close" => \A v \in stack[i].on : ClosedUp(v)'
    BY <1>2, <2>1, <2>2 DEF Core, CallsHold
  <2>4. \A i \in DOMAIN stack' : stack[i].k = "preload" => \A v \in stack[i].on : state'[v] = BEGIN
    BY <1>2, <2>2 DEF Core, CallsHold
  <2>5. stack' \in Seq(Frame) /\ Len(stack') <= Len(stack)
    BY <1>1, <1>2, LenProperties
  <2>6. \A i \in DOMAIN stack' : stack'[i].k = stack[i].k /\ stack'[i].on = stack[i].on
    BY <1>2
  <2> QED BY <1>1, <2>3, <2>4, <2>5, <2>6, CallsKept DEF Core
<1> QED BY <1>4, <1>5, <1>6, <1>7, <1>8 DEF Core

\* The script is called from a callback or from no call.
LEMMA ScriptRuns ==
    ASSUME NEW c, CanCall(c)
    PROVE  Top.k # "preload"
BY DEF CanCall, InScript, Callbacks

\* eval and load start a worker that has been made, or throw.
LEMMA startWorkerCore ==
    ASSUME TypeOK, TypeOK', Core, Top.k # "preload",
           NEW w \in Worker, NEW s \in Script, NEW tmo \in {"zero", "finite", "none"}, startWorker(w, s, tmo)
    PROVE  Core'
<1> USE DEF Absent, BEGIN, STARTED, CLOSED, COMPLETE
<1>1. /\ stack \in Seq(Frame) /\ stack' \in Seq(Frame) /\ queue \in Seq(Event) /\ sent \in [Worker -> Nat]
      /\ state \in [Worker -> 0..4] /\ linked \in [Worker -> BOOLEAN] /\ istate \in [Worker -> 0..4]
      /\ iqueue \in [Worker -> Seq({"main", "message"})]
  BY DEF TypeOK, OutTypeOK, EjsTypeOK, InTypeOK, HistTypeOK
<1>2. CASE state[w] > BEGIN /\ UNCHANGED <<state, stack, iqueue>>
  <2>1. UNCHANGED coreVars
    BY <1>2 DEF startWorker, coreVars
  <2> QED BY <2>1, Quiet
<1>3. CASE /\ state[w] = BEGIN /\ state' = [state EXCEPT ![w] = STARTED]
           /\ iqueue' = [iqueue EXCEPT ![w] = Append(@, "main")]
  <2> DEFINE f == NewFrame("start", {w}, FALSE, tmo)
  <2>1. UNCHANGED <<linked, alive, workers, queue, istate, ipc, icallback, sent, received>>
    BY DEF startWorker
  <2>2. stack' = stack \/ (tmo \in Timeouts /\ stack' = Append(stack, f))
    BY <1>3 DEF startWorker, Timeouts
  <2>3. tmo \in Timeouts => f \in Frame /\ f.k = "start"
    BY NewFrameType DEF WaitCalls, NewFrame
  <2> HIDE DEF f
  <2>4. istate[w] = BEGIN /\ ipc[w] = "idle"
    BY <1>3 DEF Core, ThreadsAgree
  <2>5. ThreadsAgree'
    BY <1>1, <1>3, <2>1, <2>4 DEF Core, ThreadsAgree, WaitPoints
  <2>6. MainIsNext'
    <3>1. ASSUME NEW v \in Worker
          PROVE  /\ \A i \in DOMAIN iqueue'[v] : iqueue'[v][i] = "main" =>
                      state'[v] = STARTED /\ istate'[v] = BEGIN
                 /\ \A i, j \in DOMAIN iqueue'[v] : iqueue'[v][i] = "main" /\ iqueue'[v][j] = "main" => i = j
      <4>1. CASE v # w
        BY <1>1, <1>3, <2>1, <4>1 DEF Core, MainIsNext
      <4>2. CASE v = w
        <5> DEFINE q == iqueue[w]
                   N == Len(q)
        <5>1. \A i \in DOMAIN q : q[i] # "main"
          BY <1>3 DEF Core, MainIsNext
        <5>2. q \in Seq({"main", "message"})
          BY <1>1
        <5>3. iqueue'[w] = Append(q, "main")
          BY <1>1, <1>3
        <5> HIDE DEF q
        <5>4. /\ N \in Nat /\ DOMAIN q = 1 .. N /\ DOMAIN Append(q, "main") = 1 .. (N + 1)
              /\ \A i \in 1 .. N : Append(q, "main")[i] = q[i]
          BY <5>2, AppendProperties, LenProperties
        <5> HIDE DEF N
        <5>5. \A i \in DOMAIN iqueue'[w] : iqueue'[w][i] = "main" => i = N + 1
          BY <5>1, <5>3, <5>4
        <5>6. state'[w] = STARTED /\ istate'[w] = BEGIN
          BY <1>1, <1>3, <2>1, <2>4
        <5> QED BY <4>2, <5>5, <5>6
      <4> QED BY <4>1, <4>2
    <3> QED BY <3>1 DEF MainIsNext
  <2>7. ListAndLinksAgree' /\ CompleteHasAllMessages' /\ MessagesAreQueued'
    <3>1. ListAndLinksAgree'
      BY <1>1, <1>3, <2>1 DEF Core, ListAndLinksAgree, Live
    <3>2. CompleteHasAllMessages'
      BY <1>1, <1>3, <2>1 DEF Core, CompleteHasAllMessages
    <3>3. MessagesAreQueued'
      <4>1. MessagesAreQueued
        BY DEF Core
      <4>2. /\ alive' = alive /\ queue' = queue
            /\ sent' = sent /\ received' = received
        BY <2>1
      <4> QED BY <4>1, <4>2 DEF MessagesAreQueued
    <3> QED BY <3>1, <3>2, <3>3
  <2>8. EventsHold' /\ InOrder'
    <3>1. \A v \in Worker : sent'[v] >= sent[v]
      BY <1>1, <2>1
    <3>2. \A v \in Worker : Live(v) => Live(v)'
      BY <1>1, <1>3 DEF Live
    <3>3. \A v \in Worker : state[v] = CLOSED /\ ipc[v] = "idle" => state'[v] = CLOSED /\ ipc'[v] = "idle"
      BY <1>1, <1>3, <2>1
    <3> QED BY <2>1, <3>1, <3>2, <3>3, EventsStay DEF Core
  <2>9. CallsHold'
    <3>1. ASSUME NEW v \in Worker, ClosedUp(v) PROVE ClosedUp(v)'
      <4>1. state'[v] = state[v]
        BY <1>1, <1>3, <3>1 DEF ClosedUp
      <4> QED BY <1>1, <2>1, <3>1, <4>1, ClosedUpStays
    <3>2. \A i \in DOMAIN stack : stack[i].on \subseteq Worker
      BY <1>1, CallWorkers
    <3>3. \A i \in DOMAIN stack : stack[i].k = "close" => \A v \in stack[i].on : ClosedUp(v)'
      BY <3>1, <3>2 DEF Core, CallsHold
    <3>4. \A i \in DOMAIN stack : stack[i].k # "preload"
      BY <1>1, PreloadOnTop DEF Core
    <3>5. CASE stack' = stack
      <4>1. Len(stack') <= Len(stack)
        BY <1>1, <3>5, LenProperties
      <4>2. \A i \in DOMAIN stack' : stack'[i].k = stack[i].k /\ stack'[i].on = stack[i].on
        BY <3>5
      <4>3. /\ \A i \in DOMAIN stack' : stack[i].k # "preload"
            /\ \A i \in DOMAIN stack' : stack[i].k = "close" => \A v \in stack[i].on : ClosedUp(v)'
        BY <3>3, <3>4, <3>5
      <4> QED BY <1>1, <4>1, <4>2, <4>3, CallsKept DEF Core
    <3>6. CASE tmo \in Timeouts /\ stack' = Append(stack, f)
      <4>1. /\ Len(stack') = Len(stack) + 1
            /\ \A i \in DOMAIN stack : stack'[i] = stack[i]
            /\ f = stack'[Len(stack) + 1]
        BY <1>1, <2>3, <3>6, Pushed
      <4>2. f.k \notin Callbacks \cup {"preload", "close"}
        BY <2>3, <3>6 DEF Callbacks
      <4> QED BY <1>1, <3>3, <4>1, <4>2, CallMade DEF Core
    <3> QED BY <2>2, <3>5, <3>6
  <2> QED BY <2>5, <2>6, <2>7, <2>8, <2>9 DEF Core
<1> QED BY <1>2, <1>3 DEF startWorker

\* A message for an inside script is queued behind workerMain.
LEMMA PostMessageCore ==
    ASSUME TypeOK, TypeOK', Core, NEW w \in Worker, PostMessage(w)
    PROVE  Core'
<1>1. CASE UNCHANGED iqueue
  <2>1. UNCHANGED coreVars
    BY <1>1 DEF PostMessage, coreVars, outVars
  <2> QED BY <2>1, Quiet
<1>2. CASE state[w] # Absent /\ iqueue' = [iqueue EXCEPT ![w] = Append(@, "message")]
  <2>1. UNCHANGED <<state, linked, alive, workers, stack, queue, istate, ipc, icallback, sent, received>>
    BY DEF PostMessage, outVars
  <2>2. iqueue \in [Worker -> Seq({"main", "message"})]
    BY DEF TypeOK, InTypeOK
  <2>3. ThreadsAgree'
    BY <1>2, <2>1, <2>2 DEF Core, ThreadsAgree
  <2>4. MainIsNext'
    <3>1. ASSUME NEW v \in Worker
          PROVE  /\ \A i \in DOMAIN iqueue'[v] : iqueue'[v][i] = "main" =>
                      state[v] = STARTED /\ istate[v] = BEGIN
                 /\ \A i, j \in DOMAIN iqueue'[v] : iqueue'[v][i] = "main" /\ iqueue'[v][j] = "main" => i = j
      <4>1. CASE v # w
        BY <1>2, <2>2, <4>1 DEF Core, MainIsNext
      <4>2. CASE v = w
        <5> DEFINE q == iqueue[w]
                   N == Len(q)
        <5>1. /\ \A i \in DOMAIN q : q[i] = "main" => state[w] = STARTED /\ istate[w] = BEGIN
              /\ \A i, j \in DOMAIN q : q[i] = "main" /\ q[j] = "main" => i = j
          BY DEF Core, MainIsNext
        <5>2. q \in Seq({"main", "message"})
          BY <2>2
        <5>3. iqueue'[w] = Append(q, "message")
          BY <1>2, <2>2
        <5> HIDE DEF q
        <5>4. /\ N \in Nat /\ DOMAIN q = 1 .. N /\ DOMAIN Append(q, "message") = 1 .. (N + 1)
              /\ \A i \in 1 .. N : Append(q, "message")[i] = q[i]
              /\ Append(q, "message")[N + 1] = "message"
          BY <5>2, AppendProperties, LenProperties
        <5> HIDE DEF N
        <5>5. \A i \in DOMAIN iqueue'[w] : iqueue'[w][i] = "main" => i \in DOMAIN q /\ q[i] = "main"
          BY <5>3, <5>4
        <5> QED BY <4>2, <5>1, <5>5
      <4> QED BY <4>1, <4>2
    <3> QED BY <2>1, <3>1 DEF MainIsNext
  <2> QED BY <2>1, <2>3, <2>4, InsideOnly
<1> QED BY <1>1, <1>2 DEF PostMessage

\* join pushes a call, or returns.
LEMMA JoinCore ==
    ASSUME TypeOK, TypeOK', Core, NEW on \in SUBSET Worker, NEW all \in BOOLEAN, NEW tmo \in Timeouts,
           Join(on, all, tmo)
    PROVE  Core'
<1> DEFINE f == NewFrame("join", IF all THEN workers ELSE on, all, tmo)
<1>1. stack \in Seq(Frame) /\ workers \subseteq Worker
  BY DEF TypeOK, EjsTypeOK
<1>2. f \in Frame /\ f.k = "join"
  <2>1. (IF all THEN workers ELSE on) \in SUBSET Worker
    BY <1>1
  <2>2. f \in Frame
    BY <2>1, NewFrameType DEF WaitCalls
  <2> QED BY <2>2 DEF NewFrame
<1>3. UNCHANGED <<state, linked, alive, workers, queue, istate, iqueue, ipc, icallback, sent, received>>
  BY DEF Join, outVars, inVars
<1>4. Top.k # "preload"
  BY ScriptRuns DEF Join
<1>5. Return(f, TRUE, stack) \/ stack' = Append(stack, f)
  BY DEF Join
<1> HIDE DEF f
<1>6. CASE Return(f, TRUE, stack)
  <2>1. /\ Len(stack') = Len(stack)
        /\ \A i \in DOMAIN stack' : stack'[i].k = stack[i].k /\ stack'[i].on = stack[i].on
    BY <1>1, <1>6, Popped
  <2>2. Len(stack') <= Len(stack)
    BY <1>1, <2>1, LenProperties
  <2> QED BY <1>3, <2>1, <2>2, CallsOnly
<1>7. CASE stack' = Append(stack, f)
  <2>1. f.k # "preload" /\ f.k \notin Callbacks
    BY <1>2 DEF Callbacks
  <2> QED BY <1>2, <1>3, <1>4, <1>7, <2>1, CallsOnly
<1> QED BY <1>5, <1>6, <1>7

\* A preload, or a call that serves events, begins.
LEMMA BeginCore ==
    ASSUME TypeOK, TypeOK', Core, NEW c, CanCall(c),
           UNCHANGED <<state, linked, alive, workers, queue, istate, iqueue, ipc, icallback, sent, received>>,
           NEW k \in WaitCalls \cup {"preload"}, NEW on \in SUBSET Worker, NEW tmo \in Timeouts,
           stack' = Append(stack, NewFrame(k, on, FALSE, tmo)),
           k = "preload" => \A w \in on : state[w] = BEGIN
    PROVE  Core'
<1> DEFINE f == NewFrame(k, on, FALSE, tmo)
<1>1. f \in Frame /\ f.k = k /\ f.on = on
  <2>1. f \in Frame
    BY NewFrameType
  <2> QED BY <2>1 DEF NewFrame
<1>2. k \notin Callbacks
  BY DEF WaitCalls, Callbacks
<1>3. Top.k # "preload"
  BY ScriptRuns
<1> HIDE DEF f
<1>4. stack' = Append(stack, f)
  BY DEF f
<1> QED BY <1>1, <1>2, <1>3, <1>4, CallsOnly

\* The script that is preloaded is that of a worker not yet started, and
\* nothing else runs inside.
LEMMA PreloadedWorker ==
    ASSUME TypeOK, Core, NEW w \in Worker, InPreload(w)
    PROVE  /\ alive /\ stack # <<>> /\ Top.k = "preload"
           /\ state[w] = BEGIN /\ Live(w)
<1>1. stack \in Seq(Frame)
  BY DEF TypeOK, EjsTypeOK
<1>2. alive /\ Top.k = "preload" /\ w \in Top.on
  BY DEF InPreload
<1>3. stack # <<>> /\ Len(stack) \in DOMAIN stack /\ Top = stack[Len(stack)]
  BY <1>1, <1>2, TopAndBelow
<1>4. state[w] = BEGIN
  BY <1>2, <1>3 DEF Core, CallsHold
<1> QED BY <1>2, <1>3, <1>4 DEF Live

LEMMA PreloadPostCore ==
    ASSUME TypeOK, TypeOK', Core, NEW w \in Worker, PreloadPost(w)
    PROVE  Core'
<1>1. alive /\ state[w] = BEGIN /\ Live(w)
  BY PreloadedWorker DEF PreloadPost
<1>2. stack \in Seq(Frame) /\ sent \in [Worker -> Nat]
  BY DEF TypeOK, EjsTypeOK, HistTypeOK
<1>3. /\ UNCHANGED <<state, linked, alive, workers, received, stack, istate, iqueue, ipc, icallback>>
      /\ sent' = [sent EXCEPT ![w] = sent[w] + 1]
      /\ PostOut("message", w, sent'[w])
  BY DEF PreloadPost, outVars, inVars
<1>4. sent'[w] = sent[w] + 1 /\ sent'[w] \in Nat
  BY <1>2, <1>3
<1>5. ThreadsAgree' /\ MainIsNext'
  BY <1>3 DEF Core, ThreadsAgree, MainIsNext
<1>6. /\ Len(stack') <= Len(stack)
      /\ \A i \in DOMAIN stack' : stack'[i].k = stack[i].k /\ stack'[i].on = stack[i].on
  BY <1>2, <1>3, LenProperties
<1>7. state[w] # CLOSED /\ "message" \in Callbacks
  BY <1>1 DEF BEGIN, CLOSED, Callbacks
<1> DEFINE n == sent'[w]
<1>8. n \in Nat /\ n = sent[w] + 1 /\ sent' = [sent EXCEPT ![w] = n] /\ PostOut("message", w, n)
  BY <1>3, <1>4
<1> HIDE DEF n
<1> QED BY <1>1, <1>3, <1>5, <1>6, <1>7, <1>8, EventQueued

LEMMA PreloadReturnCore ==
    ASSUME TypeOK, TypeOK', Core, NEW w \in Worker, NEW throws \in BOOLEAN, PreloadReturn(w, throws)
    PROVE  Core'
<1>1. alive /\ stack # <<>> /\ state[w] = BEGIN /\ Live(w)
  BY PreloadedWorker DEF PreloadReturn
<1>2. stack \in Seq(Frame)
  BY DEF TypeOK, EjsTypeOK
<1>3. /\ UNCHANGED <<state, linked, alive, workers, received, sent, istate, iqueue, ipc, icallback>>
      /\ stack' = Below
      /\ UNCHANGED queue \/ PostOut("error", w, 0)
  BY DEF PreloadReturn, outVars, histVars
<1>4. /\ Len(stack') <= Len(stack)
      /\ \A i \in DOMAIN stack' : stack'[i].k = stack[i].k /\ stack'[i].on = stack[i].on
  BY <1>1, <1>2, <1>3, BelowIsShorter
<1>5. CASE UNCHANGED queue
  BY <1>3, <1>4, <1>5, CallsOnly
<1>6. CASE PostOut("error", w, 0)
  <2>1. ThreadsAgree' /\ MainIsNext'
    BY <1>3 DEF Core, ThreadsAgree, MainIsNext
  <2>2. state[w] # CLOSED /\ "error" \in Callbacks
    BY <1>1 DEF BEGIN, CLOSED, Callbacks
  <2> QED BY <1>1, <1>3, <1>4, <1>6, <2>1, <2>2, EventQueued
<1> QED BY <1>3, <1>5, <1>6

\* The program ends.
LEMMA DestroyCore ==
    ASSUME TypeOK, TypeOK', Core, DestroyVM
    PROVE  Core'
<1>1. /\ UNCHANGED <<state, linked, stack, istate, iqueue, ipc, icallback, sent, received>>
      /\ alive' = FALSE /\ queue' = <<>> /\ stack = <<>>
  BY DEF DestroyVM, outVars, inVars
<1>2. ThreadsAgree' /\ MainIsNext' /\ ListAndLinksAgree' /\ CompleteHasAllMessages' /\ MessagesAreQueued'
  BY <1>1 DEF Core, ThreadsAgree, MainIsNext, ListAndLinksAgree, CompleteHasAllMessages, MessagesAreQueued, Live
<1>3. DOMAIN queue' = {} /\ DOMAIN stack' = {}
  BY <1>1
<1>4. EventsHold' /\ InOrder' /\ CallsHold'
  BY <1>3 DEF EventsHold, InOrder, CallsHold
<1> QED BY <1>2, <1>4 DEF Core

\* A loop is tested: it goes on, or its call returns.
LEMMA LoopTestCore ==
    ASSUME TypeOK, TypeOK', Core, NEW timesOut \in BOOLEAN, LoopTest(timesOut)
    PROVE  Core'
<1>1. stack \in Seq(Frame)
  BY DEF TypeOK, EjsTypeOK
<1>2. UNCHANGED <<state, linked, alive, workers, queue, istate, iqueue, ipc, icallback, sent, received>>
  BY DEF LoopTest, inVars
<1>3. stack # <<>>
  BY <1>1, TopAndBelow DEF LoopTest, InWait, WaitCalls
<1>4. \/ stack' = [stack EXCEPT ![Len(stack)].got = FALSE]
      \/ \E ok : Return(Top, ok, Below)
  <2> DEFINE again == [stack EXCEPT ![Len(stack)].got = FALSE]
  <2>1. stack' = again \/ \E ok : Return(Top, ok, Below)
    BY DEF LoopTest
  <2> QED BY <2>1
<1>5. Below \in Seq(Frame) /\ Len(Below) <= Len(stack) /\ \A i \in DOMAIN Below : Below[i] = stack[i]
  BY <1>1, <1>3, BelowIsShorter
<1>6. /\ Len(stack') <= Len(stack)
      /\ \A i \in DOMAIN stack' : stack'[i].k = stack[i].k /\ stack'[i].on = stack[i].on
  <2>1. CASE stack' = [stack EXCEPT ![Len(stack)].got = FALSE]
    <3> DEFINE again == [stack EXCEPT ![Len(stack)].got = FALSE]
    <3>1. /\ again \in Seq(Frame) /\ Len(again) = Len(stack)
          /\ \A i \in DOMAIN stack : again[i].k = stack[i].k /\ again[i].on = stack[i].on
      BY <1>1, <1>3, Tested
    <3>2. stack' = again
      BY <2>1
    <3> HIDE DEF again
    <3>3. DOMAIN again = DOMAIN stack /\ Len(again) <= Len(stack)
      BY <1>1, <3>1, LenProperties
    <3> QED BY <3>1, <3>2, <3>3
  <2>2. ASSUME NEW ok, Return(Top, ok, Below)
        PROVE  /\ Len(stack') <= Len(stack)
               /\ \A i \in DOMAIN stack' : stack'[i].k = stack[i].k /\ stack'[i].on = stack[i].on
    <3>1. /\ stack' \in Seq(Frame) /\ Len(stack') = Len(Below)
          /\ \A i \in DOMAIN stack' : stack'[i].k = Below[i].k /\ stack'[i].on = Below[i].on
      BY <1>1, <1>5, <2>2, Popped
    <3>2. DOMAIN stack' = DOMAIN Below
      BY <1>5, <3>1, LenProperties
    <3> QED BY <1>5, <3>1, <3>2
  <2> QED BY <1>4, <2>1, <2>2
<1> QED BY <1>2, <1>6, CallsOnly

\* A worker completes when there is nothing more it may say.
LEMMA FinishCore ==
    ASSUME TypeOK, TypeOK', Core, NEW w \in Worker,
           UNCHANGED <<istate, iqueue, ipc, icallback, alive, sent>>,
           \/ UNCHANGED <<state, workers, linked>>
           \/ /\ state[w] = CLOSED
              /\ ipc[w] = "idle"
              /\ received'[w] = sent[w]
              /\ state' = [state EXCEPT ![w] = COMPLETE]
              /\ workers' = workers \ {w}
              /\ linked' = [linked EXCEPT ![w] = FALSE],
           \A v \in Worker : v # w => received'[v] = received[v],
           state[w] = COMPLETE => received'[w] = received[w]
    PROVE  /\ ThreadsAgree' /\ MainIsNext' /\ ListAndLinksAgree' /\ CompleteHasAllMessages'
           /\ \A v \in Worker : v # w => state'[v] = state[v]
<1> USE DEF Absent, BEGIN, STARTED, CLOSED, COMPLETE
<1>1. /\ state \in [Worker -> 0..4] /\ linked \in [Worker -> BOOLEAN]
      /\ received \in [Worker -> Nat] /\ received' \in [Worker -> Nat]
  BY DEF TypeOK, OutTypeOK, HistTypeOK
<1>2. ThreadsAgree /\ MainIsNext /\ ListAndLinksAgree /\ CompleteHasAllMessages
  BY DEF Core
<1>3. CASE UNCHANGED <<state, workers, linked>>
  <2>1. ThreadsAgree' /\ MainIsNext' /\ ListAndLinksAgree'
    BY <1>2, <1>3 DEF ThreadsAgree, MainIsNext, ListAndLinksAgree, Live
  <2>2. CompleteHasAllMessages'
    BY <1>2, <1>3 DEF CompleteHasAllMessages
  <2> QED BY <1>3, <2>1, <2>2
<1>4. CASE /\ state[w] = CLOSED
           /\ ipc[w] = "idle"
           /\ received'[w] = sent[w]
           /\ state' = [state EXCEPT ![w] = COMPLETE]
           /\ workers' = workers \ {w}
           /\ linked' = [linked EXCEPT ![w] = FALSE]
  <2>1. state'[w] = COMPLETE /\ \A v \in Worker : v # w => state'[v] = state[v]
    BY <1>1, <1>4
  <2>2. ThreadsAgree'
    BY <1>2, <1>4, <2>1 DEF ThreadsAgree, WaitPoints
  <2>3. MainIsNext'
    BY <1>2, <1>4, <2>1 DEF MainIsNext
  <2>4. ListAndLinksAgree'
    BY <1>1, <1>2, <1>4, <2>1 DEF ListAndLinksAgree, Live
  <2>5. CompleteHasAllMessages'
    BY <1>2, <1>4, <2>1 DEF CompleteHasAllMessages
  <2> QED BY <2>1, <2>2, <2>3, <2>4, <2>5
<1> QED BY <1>3, <1>4

\* doMessage takes an event.
LEMMA DispatchCore ==
    ASSUME TypeOK, TypeOK', Core, NEW handler \in BOOLEAN, Dispatch(handler)
    PROVE  Core'
<1> DEFINE ev == Head(queue)
           w == queue[1].w
           pumped == [stack EXCEPT ![Len(stack)].got = TRUE]
           f == NewFrame(ev.k, {ev.w}, FALSE, "none")
<1>1. /\ stack \in Seq(Frame) /\ stack' \in Seq(Frame) /\ queue \in Seq(Event)
      /\ sent \in [Worker -> Nat] /\ received \in [Worker -> Nat]
  BY DEF TypeOK, EjsTypeOK, HistTypeOK
<1>2. /\ alive /\ queue # <<>> /\ queue' = Tail(queue) /\ Top.k \in WaitCalls
      /\ received' = [received EXCEPT ![ev.w] = IF ev.k = "message" THEN ev.n ELSE @]
      /\ \/ stack' = Append(pumped, f) /\ UNCHANGED <<state, workers, linked>>
         \/ stack' = pumped /\ FinishMessage(ev)
      /\ UNCHANGED <<istate, iqueue, ipc, icallback, alive, sent>>
  BY DEF Dispatch, inVars, InWait
<1>3. stack # <<>> /\ Top.k # "preload"
  BY <1>1, <1>2, TopAndBelow DEF WaitCalls
<1>4. /\ Len(queue) \in Nat /\ DOMAIN queue = 1 .. Len(queue) /\ 1 \in DOMAIN queue
      /\ Head(queue) = queue[1]
  BY <1>1, <1>2, Unqueued
<1>5. queue[1].k \in Callbacks /\ w \in Worker /\ queue[1].n \in Nat
  BY <1>1, <1>4, EventFields
<1>6. /\ pumped \in Seq(Frame) /\ Len(pumped) = Len(stack)
      /\ \A i \in DOMAIN stack : pumped[i].k = stack[i].k /\ pumped[i].on = stack[i].on
  BY <1>1, <1>3, Tested
<1>7. f \in Frame /\ f.k = queue[1].k /\ f.on = {w}
  <2>1. f \in Frame
    BY <1>4, <1>5, NewFrameType DEF Timeouts
  <2> QED BY <1>4, <2>1 DEF NewFrame
<1>8. /\ queue[1].k = "message" => received'[w] = queue[1].n
      /\ queue[1].k # "message" => received'[w] = received[w]
      /\ \A v \in Worker : v # w => received'[v] = received[v]
  BY <1>1, <1>2, <1>4, <1>5
<1>9. \/ stack' = Append(pumped, f) /\ UNCHANGED <<state, workers, linked>>
      \/ /\ stack' = pumped
         /\ \/ queue[1].k # "close" /\ UNCHANGED <<state, workers, linked>>
            \/ /\ queue[1].k = "close"
               /\ state' = [state EXCEPT ![w] = COMPLETE]
               /\ workers' = workers \ {w}
               /\ linked' = [linked EXCEPT ![w] = FALSE]
  BY <1>2, <1>4 DEF FinishMessage, removeWorker
<1> HIDE DEF pumped, f, ev, w
<1>10. /\ MessagesAreQueued'
       /\ queue[1].k = "close" => received[w] = sent[w]
  BY <1>2, <1>8, MessagesTaken DEF w, Core
<1>11. /\ Live(w)
       /\ queue[1].k = "close" => state[w] = CLOSED /\ ipc[w] = "idle"
  BY <1>4 DEF w, Core, EventsHold
<1>12. /\ ThreadsAgree' /\ MainIsNext' /\ ListAndLinksAgree' /\ CompleteHasAllMessages'
       /\ \A v \in Worker : v # w => state'[v] = state[v]
  <2>1. state[w] # COMPLETE
    BY <1>11 DEF Live, COMPLETE, BEGIN, STARTED, CLOSED
  <2>2. \/ UNCHANGED <<state, workers, linked>>
        \/ /\ state[w] = CLOSED
           /\ ipc[w] = "idle"
           /\ received'[w] = sent[w]
           /\ state' = [state EXCEPT ![w] = COMPLETE]
           /\ workers' = workers \ {w}
           /\ linked' = [linked EXCEPT ![w] = FALSE]
    BY <1>8, <1>9, <1>10, <1>11
  <2> QED BY <1>2, <1>5, <1>8, <2>1, <2>2, FinishCore
<1>13. /\ EventsHold' /\ InOrder'
       /\ queue[1].k = "close" => \A i \in DOMAIN queue' : queue'[i].w # w
  <2>1. queue[1].k # "close" => state' = state
    BY <1>9
  <2> QED BY <1>2, <1>8, <1>12, <2>1, EventsTaken DEF w, Core
<1>14. CallsHold'
  <2>1. ASSUME NEW v \in Worker, ClosedUp(v) PROVE ClosedUp(v)' /\ v # w
    <3>1. v # w
      BY <1>4, <2>1 DEF ClosedUp, w
    <3>2. state'[v] = state[v] /\ received'[v] = received[v]
      BY <1>8, <1>12, <3>1
    <3> QED BY <1>1, <1>2, <2>1, <3>1, <3>2, ClosedUpStays
  <2>2. \A i \in DOMAIN stack : stack[i].on \subseteq Worker
    BY <1>1, CallWorkers
  <2>3. \A i \in DOMAIN stack : stack[i].k = "close" => w \notin stack[i].on /\ \A v \in stack[i].on : ClosedUp(v)'
    BY <2>1, <2>2 DEF Core, CallsHold
  <2>4. \A i \in DOMAIN stack : stack[i].k # "preload"
    BY <1>1, <1>3, PreloadOnTop DEF Core
  <2>5. DOMAIN pumped = DOMAIN stack /\ Len(pumped) <= Len(stack)
    BY <1>1, <1>6, LenProperties
  <2>6. CASE stack' = pumped
    BY <1>1, <1>6, <2>3, <2>4, <2>5, <2>6, CallsKept DEF Core
  <2>7. CASE stack' = Append(pumped, f) /\ UNCHANGED <<state, workers, linked>>
    <3>1. /\ Len(stack') = Len(pumped) + 1
          /\ \A i \in DOMAIN pumped : stack'[i] = pumped[i]
          /\ stack'[Len(pumped) + 1] = f
      BY <1>6, <1>7, <2>7, AppendProperties, LenProperties
    <3>2. /\ Len(stack') = Len(stack) + 1
          /\ \A i \in DOMAIN stack : stack'[i].k = stack[i].k /\ stack'[i].on = stack[i].on
          /\ f = stack'[Len(stack) + 1]
      BY <1>6, <2>5, <3>1
    <3>3. ASSUME NEW v \in Worker, v = w, queue[1].k = "close" PROVE ClosedUp(v)'
      <4>1. state'[v] = CLOSED /\ ipc'[v] = "idle" /\ received'[v] = sent'[v]
        BY <1>2, <1>8, <1>10, <1>11, <2>7, <3>3
      <4> QED BY <1>13, <3>3, <4>1 DEF ClosedUp
    <3>4. f.k # "preload"
      BY <1>5, <1>7 DEF Callbacks
    <3>5. f.k \in Callbacks => \E v \in Worker : f.on = {v}
      BY <1>5, <1>7
    <3>6. f.k = "close" => /\ \A v \in f.on : ClosedUp(v)'
                           /\ \A i \in DOMAIN stack : stack[i].k = "close" => stack[i].on \cap f.on = {}
      BY <1>5, <1>7, <2>3, <3>3
    <3> QED BY <1>1, <1>3, <2>3, <3>2, <3>4, <3>5, <3>6, CallMade DEF Core
  <2> QED BY <1>9, <2>6, <2>7
<1> QED BY <1>10, <1>12, <1>13, <1>14 DEF Core

\* A callback returns, and doMessage with it.
LEMMA CallbackReturnCore ==
    ASSUME TypeOK, TypeOK', Core, NEW throws \in BOOLEAN, CallbackReturn(throws)
    PROVE  Core'
<1>1. /\ stack \in Seq(Frame) /\ stack' \in Seq(Frame) /\ queue \in Seq(Event)
      /\ sent \in [Worker -> Nat] /\ received \in [Worker -> Nat]
  BY DEF TypeOK, EjsTypeOK, HistTypeOK
<1>2. /\ Top.k \in Callbacks /\ stack' = Below
      /\ UNCHANGED <<istate, iqueue, ipc, icallback, alive, sent, received, queue>>
  BY DEF CallbackReturn, inVars
<1>3. stack # <<>> /\ Len(stack) \in DOMAIN stack /\ Top = stack[Len(stack)]
  BY <1>1, <1>2, TopAndBelow DEF Callbacks
<1>4. PICK w \in Worker : Top.on = {w}
  BY <1>2, <1>3 DEF Core, CallsHold
<1>5. \/ Top.k # "close" /\ UNCHANGED <<state, workers, linked>>
      \/ /\ Top.k = "close"
         /\ state' = [state EXCEPT ![w] = COMPLETE]
         /\ workers' = workers \ {w}
         /\ linked' = [linked EXCEPT ![w] = FALSE]
  BY <1>4 DEF CallbackReturn, FinishMessage, removeWorker
<1>6. Top.k = "close" => ClosedUp(w)
  BY <1>3, <1>4 DEF Core, CallsHold
<1>7. /\ ThreadsAgree' /\ MainIsNext' /\ ListAndLinksAgree' /\ CompleteHasAllMessages'
      /\ \A v \in Worker : v # w => state'[v] = state[v]
  <2>1. \/ UNCHANGED <<state, workers, linked>>
        \/ /\ state[w] = CLOSED
           /\ ipc[w] = "idle"
           /\ received'[w] = sent[w]
           /\ state' = [state EXCEPT ![w] = COMPLETE]
           /\ workers' = workers \ {w}
           /\ linked' = [linked EXCEPT ![w] = FALSE]
    BY <1>2, <1>5, <1>6 DEF ClosedUp
  <2> QED BY <1>2, <2>1, FinishCore
<1>8. MessagesAreQueued'
  BY <1>2 DEF Core, MessagesAreQueued
<1>9. \A i \in DOMAIN queue : state'[queue[i].w] = state[queue[i].w]
  <2>1. ASSUME NEW i \in DOMAIN queue PROVE state'[queue[i].w] = state[queue[i].w]
    <3>1. queue[i].w \in Worker
      BY <1>1, <2>1, EventFields
    <3>2. Top.k = "close" => queue[i].w # w
      BY <1>6, <2>1 DEF ClosedUp
    <3> QED BY <1>5, <1>7, <3>1, <3>2
  <2> QED BY <2>1
<1>10. EventsHold' /\ InOrder'
  BY <1>2, <1>9 DEF Core, EventsHold, InOrder, Live
<1>11. CallsHold'
  <2>1. \A i \in DOMAIN Below : Below[i] = stack[i] /\ i \in DOMAIN stack /\ i # Len(stack)
    BY <1>1, <1>3, BelowIsShorter
  <2>2. \A i \in DOMAIN stack : stack[i].on \subseteq Worker
    BY <1>1, CallWorkers
  <2>3. \A i \in DOMAIN stack : stack[i].k # "preload"
    BY <1>1, <1>2, PreloadOnTop DEF Core, Callbacks
  <2>4. ASSUME NEW i \in DOMAIN Below, stack[i].k = "close", NEW v \in stack[i].on
        PROVE  ClosedUp(v)'
    <3>1. v \in Worker /\ ClosedUp(v) /\ i \in DOMAIN stack /\ i # Len(stack)
      BY <2>1, <2>2, <2>4 DEF Core, CallsHold
    <3>2. state'[v] = state[v]
      <4>1. CASE Top.k = "close"
        <5>1. stack[i].on \cap stack[Len(stack)].on = {}
          BY <1>3, <2>4, <3>1, <4>1 DEF Core, CallsHold
        <5>2. v # w
          BY <1>3, <1>4, <2>4, <5>1
        <5> QED BY <1>7, <3>1, <5>2
      <4>2. CASE Top.k # "close"
        BY <1>5, <4>2
      <4> QED BY <4>1, <4>2
    <3> QED BY <1>1, <1>2, <3>1, <3>2, ClosedUpStays
  <2>5. Len(stack') <= Len(stack)
    BY <1>1, <1>2, <1>3, BelowIsShorter
  <2>6. /\ \A i \in DOMAIN stack' : stack'[i].k = stack[i].k /\ stack'[i].on = stack[i].on
        /\ \A i \in DOMAIN stack' : stack[i].k # "preload"
        /\ \A i \in DOMAIN stack' : stack[i].k = "close" => \A v \in stack[i].on : ClosedUp(v)'
    BY <1>2, <2>1, <2>3, <2>4
  <2> QED BY <1>1, <2>5, <2>6, CallsKept DEF Core
<1> QED BY <1>7, <1>8, <1>10, <1>11 DEF Core

\* A script runs inside only as the script of a worker that has started, or in
\* a callback of one that has been made.
LEMMA InsideRuns ==
    ASSUME TypeOK, Core, NEW w \in Worker, InsideScript(w)
    PROVE  /\ state[w] # Absent
           /\ ~icallback[w] => ipc[w] = "script" /\ state[w] = STARTED /\ istate[w] = STARTED
BY DEF InsideScript, Core, ThreadsAgree, WaitPoints, Absent, STARTED

\* workerMain begins: it is taken from the queue, and there is no other.
LEMMA InsideTaken ==
    ASSUME TypeOK, Core, NEW w \in Worker, iqueue[w] # <<>>, iqueue' = [iqueue EXCEPT ![w] = Tail(@)]
    PROVE  /\ \A v \in Worker : v # w => iqueue'[v] = iqueue[v]
           /\ \A i \in DOMAIN iqueue'[w] :
                 iqueue'[w][i] = "main" => state[w] = STARTED /\ istate[w] = BEGIN /\ Head(iqueue[w]) # "main"
           /\ \A i, j \in DOMAIN iqueue'[w] : iqueue'[w][i] = "main" /\ iqueue'[w][j] = "main" => i = j
           /\ Head(iqueue[w]) = "main" => state[w] = STARTED /\ istate[w] = BEGIN
           /\ state[w] # Absent
<1> DEFINE q == iqueue[w]
           N == Len(q)
<1>1. iqueue \in [Worker -> Seq({"main", "message"})]
  BY DEF TypeOK, InTypeOK
<1>2. /\ \A i \in DOMAIN q : q[i] = "main" => state[w] = STARTED /\ istate[w] = BEGIN
      /\ \A i, j \in DOMAIN q : q[i] = "main" /\ q[j] = "main" => i = j
      /\ state[w] = Absent => q = <<>>
  BY DEF Core, MainIsNext, ThreadsAgree
<1>3. q \in Seq({"main", "message"}) /\ q # <<>> /\ iqueue'[w] = Tail(q)
      /\ \A v \in Worker : v # w => iqueue'[v] = iqueue[v]
  BY <1>1
<1> HIDE DEF q
<1>4. /\ N \in Nat /\ N # 0 /\ DOMAIN q = 1 .. N
      /\ Head(q) = q[1] /\ Tail(q) \in Seq({"main", "message"}) /\ Len(Tail(q)) = N - 1
      /\ \A i \in 1 .. Len(Tail(q)) : Tail(q)[i] = q[i + 1]
      /\ DOMAIN Tail(q) = 1 .. Len(Tail(q))
  BY <1>3, HeadTailProperties, LenProperties, EmptySeq
<1> HIDE DEF N
<1>5. \A i \in DOMAIN iqueue'[w] : i + 1 \in DOMAIN q /\ iqueue'[w][i] = q[i + 1] /\ i + 1 # 1 /\ i \in Nat
  BY <1>3, <1>4
<1>6. 1 \in DOMAIN q
  BY <1>4
<1>7. \A i, j \in DOMAIN iqueue'[w] : i + 1 = j + 1 => i = j
  BY <1>5
<1> QED BY <1>2, <1>3, <1>4, <1>5, <1>6, <1>7 DEF q

LEMMA InsideMainCore ==
    ASSUME TypeOK, TypeOK', Core, NEW w \in Worker, InsideMain(w)
    PROVE  Core'
<1> USE DEF Absent, BEGIN, STARTED, CLOSED, COMPLETE
<1>1. istate \in [Worker -> 0..4] /\ ipc \in [Worker -> InPoints]
  BY DEF TypeOK, InTypeOK
<1>2. /\ ipc[w] = "idle" /\ iqueue[w] # <<>> /\ Head(iqueue[w]) = "main"
      /\ iqueue' = [iqueue EXCEPT ![w] = Tail(@)]
      /\ istate' = [istate EXCEPT ![w] = STARTED]
      /\ UNCHANGED <<state, linked, alive, workers, stack, queue, icallback, sent, received>>
  BY DEF InsideMain, outVars
<1>3. /\ \A v \in Worker : v # w => ipc'[v] = ipc[v]
      /\ ipc'[w] \in {"idle", "script", "ended"}
  BY <1>1, <1>2 DEF InsideMain
<1>4. /\ \A v \in Worker : v # w => iqueue'[v] = iqueue[v]
      /\ \A i \in DOMAIN iqueue'[w] : iqueue'[w][i] # "main"
      /\ state[w] = STARTED
  BY <1>2, InsideTaken
<1>5. istate'[w] = STARTED /\ \A v \in Worker : v # w => istate'[v] = istate[v]
  BY <1>1, <1>2
<1>6. ThreadsAgree'
  BY <1>2, <1>3, <1>4, <1>5 DEF Core, ThreadsAgree, WaitPoints
<1>7. MainIsNext'
  BY <1>2, <1>4, <1>5 DEF Core, MainIsNext
<1>8. \A v \in Worker : state[v] = CLOSED /\ ipc[v] = "idle" => ipc'[v] = "idle"
  BY <1>3, <1>4
<1> QED BY <1>2, <1>6, <1>7, <1>8, InsideOnly

\* The inside script, or the loop it waits in, goes on.
LEMMA InsideGoesOn ==
    ASSUME TypeOK, TypeOK', Core, NEW w \in Worker,
           UNCHANGED <<state, linked, alive, workers, stack, queue, istate, iqueue, sent, received>>,
           \A v \in Worker : v # w => ipc'[v] = ipc[v] /\ icallback'[v] = icallback[v],
           icallback'[w] => state[w] # Absent,
           \/ ipc'[w] = ipc[w]
           \/ /\ ipc[w] \in {"script"} \cup WaitPoints
              /\ ipc'[w] \in {"script", "ended"} \cup WaitPoints
    PROVE  Core'
<1>1. ThreadsAgree'
  BY DEF Core, ThreadsAgree, WaitPoints
<1>2. MainIsNext'
  BY DEF Core, MainIsNext
<1>3. \A v \in Worker : state[v] = CLOSED /\ ipc[v] = "idle" => ipc'[v] = "idle"
  BY DEF WaitPoints
<1> QED BY <1>1, <1>2, <1>3, InsideOnly

LEMMA InsidePostCore ==
    ASSUME TypeOK, TypeOK', Core, NEW w \in Worker, InsidePost(w)
    PROVE  Core'
<1> USE DEF Absent, BEGIN, STARTED, CLOSED, COMPLETE
<1>1. /\ stack \in Seq(Frame) /\ sent \in [Worker -> Nat] /\ state \in [Worker -> 0..4]
  BY DEF TypeOK, OutTypeOK, EjsTypeOK, HistTypeOK
<1>2. CASE UNCHANGED <<sent, queue>>
  <2>1. UNCHANGED coreVars
    BY <1>2 DEF InsidePost, outVars, coreVars
  <2> QED BY <2>1, Quiet
<1>3. CASE istate[w] < CLOSED /\ alive /\ sent' = [sent EXCEPT ![w] = @ + 1]
           /\ PostOut("message", w, sent'[w])
  <2>1. UNCHANGED <<state, linked, alive, workers, stack, istate, iqueue, ipc, icallback, received>>
    BY DEF InsidePost, outVars
  <2>2. state[w] # Absent
    BY InsideRuns DEF InsidePost, CanCallInside
  <2>3. state[w] \in {BEGIN, STARTED} /\ Live(w)
    BY <1>1, <1>3, <2>2 DEF Core, ThreadsAgree, Live
  <2>5. ThreadsAgree' /\ MainIsNext'
    BY <2>1 DEF Core, ThreadsAgree, MainIsNext
  <2> DEFINE n == sent'[w]
  <2>7. n \in Nat /\ n = sent[w] + 1 /\ sent' = [sent EXCEPT ![w] = n] /\ PostOut("message", w, n)
    BY <1>1, <1>3
  <2>9. /\ Len(stack') <= Len(stack)
        /\ \A i \in DOMAIN stack' : stack'[i].k = stack[i].k /\ stack'[i].on = stack[i].on
    BY <1>1, <2>1, LenProperties
  <2>10. state[w] # CLOSED /\ "message" \in Callbacks
    BY <2>3 DEF Callbacks
  <2> HIDE DEF n
  <2> QED BY <1>3, <2>1, <2>3, <2>5, <2>7, <2>9, <2>10, EventQueued
<1> QED BY <1>2, <1>3 DEF InsidePost

LEMMA InsideDispatchCore ==
    ASSUME TypeOK, TypeOK', Core, NEW w \in Worker, NEW handler \in BOOLEAN, InsideDispatch(w, handler)
    PROVE  Core'
<1>1. /\ iqueue[w] # <<>> /\ Head(iqueue[w]) = "message"
      /\ iqueue' = [iqueue EXCEPT ![w] = Tail(@)]
      /\ UNCHANGED <<state, linked, alive, workers, stack, queue, istate, ipc, sent, received>>
      /\ \/ icallback' = [icallback EXCEPT ![w] = TRUE]
         \/ UNCHANGED icallback
  BY DEF InsideDispatch, outVars, ejsVars
<1>2. /\ \A v \in Worker : v # w => iqueue'[v] = iqueue[v]
      /\ \A i \in DOMAIN iqueue'[w] :
            iqueue'[w][i] = "main" => state[w] = STARTED /\ istate[w] = BEGIN
      /\ \A i, j \in DOMAIN iqueue'[w] : iqueue'[w][i] = "main" /\ iqueue'[w][j] = "main" => i = j
      /\ state[w] # Absent
  BY <1>1, InsideTaken
<1>3. \A v \in Worker : v # w => icallback'[v] = icallback[v]
  BY <1>1 DEF TypeOK, InTypeOK
<1>4. ThreadsAgree'
  BY <1>1, <1>2, <1>3 DEF Core, ThreadsAgree
<1>5. MainIsNext'
  BY <1>1, <1>2 DEF Core, MainIsNext
<1> QED BY <1>1, <1>4, <1>5, InsideOnly

\* handleError and the end of workerMain.
LEMMA InsideReportCore ==
    ASSUME TypeOK, TypeOK', Core, NEW w \in Worker, InsideReport(w)
    PROVE  Core'
<1>1. /\ ipc[w] = "ended"
      /\ UNCHANGED <<state, linked, alive, workers, stack, istate, iqueue, ipc, icallback, sent, received>>
      /\ \/ alive /\ PostOut("error", w, 0)
         \/ UNCHANGED queue
  BY DEF InsideReport, outVars, histVars
<1>2. CASE UNCHANGED queue
  <2>1. UNCHANGED coreVars
    BY <1>1, <1>2 DEF coreVars
  <2> QED BY <2>1, Quiet
<1>3. CASE alive /\ PostOut("error", w, 0)
  <2>1. ThreadsAgree' /\ MainIsNext'
    BY <1>1 DEF Core, ThreadsAgree, MainIsNext
  <2>2. state[w] = STARTED /\ Live(w) /\ "error" \in Callbacks
    BY <1>1 DEF Core, ThreadsAgree, Live, Callbacks
  <2>3. /\ Len(stack') <= Len(stack)
        /\ \A i \in DOMAIN stack' : stack'[i].k = stack[i].k /\ stack'[i].on = stack[i].on
    BY <1>1, LenProperties DEF TypeOK, EjsTypeOK
  <2>4. state[w] # CLOSED
    BY <2>2 DEF STARTED, CLOSED
  <2> QED BY <1>1, <1>3, <2>1, <2>2, <2>3, <2>4, EventQueued
<1> QED BY <1>1, <1>2, <1>3

LEMMA InsideCloseCore ==
    ASSUME TypeOK, TypeOK', Core, NEW w \in Worker, InsideClose(w)
    PROVE  Core'
<1> USE DEF Absent, BEGIN, STARTED, CLOSED, COMPLETE
<1>1. /\ stack \in Seq(Frame) /\ queue \in Seq(Event) /\ sent \in [Worker -> Nat]
      /\ state \in [Worker -> 0..4] /\ istate \in [Worker -> 0..4] /\ ipc \in [Worker -> InPoints]
  BY DEF TypeOK, OutTypeOK, EjsTypeOK, InTypeOK, HistTypeOK
<1>2. /\ ipc[w] = "ended"
      /\ state'[w] = CLOSED /\ istate'[w] = CLOSED /\ ipc'[w] = "closed"
      /\ \A v \in Worker : v # w => state'[v] = state[v] /\ istate'[v] = istate[v] /\ ipc'[v] = ipc[v]
      /\ UNCHANGED <<linked, alive, workers, stack, queue, iqueue, icallback, sent, received>>
  BY <1>1 DEF InsideClose, ejsVars, histVars
<1>3. state[w] = STARTED /\ istate[w] = STARTED
  BY <1>2 DEF Core, ThreadsAgree
<1>4. ThreadsAgree'
  BY <1>2, <1>3 DEF Core, ThreadsAgree, WaitPoints
<1>5. MainIsNext'
  BY <1>2, <1>3 DEF Core, MainIsNext
<1>6. ListAndLinksAgree' /\ CompleteHasAllMessages' /\ MessagesAreQueued'
  BY <1>2, <1>3 DEF Core, ListAndLinksAgree, CompleteHasAllMessages, MessagesAreQueued, Live
<1>7. EventsHold' /\ InOrder'
  <2>1. \A v \in Worker : sent'[v] >= sent[v]
    BY <1>1, <1>2
  <2>2. \A v \in Worker : Live(v) => Live(v)'
    BY <1>2 DEF Live
  <2>3. \A v \in Worker : state[v] = CLOSED /\ ipc[v] = "idle" => state'[v] = CLOSED /\ ipc'[v] = "idle"
    BY <1>2, <1>3
  <2> QED BY <1>2, <2>1, <2>2, <2>3, EventsStay DEF Core
<1>8. CallsHold'
  <2>1. ASSUME NEW v \in Worker, ClosedUp(v) PROVE ClosedUp(v)'
    <3>1. state'[v] = state[v] /\ ipc'[v] = ipc[v]
      BY <1>2, <1>3, <2>1 DEF ClosedUp
    <3> QED BY <1>1, <1>2, <2>1, <3>1, ClosedUpStays
  <2>2. \A i \in DOMAIN stack : stack[i].on \subseteq Worker
    BY <1>1, CallWorkers
  <2>3. \A i \in DOMAIN stack' : stack[i].k = "close" => \A v \in stack[i].on : ClosedUp(v)'
    BY <1>2, <2>1, <2>2 DEF Core, CallsHold
  <2>4. \A i \in DOMAIN stack' : stack[i].k = "preload" => \A v \in stack[i].on : state'[v] = BEGIN
    BY <1>2, <1>3, <2>2 DEF Core, CallsHold
  <2>5. stack' \in Seq(Frame) /\ Len(stack') <= Len(stack)
    BY <1>1, <1>2, LenProperties
  <2>6. \A i \in DOMAIN stack' : stack'[i].k = stack[i].k /\ stack'[i].on = stack[i].on
    BY <1>2
  <2> QED BY <1>1, <2>3, <2>4, <2>5, <2>6, CallsKept DEF Core
<1> QED BY <1>4, <1>5, <1>6, <1>7, <1>8 DEF Core

LEMMA InsidePostCloseCore ==
    ASSUME TypeOK, TypeOK', Core, NEW w \in Worker, InsidePostClose(w)
    PROVE  Core'
<1>1. ipc \in [Worker -> InPoints]
  BY DEF TypeOK, InTypeOK
<1>2. /\ ipc[w] = "closed" /\ ipc'[w] = "idle" /\ \A v \in Worker : v # w => ipc'[v] = ipc[v]
      /\ UNCHANGED <<state, linked, alive, workers, stack, istate, iqueue, icallback, sent, received>>
      /\ \/ alive /\ PostOut("close", w, 0)
         \/ UNCHANGED queue
  BY <1>1 DEF InsidePostClose, outVars, histVars
<1>3. state[w] = CLOSED
  BY <1>2 DEF Core, ThreadsAgree
<1>4. ThreadsAgree'
  BY <1>2, <1>3 DEF Core, ThreadsAgree, WaitPoints, Absent, BEGIN, STARTED, CLOSED, COMPLETE
<1>5. MainIsNext'
  BY <1>2 DEF Core, MainIsNext
<1>6. \A v \in Worker : state[v] = CLOSED /\ ipc[v] = "idle" => ipc'[v] = "idle"
  BY <1>2
<1>7. CASE UNCHANGED queue
  BY <1>2, <1>4, <1>5, <1>6, <1>7, InsideOnly
<1>8. CASE alive /\ PostOut("close", w, 0)
  <2>1. Live(w) /\ "close" \in Callbacks
    BY <1>3 DEF Live, Callbacks
  <2>2. /\ Len(stack') <= Len(stack)
        /\ \A i \in DOMAIN stack' : stack'[i].k = stack[i].k /\ stack'[i].on = stack[i].on
    BY <1>2, LenProperties DEF TypeOK, EjsTypeOK
  <2> QED BY <1>2, <1>3, <1>4, <1>5, <1>6, <1>8, <2>1, <2>2, EventQueued
<1> QED BY <1>2, <1>7, <1>8

\* Every step: one step of the proof per action.
LEMMA NextCore == TypeOK /\ TypeOK' /\ Core /\ [Next]_vars => Core'
<1> SUFFICES ASSUME TypeOK, TypeOK', Core, [Next]_vars PROVE Core'
  OBVIOUS
<1>0. CASE UNCHANGED vars
  BY <1>0, Quiet DEF vars, outVars, ejsVars, inVars, histVars, coreVars
<1>1. ASSUME NEW w \in Worker, NEW s \in Script \cup {NoScript}, Construct(w, s)
      PROVE  Core'
  BY <1>1, initWorkerCore DEF Construct
<1>2. ASSUME NEW w \in Worker, Fork(w)
      PROVE  Core'
  BY <1>2, initWorkerCore DEF Fork
<1>3. ASSUME NEW b \in Worker, NEW w \in Worker, Clone(b, w)
      PROVE  Core'
  <2>1. initWorker(w, NoScript) \/ UNCHANGED coreVars
    BY <1>3 DEF Clone, outVars, ejsVars, inVars, coreVars
  <2> QED BY <2>1, initWorkerCore, Quiet
<1>4. ASSUME NEW w \in Worker, NEW s \in Script, NEW tmo \in {"zero", "finite", "none"}, Load(w, s, tmo)
      PROVE  Core'
  BY <1>4, ScriptRuns, startWorkerCore DEF Load
<1>5. ASSUME NEW w \in Worker, NEW s \in Script, NEW tmo \in {"zero", "finite", "none"}, Eval(w, s, tmo)
      PROVE  Core'
  BY <1>5, ScriptRuns, startWorkerCore DEF Eval
<1>6. ASSUME NEW w \in Worker, PostMessage(w)
      PROVE  Core'
  BY <1>6, PostMessageCore
<1>7. ASSUME NEW w \in Worker, Terminate(w)
      PROVE  Core'
  <2>1. UNCHANGED coreVars
    BY <1>7 DEF Terminate, outVars, coreVars
  <2> QED BY <2>1, Quiet
<1>8. ASSUME NEW on \in SUBSET Worker, NEW all \in BOOLEAN, NEW tmo \in Timeouts, Join(on, all, tmo)
      PROVE  Core'
  BY <1>8, JoinCore
<1>9. ASSUME NEW w \in Worker, NEW tmo \in {"finite", "none"}, WaitForMessage(w, tmo)
      PROVE  Core'
  <2>1. /\ CanCall("wait") /\ stack' = Append(stack, NewFrame("wait", {w}, FALSE, tmo))
        /\ UNCHANGED <<state, linked, alive, workers, queue, istate, iqueue, ipc, icallback, sent, received>>
    BY <1>9 DEF WaitForMessage, inVars
  <2> DEFINE on == {w}
             k == "wait"
  <2>2. k \in WaitCalls /\ tmo \in Timeouts /\ on \in SUBSET Worker /\ k # "preload"
    BY DEF WaitCalls, Timeouts
  <2>3. CanCall(k) /\ stack' = Append(stack, NewFrame(k, on, FALSE, tmo))
    BY <2>1
  <2> HIDE DEF on, k
  <2> QED BY <2>1, <2>2, <2>3, BeginCore
<1>10. ASSUME NEW c \in {"run", "sleep"}, NEW tmo \in {"finite", "none"}, Serve(c, tmo)
       PROVE  Core'
  <2>1. /\ CanCall(c) /\ stack' = Append(stack, NewFrame(c, {}, FALSE, tmo))
        /\ UNCHANGED <<state, linked, alive, workers, queue, istate, iqueue, ipc, icallback, sent, received>>
    BY <1>10 DEF Serve, outVars, inVars
  <2>2. c \in WaitCalls /\ tmo \in Timeouts /\ {} \in SUBSET Worker /\ c # "preload"
    BY DEF WaitCalls, Timeouts
  <2> QED BY <2>1, <2>2, BeginCore
<1>11. ASSUME NEW w \in Worker, Preload(w)
       PROVE  Core'
  <2>1. /\ CanCall("preload")
        /\ \/ UNCHANGED stack
           \/ state[w] = BEGIN /\ stack' = Append(stack, NewFrame("preload", {w}, FALSE, "none"))
        /\ UNCHANGED <<state, linked, alive, workers, queue, istate, iqueue, ipc, icallback, sent, received>>
    BY <1>11 DEF Preload, outVars, inVars
  <2>2. "none" \in Timeouts /\ {w} \in SUBSET Worker
    BY DEF Timeouts
  <2>3. CASE UNCHANGED stack
    BY <2>1, <2>3, Quiet DEF coreVars
  <2>4. CASE state[w] = BEGIN /\ stack' = Append(stack, NewFrame("preload", {w}, FALSE, "none"))
    BY <2>1, <2>2, <2>4, BeginCore
  <2> QED BY <2>1, <2>3, <2>4
<1>12. ASSUME NEW w \in Worker, PreloadPost(w)
       PROVE  Core'
  BY <1>12, PreloadPostCore
<1>13. ASSUME NEW w \in Worker, NEW throws \in BOOLEAN, PreloadReturn(w, throws)
       PROVE  Core'
  BY <1>13, PreloadReturnCore
<1>14. ASSUME Catch
       PROVE  Core'
  <2>1. UNCHANGED coreVars
    BY <1>14 DEF Catch, outVars, inVars, coreVars
  <2> QED BY <2>1, Quiet
<1>15. ASSUME NEW handler \in BOOLEAN, Dispatch(handler)
       PROVE  Core'
  BY <1>15, DispatchCore
<1>16. ASSUME NEW throws \in BOOLEAN, CallbackReturn(throws)
       PROVE  Core'
  BY <1>16, CallbackReturnCore
<1>17. ASSUME NEW timesOut \in BOOLEAN, LoopTest(timesOut)
       PROVE  Core'
  BY <1>17, LoopTestCore
<1>18. ASSUME DestroyVM
       PROVE  Core'
  BY <1>18, DestroyCore
<1>19. ASSUME NEW w \in Worker, InsideMain(w)
       PROVE  Core'
  BY <1>19, InsideMainCore
<1>20. ASSUME NEW w \in Worker, InsidePost(w)
       PROVE  Core'
  BY <1>20, InsidePostCore
<1>21. ASSUME NEW w \in Worker, InsideExit(w) \/ InsideTerminate(w)
       PROVE  Core'
  <2>1. UNCHANGED coreVars
    BY <1>21 DEF InsideExit, InsideTerminate, outVars, ejsVars, histVars, coreVars
  <2> QED BY <2>1, Quiet
<1>22. ASSUME NEW w \in Worker, NEW c \in WaitPoints, InsideWait(c, w)
       PROVE  Core'
  <2>1. /\ UNCHANGED <<state, linked, alive, workers, stack, queue, istate, iqueue, icallback, sent, received>>
        /\ ~icallback[w] /\ ipc[w] = "script" /\ ipc' = [ipc EXCEPT ![w] = c]
    BY <1>22 DEF InsideWait, CanCallInside, InsideScript, outVars, ejsVars, histVars
  <2>2. ipc'[w] = c /\ \A v \in Worker : v # w => ipc'[v] = ipc[v]
    BY <2>1 DEF TypeOK, InTypeOK
  <2> QED BY <2>1, <2>2, InsideGoesOn
<1>23. ASSUME NEW w \in Worker, InsideThrow(w) \/ InsideCatch(w)
       PROVE  Core'
  <2>1. UNCHANGED coreVars
    BY <1>23 DEF InsideThrow, InsideCatch, outVars, ejsVars, histVars, coreVars
  <2> QED BY <2>1, Quiet
<1>24. ASSUME NEW w \in Worker, NEW handler \in BOOLEAN, InsideDispatch(w, handler)
       PROVE  Core'
  BY <1>24, InsideDispatchCore
<1>25. ASSUME NEW w \in Worker, InsideCallbackReturn(w)
       PROVE  Core'
  <2>1. /\ UNCHANGED <<state, linked, alive, workers, stack, queue, istate, iqueue, ipc, sent, received>>
        /\ icallback' = [icallback EXCEPT ![w] = FALSE]
    BY <1>25 DEF InsideCallbackReturn, outVars, ejsVars, histVars
  <2>2. ~icallback'[w] /\ \A v \in Worker : v # w => icallback'[v] = icallback[v]
    BY <2>1 DEF TypeOK, InTypeOK
  <2> QED BY <2>1, <2>2, InsideGoesOn
<1>26. ASSUME NEW w \in Worker, NEW timesOut \in BOOLEAN, InsideLoopTest(w, timesOut)
       PROVE  Core'
  <2>1. /\ UNCHANGED <<state, linked, alive, workers, stack, queue, istate, iqueue, sent, received>>
        /\ UNCHANGED icallback /\ ~icallback[w] /\ ipc[w] \in WaitPoints
        /\ ipc' = [ipc EXCEPT ![w] = "script"] \/ UNCHANGED ipc
    BY <1>26 DEF InsideLoopTest, outVars, ejsVars, histVars, TypeOK, InTypeOK
  <2>2. ipc'[w] \in {"script"} \cup WaitPoints /\ \A v \in Worker : v # w => ipc'[v] = ipc[v]
    BY <2>1 DEF TypeOK, InTypeOK
  <2> QED BY <2>1, <2>2, InsideGoesOn
<1>27. ASSUME NEW w \in Worker, InsideFinish(w)
       PROVE  Core'
  <2>1. /\ UNCHANGED <<state, linked, alive, workers, stack, queue, istate, iqueue, icallback, sent, received>>
        /\ ~icallback[w] /\ ipc[w] = "script" /\ ipc' = [ipc EXCEPT ![w] = "ended"]
    BY <1>27 DEF InsideFinish, outVars, ejsVars, histVars
  <2>2. ipc'[w] = "ended" /\ \A v \in Worker : v # w => ipc'[v] = ipc[v]
    BY <2>1 DEF TypeOK, InTypeOK
  <2> QED BY <2>1, <2>2, InsideGoesOn
<1>28. ASSUME NEW w \in Worker, InsideReport(w)
       PROVE  Core'
  BY <1>28, InsideReportCore
<1>29. ASSUME NEW w \in Worker, InsideClose(w)
       PROVE  Core'
  BY <1>29, InsideCloseCore
<1>30. ASSUME NEW w \in Worker, InsidePostClose(w)
       PROVE  Core'
  BY <1>30, InsidePostCloseCore
<1> QED
  BY <1>0, <1>1, <1>2, <1>3, <1>4, <1>5, <1>6, <1>7, <1>8, <1>9, <1>10, <1>11, <1>12, <1>13, <1>14, <1>15,
     <1>16, <1>17, <1>18, <1>19, <1>20, <1>21, <1>22, <1>23, <1>24, <1>25, <1>26, <1>27, <1>28, <1>29, <1>30
  DEF Next, MainThread, InsideThread

\* The invariant holds throughout.
LEMMA Invariance == Spec => [](TypeOK /\ Core)
<1>1. Init => TypeOK /\ Core
  BY InitType, InitCore
<1>2. TypeOK /\ Core /\ [Next]_vars => (TypeOK /\ Core)'
  BY NextType, NextCore
<1> QED BY <1>1, <1>2, PTL DEF Spec

\* An event waiting for the outside interpreter finds the worker it is about
\* linked and not complete, however the callbacks before it nest.
THEOREM EventsAreLinked == Spec => []QueuedEventsAreLinked
<1>1. TypeOK /\ Core => QueuedEventsAreLinked
  <2> SUFFICES ASSUME TypeOK, Core, NEW i \in DOMAIN queue
               PROVE  linked[queue[i].w] /\ Live(queue[i].w)
    BY DEF QueuedEventsAreLinked
  <2>1. queue[i].w \in Worker
    BY EventFields DEF TypeOK, EjsTypeOK
  <2>2. Live(queue[i].w)
    BY DEF Core, EventsHold
  <2> QED BY <2>1, <2>2 DEF Core, ListAndLinksAgree
<1> QED BY <1>1, Invariance, PTL

\* The event for onclose is the last of its worker in the queue.
THEOREM CloseComesLast == Spec => []CloseIsLast
<1>1. Core => CloseIsLast
  BY DEF Core, InOrder, CloseIsLast
<1> QED BY <1>1, Invariance, PTL

\* No message is dropped with the worker that posted it.
THEOREM NoMessageIsDropped == Spec => []CompleteHasAllMessages
<1>1. Core => CompleteHasAllMessages
  BY DEF Core
<1> QED BY <1>1, Invariance, PTL

\* The list of workers and the links of the pairs agree with the states.
THEOREM LinksAgree == Spec => []ListAndLinksAgree
<1>1. Core => ListAndLinksAgree
  BY DEF Core
<1> QED BY <1>1, Invariance, PTL

-----------------------------------------------------------------------------
(***************************************************************************)
(* What a script sees of a step: the state of the worker and the counts of  *)
(* its messages.                                                            *)
(***************************************************************************)
seen == <<alive, state, sent, received>>

Seen ==
    \/ UNCHANGED seen
    \/ alive /\ ~alive' /\ UNCHANGED <<state, sent, received>>
    \/ \E w \in Worker :
          \/ /\ alive /\ state[w] = Absent
             /\ \E to \in {BEGIN, STARTED} : state' = [state EXCEPT ![w] = to]
             /\ UNCHANGED <<alive, sent, received>>
          \/ /\ alive /\ state[w] = BEGIN /\ state' = [state EXCEPT ![w] = STARTED]
             /\ UNCHANGED <<alive, sent, received>>
          \/ /\ alive /\ state[w] \in {BEGIN, STARTED} /\ sent' = [sent EXCEPT ![w] = @ + 1]
             /\ UNCHANGED <<alive, state, received>>
          \/ /\ alive /\ received[w] < sent[w] /\ received' = [received EXCEPT ![w] = @ + 1]
             /\ UNCHANGED <<alive, state, sent>>
          \/ /\ state[w] = STARTED /\ state' = [state EXCEPT ![w] = CLOSED]
             /\ UNCHANGED <<alive, sent, received>>
          \/ /\ alive /\ state[w] = CLOSED /\ received[w] = sent[w]
             /\ state' = [state EXCEPT ![w] = COMPLETE]
             /\ UNCHANGED <<alive, sent, received>>

LEMMA SeenMade ==
    ASSUME NEW w \in Worker, NEW s \in Script \cup {NoScript}, alive, initWorker(w, s)
    PROVE  Seen
<1>1. /\ state[w] = Absent /\ UNCHANGED <<alive, sent, received>>
      /\ \E to \in {BEGIN, STARTED} : state' = [state EXCEPT ![w] = to]
  BY DEF initWorker
<1> QED BY <1>1 DEF Seen

LEMMA SeenStarted ==
    ASSUME NEW w \in Worker, NEW s \in Script, NEW tmo, alive, startWorker(w, s, tmo)
    PROVE  Seen
<1>1. /\ UNCHANGED <<alive, sent, received>>
      /\ \/ UNCHANGED state
         \/ state[w] = BEGIN /\ state' = [state EXCEPT ![w] = STARTED]
  BY DEF startWorker
<1> QED BY <1>1 DEF Seen, seen

LEMMA SeenDispatched ==
    ASSUME TypeOK, TypeOK', Core, NEW handler \in BOOLEAN, Dispatch(handler)
    PROVE  Seen
<1> DEFINE ev == Head(queue)
           w == queue[1].w
<1>1. /\ queue \in Seq(Event) /\ sent \in [Worker -> Nat] /\ received \in [Worker -> Nat]
      /\ received' \in [Worker -> Nat]
  BY DEF TypeOK, EjsTypeOK, HistTypeOK
<1>2. /\ alive /\ queue # <<>> /\ queue' = Tail(queue)
      /\ received' = [received EXCEPT ![ev.w] = IF ev.k = "message" THEN ev.n ELSE @]
      /\ UNCHANGED state \/ FinishMessage(ev)
      /\ UNCHANGED <<alive, sent>>
  BY DEF Dispatch
<1>3. 1 \in DOMAIN queue /\ Head(queue) = queue[1]
  BY <1>1, <1>2, Unqueued
<1>4. w \in Worker
  BY <1>1, <1>3, EventFields
<1>5. /\ queue[1].k = "message" => received'[w] = queue[1].n
      /\ queue[1].k # "message" => received'[w] = received[w]
      /\ \A v \in Worker : v # w => received'[v] = received[v]
  BY <1>1, <1>2, <1>3, <1>4
<1>6. UNCHANGED state \/ (queue[1].k = "close" /\ state' = [state EXCEPT ![w] = COMPLETE])
  BY <1>2, <1>3 DEF FinishMessage
<1>7. queue[1].k = "message" => queue[1].n <= sent[w] /\ received[w] < queue[1].n
  BY <1>3 DEF Core, EventsHold
<1>8. queue[1].k = "close" => state[w] = CLOSED
  BY <1>3 DEF Core, EventsHold
<1> HIDE DEF ev, w
<1>9. /\ queue[1].k = "message" => received'[w] = received[w] + 1
      /\ queue[1].k = "close" => received[w] = sent[w]
  BY <1>2, <1>5, MessagesTaken DEF w, Core
<1>10. CASE queue[1].k = "message"
  <2>1. received' = [received EXCEPT ![w] = @ + 1]
    BY <1>1, <1>4, <1>5, <1>9, <1>10
  <2>2. received[w] < sent[w] /\ UNCHANGED <<alive, state, sent>>
    BY <1>1, <1>2, <1>4, <1>5, <1>6, <1>7, <1>10
  <2> QED BY <1>2, <1>4, <2>1, <2>2 DEF Seen
<1>11. CASE queue[1].k # "message"
  <2>1. received' = received
    BY <1>1, <1>4, <1>5, <1>11
  <2> QED BY <1>2, <1>4, <1>6, <1>8, <1>9, <2>1 DEF Seen, seen
<1> QED BY <1>10, <1>11

LEMMA SeenCallbackReturned ==
    ASSUME TypeOK, TypeOK', Core, NEW throws \in BOOLEAN, CallbackReturn(throws)
    PROVE  Seen
<1>1. stack \in Seq(Frame)
  BY DEF TypeOK, EjsTypeOK
<1>2. Top.k \in Callbacks /\ UNCHANGED <<alive, sent, received>> /\ alive
  BY DEF CallbackReturn
<1>3. stack # <<>> /\ Len(stack) \in DOMAIN stack /\ Top = stack[Len(stack)]
  BY <1>1, <1>2, TopAndBelow DEF Callbacks
<1>4. PICK w \in Worker : Top.on = {w}
  BY <1>2, <1>3 DEF Core, CallsHold
<1>5. UNCHANGED state \/ (Top.k = "close" /\ state' = [state EXCEPT ![w] = COMPLETE])
  BY <1>4 DEF CallbackReturn, FinishMessage
<1>6. Top.k = "close" => state[w] = CLOSED /\ received[w] = sent[w]
  BY <1>3, <1>4 DEF Core, CallsHold, ClosedUp
<1> QED BY <1>2, <1>5, <1>6 DEF Seen, seen

\* A message is posted while its worker is not closed.
LEMMA SeenPosted ==
    ASSUME TypeOK, Core, NEW w \in Worker, PreloadPost(w) \/ InsidePost(w)
    PROVE  Seen
<1> USE DEF Absent, BEGIN, STARTED, CLOSED, COMPLETE
<1>1. CASE PreloadPost(w)
  <2>1. alive /\ state[w] = BEGIN
    BY <1>1, PreloadedWorker DEF PreloadPost
  <2>2. sent' = [sent EXCEPT ![w] = @ + 1] /\ UNCHANGED <<alive, state, received>>
    BY <1>1 DEF PreloadPost, outVars
  <2> QED BY <2>1, <2>2 DEF Seen
<1>2. CASE InsidePost(w)
  <2>1. /\ UNCHANGED <<alive, state, received>>
        /\ \/ UNCHANGED sent
           \/ istate[w] < CLOSED /\ alive /\ sent' = [sent EXCEPT ![w] = @ + 1]
    BY <1>2 DEF InsidePost, outVars
  <2>2. state[w] # Absent /\ state[w] \in 0..4
    BY <1>2, InsideRuns DEF InsidePost, CanCallInside, TypeOK, OutTypeOK
  <2>3. istate[w] < CLOSED => state[w] \in {BEGIN, STARTED}
    BY <2>2 DEF Core, ThreadsAgree
  <2> QED BY <2>1, <2>3 DEF Seen, seen
<1> QED BY <1>1, <1>2

\* Every step, as a script sees it.
LEMMA SeenStep == TypeOK /\ TypeOK' /\ Core /\ [Next]_vars => Seen
<1> SUFFICES ASSUME TypeOK, TypeOK', Core, [Next]_vars PROVE Seen
  OBVIOUS
<1>0. CASE UNCHANGED vars
  BY <1>0 DEF vars, outVars, ejsVars, inVars, histVars, Seen, seen
<1>1. ASSUME NEW w \in Worker, NEW s \in Script \cup {NoScript}, Construct(w, s)
      PROVE  Seen
  BY <1>1, SeenMade DEF Construct, CanCall
<1>2. ASSUME NEW w \in Worker, Fork(w)
      PROVE  Seen
  BY <1>2, SeenMade DEF Fork, CanCall
<1>3. ASSUME NEW b \in Worker, NEW w \in Worker, Clone(b, w)
      PROVE  Seen
  <2>1. alive /\ (initWorker(w, NoScript) \/ UNCHANGED seen)
    BY <1>3 DEF Clone, CanCall, outVars, ejsVars, seen
  <2> QED BY <2>1, SeenMade DEF Seen
<1>4. ASSUME NEW w \in Worker, NEW s \in Script, NEW tmo \in {"zero", "finite", "none"},
             Load(w, s, tmo) \/ Eval(w, s, tmo)
      PROVE  Seen
  <2>1. alive /\ startWorker(w, s, tmo)
    BY <1>4 DEF Load, Eval, CanCall
  <2> QED BY <2>1, SeenStarted
<1>5. ASSUME NEW w \in Worker, PostMessage(w) \/ Terminate(w)
      PROVE  Seen
  BY <1>5 DEF PostMessage, Terminate, outVars, Seen, seen
<1>6. ASSUME NEW on \in SUBSET Worker, NEW all \in BOOLEAN, NEW tmo \in Timeouts, Join(on, all, tmo)
      PROVE  Seen
  BY <1>6 DEF Join, outVars, Seen, seen
<1>7. ASSUME NEW w \in Worker, NEW tmo, WaitForMessage(w, tmo)
      PROVE  Seen
  BY <1>7 DEF WaitForMessage, Seen, seen
<1>8. ASSUME NEW c, NEW tmo, Serve(c, tmo)
      PROVE  Seen
  BY <1>8 DEF Serve, outVars, Seen, seen
<1>9. ASSUME NEW w \in Worker, NEW throws, Preload(w) \/ PreloadReturn(w, throws)
      PROVE  Seen
  BY <1>9 DEF Preload, PreloadReturn, outVars, histVars, Seen, seen
<1>10. ASSUME NEW w \in Worker, PreloadPost(w) \/ InsidePost(w)
       PROVE  Seen
  BY <1>10, SeenPosted
<1>11. ASSUME Catch
       PROVE  Seen
  BY <1>11 DEF Catch, outVars, Seen, seen
<1>12. ASSUME NEW handler \in BOOLEAN, Dispatch(handler)
       PROVE  Seen
  BY <1>12, SeenDispatched
<1>13. ASSUME NEW throws \in BOOLEAN, CallbackReturn(throws)
       PROVE  Seen
  BY <1>13, SeenCallbackReturned
<1>14. ASSUME NEW timesOut, LoopTest(timesOut)
       PROVE  Seen
  BY <1>14 DEF LoopTest, Seen, seen
<1>15. ASSUME DestroyVM
       PROVE  Seen
  BY <1>15 DEF DestroyVM, outVars, Seen
<1>16. ASSUME NEW w \in Worker, InsideMain(w)
       PROVE  Seen
  BY <1>16 DEF InsideMain, outVars, Seen, seen
<1>17. ASSUME NEW w \in Worker, InsideExit(w) \/ InsideTerminate(w) \/ InsideThrow(w) \/ InsideCatch(w) \/ InsideCallbackReturn(w)
                                 \/ InsideFinish(w)
       PROVE  Seen
  BY <1>17 DEF InsideExit, InsideTerminate, InsideThrow, InsideCatch, InsideCallbackReturn, InsideFinish,
               outVars, ejsVars, histVars, Seen, seen
<1>18. ASSUME NEW w \in Worker, NEW c, InsideWait(c, w) \/ InsideDispatch(w, c) \/ InsideLoopTest(w, c)
       PROVE  Seen
  BY <1>18 DEF InsideWait, InsideDispatch, InsideLoopTest, outVars, ejsVars, histVars, Seen, seen
<1>19. ASSUME NEW w \in Worker, InsideReport(w) \/ InsidePostClose(w)
       PROVE  Seen
  BY <1>19 DEF InsideReport, InsidePostClose, outVars, histVars, Seen, seen
<1>20. ASSUME NEW w \in Worker, InsideClose(w)
       PROVE  Seen
  <2>1. state[w] = STARTED
    BY <1>20 DEF InsideClose, Core, ThreadsAgree
  <2> QED BY <1>20, <2>1 DEF InsideClose, ejsVars, histVars, Seen
<1> QED
  BY <1>0, <1>1, <1>2, <1>3, <1>4, <1>5, <1>6, <1>7, <1>8, <1>9, <1>10, <1>11, <1>12, <1>13, <1>14, <1>15,
     <1>16, <1>17, <1>18, <1>19, <1>20
  DEF Next, MainThread, InsideThread

\* States go forward.
LEMMA Forward ==
    ASSUME TypeOK, Seen
    PROVE  \A w \in Worker : state'[w] >= state[w]
<1> USE DEF Absent, BEGIN, STARTED, CLOSED, COMPLETE
<1>1. state \in [Worker -> 0..4]
  BY DEF TypeOK, OutTypeOK
<1>2. CASE UNCHANGED state
  BY <1>1, <1>2
<1>3. ASSUME NEW v \in Worker, NEW to \in 0..4, to >= state[v], state' = [state EXCEPT ![v] = to]
      PROVE  \A w \in Worker : state'[w] >= state[w]
  BY <1>1, <1>3
<1>4. \/ UNCHANGED state
      \/ \E v \in Worker, to \in 0..4 : to >= state[v] /\ state' = [state EXCEPT ![v] = to]
  BY <1>1 DEF Seen, seen
<1> QED BY <1>2, <1>3, <1>4

\* The state of a worker never goes back, although its own thread and the main
\* thread write it.
THEOREM StatesGoForward == Spec => StateNeverGoesBack
<1>1. TypeOK /\ Core /\ TypeOK' /\ Core' /\ [Next]_vars => [\A w \in Worker : state'[w] >= state[w]]_vars
  BY SeenStep, Forward
<1> QED BY <1>1, Invariance, PTL DEF Spec, StateNeverGoesBack

\* A worker's phase follows its state.
LEMMA PhaseOfState ==
    /\ PhaseOf(Absent) = "absent" /\ PhaseOf(BEGIN) = "made" /\ PhaseOf(STARTED) = "started"
    /\ PhaseOf(CLOSED) = "closed" /\ PhaseOf(COMPLETE) = "complete"
BY DEF PhaseOf, Absent, BEGIN, STARTED, CLOSED, COMPLETE

\* A step a script sees is a step of the contract.
LEMMA ContractStep == TypeOK /\ Seen => [Contract!Next]_Contract!vars
<1> SUFFICES ASSUME TypeOK, Seen PROVE [Contract!Next]_Contract!vars
  OBVIOUS
<1> DEFINE phase == [w \in Worker |-> PhaseOf(state[w])]
<1>1. state \in [Worker -> 0..4]
  BY DEF TypeOK, OutTypeOK
<1>2. \A w \in Worker : phase[w] = PhaseOf(state[w])
  OBVIOUS
<1>3. ASSUME NEW w \in Worker, NEW to, state' = [state EXCEPT ![w] = to]
      PROVE  phase' = [phase EXCEPT ![w] = PhaseOf(to)]
  BY <1>1, <1>3
<1>4. UNCHANGED state => UNCHANGED phase
  OBVIOUS
<1>5. CASE UNCHANGED seen
  BY <1>4, <1>5 DEF seen, Contract!vars
<1>6. CASE alive /\ ~alive' /\ UNCHANGED <<state, sent, received>>
  <2>1. Contract!Destroy
    BY <1>4, <1>6 DEF Contract!Destroy
  <2> QED BY <2>1 DEF Contract!Next
<1>7. ASSUME NEW w \in Worker,
             \/ /\ alive /\ state[w] = Absent
                /\ \E to \in {BEGIN, STARTED} : state' = [state EXCEPT ![w] = to]
                /\ UNCHANGED <<alive, sent, received>>
             \/ /\ alive /\ state[w] = BEGIN /\ state' = [state EXCEPT ![w] = STARTED]
                /\ UNCHANGED <<alive, sent, received>>
             \/ /\ state[w] = STARTED /\ state' = [state EXCEPT ![w] = CLOSED]
                /\ UNCHANGED <<alive, sent, received>>
             \/ /\ alive /\ state[w] = CLOSED /\ received[w] = sent[w]
                /\ state' = [state EXCEPT ![w] = COMPLETE]
                /\ UNCHANGED <<alive, sent, received>>
      PROVE  Contract!Next
  <2> HIDE DEF phase
  <2>1. CASE alive /\ state[w] = Absent /\ UNCHANGED <<alive, sent, received>>
             /\ \E to \in {BEGIN, STARTED} : state' = [state EXCEPT ![w] = to]
    <3>1. PICK to \in {BEGIN, STARTED} : state' = [state EXCEPT ![w] = to]
      BY <2>1
    <3>2. phase' = [phase EXCEPT ![w] = PhaseOf(to)] /\ PhaseOf(to) \in {"made", "started"}
      BY <1>3, <3>1, PhaseOfState
    <3>3. phase[w] = "absent"
      BY <1>2, <2>1, PhaseOfState
    <3>4. Contract!Make(w)
      BY <2>1, <3>2, <3>3 DEF Contract!Make, phase
    <3> QED BY <3>4 DEF Contract!Next
  <2>2. CASE alive /\ state[w] = BEGIN /\ state' = [state EXCEPT ![w] = STARTED]
             /\ UNCHANGED <<alive, sent, received>>
    <3>1. phase' = [phase EXCEPT ![w] = "started"]
      <4>1. phase' = [phase EXCEPT ![w] = PhaseOf(STARTED)]
        BY <1>3, <2>2
      <4> QED BY <4>1, PhaseOfState
    <3>2. phase[w] = "made"
      BY <1>2, <2>2, PhaseOfState
    <3>3. Contract!Start(w)
      BY <2>2, <3>1, <3>2 DEF Contract!Start, phase
    <3> QED BY <3>3 DEF Contract!Next
  <2>3. CASE state[w] = STARTED /\ state' = [state EXCEPT ![w] = CLOSED]
             /\ UNCHANGED <<alive, sent, received>>
    <3>1. phase' = [phase EXCEPT ![w] = "closed"]
      <4>1. phase' = [phase EXCEPT ![w] = PhaseOf(CLOSED)]
        BY <1>3, <2>3
      <4> QED BY <4>1, PhaseOfState
    <3>2. phase[w] = "started"
      BY <1>2, <2>3, PhaseOfState
    <3>3. Contract!Close(w)
      BY <2>3, <3>1, <3>2 DEF Contract!Close, phase
    <3> QED BY <3>3 DEF Contract!Next
  <2>4. CASE alive /\ state[w] = CLOSED /\ received[w] = sent[w]
             /\ state' = [state EXCEPT ![w] = COMPLETE] /\ UNCHANGED <<alive, sent, received>>
    <3>1. phase' = [phase EXCEPT ![w] = "complete"]
      <4>1. phase' = [phase EXCEPT ![w] = PhaseOf(COMPLETE)]
        BY <1>3, <2>4
      <4> QED BY <4>1, PhaseOfState
    <3>2. phase[w] = "closed"
      BY <1>2, <2>4, PhaseOfState
    <3>3. Contract!Complete(w)
      BY <2>4, <3>1, <3>2 DEF Contract!Complete, phase
    <3> QED BY <3>3 DEF Contract!Next
  <2> QED BY <1>7, <2>1, <2>2, <2>3, <2>4
<1>8. ASSUME NEW w \in Worker, alive, state[w] \in {BEGIN, STARTED}, sent' = [sent EXCEPT ![w] = @ + 1],
             UNCHANGED <<alive, state, received>>
      PROVE  Contract!Next
  <2>1. phase[w] \in {"made", "started"}
    BY <1>2, <1>8, PhaseOfState
  <2>2. Contract!Post(w)
    BY <1>4, <1>8, <2>1 DEF Contract!Post
  <2> QED BY <2>2 DEF Contract!Next
<1>9. ASSUME NEW w \in Worker, alive, received[w] < sent[w], received' = [received EXCEPT ![w] = @ + 1],
             UNCHANGED <<alive, state, sent>>
      PROVE  Contract!Next
  <2>1. Contract!Take(w)
    BY <1>4, <1>9 DEF Contract!Take
  <2> QED BY <2>1 DEF Contract!Next
<1> HIDE DEF phase
<1> QED BY <1>5, <1>6, <1>7, <1>8, <1>9 DEF Seen

\* The workers implement the contract their scripts rely on.
THEOREM WorkersKeepContract == Spec => KeepsContract
<1>1. Init => Contract!Init
  BY PhaseOfState DEF Init, Contract!Init
<1>2. TypeOK /\ Core /\ TypeOK' /\ Core' /\ [Next]_vars => [Contract!Next]_Contract!vars
  BY SeenStep, ContractStep
<1> QED BY <1>1, <1>2, Invariance, PTL DEF Spec, KeepsContract, Contract!Spec

-----------------------------------------------------------------------------
(***************************************************************************)
(* What a join tells its script.                                            *)
(***************************************************************************)

\* A join that waits is about workers that have been made; it has set the flag
\* unless a join of a callback has reset it.
Joining(s) ==
    \A i \in DOMAIN s :
        s[i].k \in {"join", "start"} =>
            /\ \A w \in s[i].on : state[w] # Absent
            /\ ~s[i].nested => joining

JoinsHold == Joining(stack) /\ JoinMeansComplete /\ NoTimeoutNoFailure

\* What a call has told its script remains true.
LEMMA OutcomeStays ==
    ASSUME TypeOK, Core', JoinMeansComplete, NoTimeoutNoFailure,
           \A w \in Worker : state'[w] >= state[w], state' \in [Worker -> 0..4],
           returned' = returned \/ returned' = NoReturn
    PROVE  JoinMeansComplete' /\ NoTimeoutNoFailure'
<1>1. CASE returned' = NoReturn
  <2>1. NoReturn.frame.k \notin {"join", "start"}
    BY DEF NoReturn, NoCall, NewFrame
  <2> QED BY <1>1, <2>1 DEF JoinMeansComplete, NoTimeoutNoFailure
<1>2. CASE returned' = returned
  <2>1. NoTimeoutNoFailure'
    BY <1>2 DEF NoTimeoutNoFailure
  <2>2. returned.frame.on \subseteq Worker
    BY DEF TypeOK, HistTypeOK, Outcome, Frame
  <2>3. ASSUME NEW w \in Worker, state[w] = COMPLETE
        PROVE  state'[w] = COMPLETE /\ received'[w] = sent'[w]
    <3>1. state'[w] \in 0..4 /\ state'[w] >= 4
      BY <2>3 DEF COMPLETE
    <3>2. state'[w] = COMPLETE
      BY <3>1 DEF COMPLETE
    <3> QED BY <3>2 DEF Core, CompleteHasAllMessages
  <2>4. JoinMeansComplete'
    BY <1>2, <2>2, <2>3 DEF JoinMeansComplete
  <2> QED BY <2>1, <2>4
<1> QED BY <1>1, <1>2

\* Calls other than joins do not disturb the joins below them.
LEMMA JoinsKept ==
    ASSUME TypeOK, TypeOK', Core', JoinsHold, \A w \in Worker : state'[w] >= state[w],
           returned' = returned \/ returned' = NoReturn, joining' = joining,
           \A i \in DOMAIN stack' :
              stack'[i].k \in {"join", "start"} =>
                 /\ i \in DOMAIN stack
                 /\ stack'[i].k = stack[i].k /\ stack'[i].on = stack[i].on /\ stack'[i].nested = stack[i].nested
    PROVE  JoinsHold'
<1>1. state \in [Worker -> 0..4] /\ state' \in [Worker -> 0..4] /\ stack \in Seq(Frame)
  BY DEF TypeOK, OutTypeOK, EjsTypeOK
<1>2. JoinMeansComplete' /\ NoTimeoutNoFailure'
  BY <1>1, OutcomeStays DEF JoinsHold
<1>3. \A w \in Worker : state[w] # Absent => state'[w] # Absent
  BY <1>1 DEF Absent
<1>4. \A i \in DOMAIN stack : stack[i].on \subseteq Worker
  BY <1>1, CallWorkers
<1>5. Joining(stack)'
  BY <1>3, <1>4 DEF JoinsHold, Joining
<1> QED BY <1>2, <1>5 DEF JoinsHold

\* A call that begins is pushed on the joins.
LEMMA JoinsUnder ==
    ASSUME TypeOK, NEW f \in Frame, f.k \notin {"join", "start"}, NEW s \in Seq(Frame), Len(s) = Len(stack),
           \A i \in DOMAIN stack :
              s[i].k = stack[i].k /\ s[i].on = stack[i].on /\ s[i].nested = stack[i].nested,
           stack' = s \/ stack' = Append(s, f)
    PROVE  \A i \in DOMAIN stack' :
              stack'[i].k \in {"join", "start"} =>
                 /\ i \in DOMAIN stack
                 /\ stack'[i].k = stack[i].k /\ stack'[i].on = stack[i].on /\ stack'[i].nested = stack[i].nested
<1> DEFINE N == Len(stack)
<1>1. /\ N \in Nat /\ DOMAIN stack = 1 .. N /\ DOMAIN s = 1 .. N
      /\ DOMAIN Append(s, f) = 1 .. (N + 1)
      /\ \A i \in 1 .. N : Append(s, f)[i] = s[i]
      /\ Append(s, f)[N + 1] = f
  BY AppendProperties, LenProperties DEF TypeOK, EjsTypeOK
<1> HIDE DEF N
<1>2. CASE stack' = s
  BY <1>1, <1>2
<1>3. CASE stack' = Append(s, f)
  <2>1. ASSUME NEW i \in DOMAIN stack', stack'[i].k \in {"join", "start"}
        PROVE  i \in 1 .. N
    <3>1. i # N + 1
      BY <1>1, <1>3, <2>1
    <3> QED BY <1>1, <1>3, <2>1, <3>1
  <2> QED BY <1>1, <1>3, <2>1
<1> QED BY <1>2, <1>3

\* Every join below the one that returns is marked.
LEMMA ReturnMarks ==
    ASSUME stack \in Seq(Frame), NEW f, f.k \in {"join", "start"}, NEW ok, NEW below \in Seq(Frame),
           Return(f, ok, below)
    PROVE  /\ DOMAIN stack' = DOMAIN below
           /\ \A i \in DOMAIN stack' :
                 stack'[i].nested /\ stack'[i].k = below[i].k /\ stack'[i].on = below[i].on
<1>1. /\ Nested(below) \in Seq(Frame)
      /\ DOMAIN Nested(below) = DOMAIN below
      /\ \A i \in DOMAIN below : Nested(below)[i] = [below[i] EXCEPT !.nested = TRUE]
  BY NestedType
<1>2. \A i \in DOMAIN below : below[i] \in Frame
  BY ElementOfSeq, LenProperties
<1>3. \A i \in DOMAIN below : /\ Nested(below)[i].nested
                              /\ Nested(below)[i].k = below[i].k /\ Nested(below)[i].on = below[i].on
  BY <1>1, <1>2 DEF Frame
<1>4. stack' = Nested(below)
  BY DEF Return
<1> QED BY <1>1, <1>3, <1>4

\* The workers of a join that finds them all complete have been taken in full.
LEMMA ReapedAreComplete ==
    ASSUME TypeOK, Core, alive, NEW f \in Frame, \A w \in f.on : state[w] # Absent, Reaped(f.on, f.all)
    PROVE  \A w \in f.on : state[w] = COMPLETE /\ received[w] = sent[w]
<1> USE DEF Absent, BEGIN, STARTED, CLOSED, COMPLETE
<1>1. state \in [Worker -> 0..4] /\ f.on \subseteq Worker
  BY DEF TypeOK, OutTypeOK, Frame
<1>2. workers = {w \in Worker : Live(w)}
  BY DEF Core, ListAndLinksAgree
<1>3. ASSUME NEW w \in f.on PROVE state[w] = COMPLETE
  <2>1. CASE f.all
    <3>1. w \notin workers
      <4>1. SUFFICES ASSUME w \in workers PROVE FALSE
        OBVIOUS
      <4>2. Live(w) /\ state[w] >= COMPLETE
        BY <1>2, <2>1, <4>1 DEF Reaped
      <4> QED BY <4>2 DEF Live
    <3>2. ~Live(w)
      BY <1>1, <1>2, <1>3, <3>1
    <3> QED BY <1>1, <1>3, <3>2 DEF Live
  <2>2. CASE ~f.all
    <3>1. state[w] >= COMPLETE
      BY <1>3, <2>2 DEF Reaped
    <3> QED BY <1>1, <1>3, <3>1
  <2> QED BY <2>1, <2>2
<1> QED BY <1>1, <1>3 DEF Core, CompleteHasAllMessages

\* A join that returns marks the others, and tells its script what it has found.
LEMMA JoinReturned ==
    ASSUME TypeOK, JoinsHold, NEW f \in Frame, f.k \in {"join", "start"}, NEW ok,
           NEW below \in Seq(Frame), Return(f, ok, below), state' = state, received' = received, sent' = sent,
           \A i \in DOMAIN below : i \in DOMAIN stack /\ below[i] = stack[i],
           ok /\ ~exception /\ ~f.nested => \A w \in f.on : state[w] = COMPLETE /\ received[w] = sent[w],
           ~ok => f.tmo # "none"
    PROVE  JoinsHold'
<1>1. stack \in Seq(Frame)
  BY DEF TypeOK, EjsTypeOK
<1>2. /\ DOMAIN stack' = DOMAIN below
      /\ \A i \in DOMAIN stack' : stack'[i].nested /\ stack'[i].k = below[i].k /\ stack'[i].on = below[i].on
  BY <1>1, ReturnMarks
<1>3. Joining(stack)'
  BY <1>2 DEF JoinsHold, Joining
<1>4. returned' = [frame |-> f, ok |-> ok, exc |-> exception]
  BY DEF Return
<1>5. JoinMeansComplete' /\ NoTimeoutNoFailure'
  BY <1>4 DEF JoinMeansComplete, NoTimeoutNoFailure
<1> QED BY <1>3, <1>5 DEF JoinsHold

\* A join that waits sets the flag.
LEMMA JoinBegun ==
    ASSUME TypeOK, TypeOK', Core', JoinsHold, NEW f \in Frame, f.k \in {"join", "start"},
           stack' = Append(stack, f), joining' = TRUE, returned' = NoReturn,
           \A w \in Worker : state'[w] >= state[w],
           \A w \in f.on : state[w] # Absent
    PROVE  JoinsHold'
<1> DEFINE N == Len(stack)
<1>1. state \in [Worker -> 0..4] /\ state' \in [Worker -> 0..4] /\ stack \in Seq(Frame)
  BY DEF TypeOK, OutTypeOK, EjsTypeOK
<1>2. JoinMeansComplete' /\ NoTimeoutNoFailure'
  BY <1>1, OutcomeStays DEF JoinsHold
<1>3. \A w \in Worker : state[w] # Absent => state'[w] # Absent
  BY <1>1 DEF Absent
<1>4. /\ N \in Nat /\ DOMAIN stack = 1 .. N /\ DOMAIN stack' = 1 .. (N + 1)
      /\ \A i \in 1 .. N : stack'[i] = stack[i]
      /\ stack'[N + 1] = f
  BY <1>1, AppendProperties, LenProperties
<1>5. (\A i \in DOMAIN stack : stack[i].on \subseteq Worker) /\ f.on \subseteq Worker
  BY <1>1, CallWorkers DEF Frame
<1> HIDE DEF N
<1>6. ASSUME NEW i \in DOMAIN stack', stack'[i].k \in {"join", "start"}, NEW w \in stack'[i].on
      PROVE  state'[w] # Absent
  <2>1. CASE i \in 1 .. N
    BY <1>3, <1>4, <1>5, <1>6, <2>1 DEF JoinsHold, Joining
  <2>2. CASE i = N + 1
    BY <1>3, <1>4, <1>5, <1>6, <2>2
  <2> QED BY <1>4, <1>6, <2>1, <2>2
<1>7. Joining(stack)'
  BY <1>6 DEF Joining
<1> QED BY <1>2, <1>7 DEF JoinsHold

LEMMA JoinJoins ==
    ASSUME TypeOK, TypeOK', Core, Core', JoinsHold,
           NEW on \in SUBSET {w \in Worker : state[w] # Absent}, NEW all \in BOOLEAN, NEW tmo \in Timeouts,
           Join(on, all, tmo)
    PROVE  JoinsHold'
<1> DEFINE about == IF all THEN workers ELSE on
           f == NewFrame("join", about, all, tmo)
<1>1. stack \in Seq(Frame) /\ workers \subseteq Worker /\ state \in [Worker -> 0..4]
  BY DEF TypeOK, OutTypeOK, EjsTypeOK
<1>2. f \in Frame /\ f.k = "join" /\ f.on = about /\ f.all = all /\ about \subseteq Worker
  <2>1. about \in SUBSET Worker
    BY <1>1
  <2>2. f \in Frame
    BY <2>1, NewFrameType DEF WaitCalls
  <2> QED BY <2>1, <2>2 DEF NewFrame
<1>3. alive /\ state' = state /\ received' = received /\ sent' = sent
  BY DEF Join, CanCall, outVars
<1>4. \A w \in about : state[w] # Absent
  <2>1. workers = {w \in Worker : Live(w)}
    BY <1>3 DEF Core, ListAndLinksAgree
  <2> QED BY <2>1 DEF Live, Absent, BEGIN, STARTED, CLOSED
<1>5. \/ Reaped(on, all) /\ Return(f, TRUE, stack)
      \/ joining' = TRUE /\ stack' = Append(stack, f) /\ returned' = NoReturn
  BY DEF Join
<1>6. CASE Reaped(on, all) /\ Return(f, TRUE, stack)
  <2>1. Reaped(f.on, f.all)
    BY <1>2, <1>6 DEF Reaped
  <2> HIDE DEF f, about
  <2>2. \A w \in f.on : state[w] = COMPLETE /\ received[w] = sent[w]
    BY <1>2, <1>3, <1>4, <2>1, ReapedAreComplete
  <2> QED BY <1>1, <1>2, <1>3, <1>6, <2>2, JoinReturned
<1>7. CASE joining' = TRUE /\ stack' = Append(stack, f) /\ returned' = NoReturn
  <2> HIDE DEF f, about
  <2>1. \A w \in Worker : state'[w] >= state[w]
    BY <1>1, <1>3
  <2> QED BY <1>2, <1>4, <1>7, <2>1, JoinBegun
<1> QED BY <1>5, <1>6, <1>7

LEMMA startWorkerJoins ==
    ASSUME TypeOK, TypeOK', Core, Core', JoinsHold, \A w \in Worker : state'[w] >= state[w],
           NEW w \in Worker, NEW s \in Script, NEW tmo \in {"zero", "finite", "none"}, startWorker(w, s, tmo)
    PROVE  JoinsHold'
<1> DEFINE f == NewFrame("start", {w}, FALSE, tmo)
<1>1. returned' = NoReturn
  BY DEF startWorker
<1>2. \/ UNCHANGED <<joining, stack>>
      \/ /\ state[w] = BEGIN /\ tmo \in Timeouts
         /\ joining' = TRUE /\ stack' = Append(stack, f)
  BY DEF startWorker, Timeouts
<1>3. CASE UNCHANGED <<joining, stack>>
  BY <1>1, <1>3, JoinsKept
<1>4. CASE /\ state[w] = BEGIN /\ tmo \in Timeouts
           /\ joining' = TRUE /\ stack' = Append(stack, f)
  <2>1. f \in Frame
    BY <1>4, NewFrameType DEF WaitCalls
  <2>2. f.k = "start" /\ f.on = {w}
    BY DEF NewFrame
  <2>3. state[w] # Absent
    BY <1>4 DEF BEGIN, Absent
  <2> HIDE DEF f
  <2> QED BY <1>1, <1>4, <2>1, <2>2, <2>3, JoinBegun
<1> QED BY <1>2, <1>3, <1>4

\* A join whose time is over, or that meets an exception, reports the flag; one
\* that finds its workers complete says so.
LEMMA LoopTestJoins ==
    ASSUME TypeOK, TypeOK', Core, Core', JoinsHold, NEW timesOut \in BOOLEAN, LoopTest(timesOut)
    PROVE  JoinsHold'
<1> DEFINE again == [stack EXCEPT ![Len(stack)].got = FALSE]
<1>1. /\ stack \in Seq(Frame) /\ state \in [Worker -> 0..4] /\ exception \in BOOLEAN /\ joining \in BOOLEAN
  BY DEF TypeOK, OutTypeOK, EjsTypeOK
<1>2. alive /\ Top.k \in WaitCalls /\ UNCHANGED <<state, received, sent>>
  BY DEF LoopTest, InWait
<1>3. stack # <<>> /\ Len(stack) \in DOMAIN stack /\ Top = stack[Len(stack)] /\ Top \in Frame
  BY <1>1, <1>2, TopAndBelow DEF WaitCalls
<1>4. Below \in Seq(Frame) /\ \A i \in DOMAIN Below : i \in DOMAIN stack /\ Below[i] = stack[i]
  BY <1>1, <1>3, BelowIsShorter
<1>5. /\ again \in Seq(Frame) /\ Len(again) = Len(stack) /\ DOMAIN again = DOMAIN stack
      /\ \A i \in DOMAIN stack :
            again[i].k = stack[i].k /\ again[i].on = stack[i].on /\ again[i].nested = stack[i].nested
  BY <1>1, <1>3, Tested, GotType
<1>6. \A w \in Worker : state'[w] >= state[w]
  BY <1>1, <1>2
<1>7. timesOut => Top.tmo # "none"
  BY DEF LoopTest
<1>8. Top.k \in {"join", "start"} =>
        \/ LoopOver(Top, timesOut) /\ Return(Top, exception \/ ~joining, Below)
        \/ ~Reaped(Top.on, Top.all) /\ joining' = TRUE /\ stack' = again /\ returned' = NoReturn
        \/ Reaped(Top.on, Top.all) /\ Return(Top, TRUE, Below)
  BY DEF LoopTest
<1>9. Top.k \notin {"join", "start"} =>
        /\ joining' = joining
        /\ \/ Return(Top, TRUE, Below)
           \/ stack' = again /\ returned' = NoReturn
  BY DEF LoopTest
<1> HIDE DEF again
<1>10. CASE Top.k \in {"join", "start"}
  <2>1. /\ \A w \in Top.on : state[w] # Absent
        /\ ~Top.nested => joining
    BY <1>3, <1>10 DEF JoinsHold, Joining
  <2>2. CASE LoopOver(Top, timesOut) /\ Return(Top, exception \/ ~joining, Below)
    <3> DEFINE ok == exception \/ ~joining
    <3>1. ok /\ ~exception /\ ~Top.nested => FALSE
      BY <2>1
    <3>2. ~ok => Top.tmo # "none"
      <4>1. LoopOver(Top, timesOut) => timesOut \/ exception
        BY <1>10 DEF LoopOver
      <4> QED BY <1>7, <2>2, <4>1
    <3>3. Return(Top, ok, Below)
      BY <2>2
    <3> HIDE DEF ok
    <3> QED BY <1>2, <1>3, <1>4, <1>10, <3>1, <3>2, <3>3, JoinReturned
  <2>3. CASE joining' = TRUE /\ stack' = again /\ returned' = NoReturn
    <3>1. JoinMeansComplete' /\ NoTimeoutNoFailure'
      BY <1>1, <1>2, <1>6, <2>3, OutcomeStays DEF JoinsHold
    <3>2. Joining(stack)'
      BY <1>2, <1>5, <2>3 DEF JoinsHold, Joining
    <3> QED BY <3>1, <3>2 DEF JoinsHold
  <2>4. CASE Reaped(Top.on, Top.all) /\ Return(Top, TRUE, Below)
    <3>1. \A w \in Top.on : state[w] = COMPLETE /\ received[w] = sent[w]
      BY <1>2, <1>3, <2>1, <2>4, ReapedAreComplete
    <3> QED BY <1>2, <1>3, <1>4, <1>10, <2>4, <3>1, JoinReturned
  <2> QED BY <1>8, <1>10, <2>2, <2>3, <2>4
<1>11. CASE Top.k \notin {"join", "start"}
  <2>1. CASE Return(Top, TRUE, Below)
    <3>1. stack' = Below /\ returned'.frame = Top /\ joining' = joining
      BY <1>9, <1>11, <2>1 DEF Return
    <3>2. Joining(stack)'
      BY <1>2, <1>4, <3>1 DEF JoinsHold, Joining
    <3>3. JoinMeansComplete' /\ NoTimeoutNoFailure'
      BY <1>11, <3>1 DEF JoinMeansComplete, NoTimeoutNoFailure
    <3> QED BY <3>2, <3>3 DEF JoinsHold
  <2>2. CASE stack' = again /\ returned' = NoReturn
    BY <1>5, <1>6, <1>9, <1>11, <2>2, JoinsKept
  <2> QED BY <1>9, <1>11, <2>1, <2>2
<1> QED BY <1>10, <1>11

\* Taking an event, and running its callback, leaves the joins below alone.
LEMMA DispatchJoins ==
    ASSUME TypeOK, TypeOK', Core', JoinsHold, \A w \in Worker : state'[w] >= state[w],
           NEW handler \in BOOLEAN, Dispatch(handler)
    PROVE  JoinsHold'
<1> DEFINE pumped == [stack EXCEPT ![Len(stack)].got = TRUE]
           k == Head(queue).k
           f == NewFrame(k, {Head(queue).w}, FALSE, "none")
<1>1. stack \in Seq(Frame) /\ queue \in Seq(Event)
  BY DEF TypeOK, EjsTypeOK
<1>2. /\ queue # <<>> /\ Top.k \in WaitCalls /\ joining' = joining /\ returned' = NoReturn
      /\ stack' = pumped \/ stack' = Append(pumped, f)
  BY DEF Dispatch, InWait
<1>3. stack # <<>>
  BY <1>1, <1>2, TopAndBelow DEF WaitCalls
<1>4. /\ pumped \in Seq(Frame) /\ Len(pumped) = Len(stack)
      /\ \A i \in DOMAIN stack :
            pumped[i].k = stack[i].k /\ pumped[i].on = stack[i].on /\ pumped[i].nested = stack[i].nested
  BY <1>1, <1>3, Tested
<1>5. Head(queue) \in Event
  BY <1>1, <1>2, HeadTailProperties
<1>6. k \in Callbacks /\ Head(queue).w \in Worker
  BY <1>5 DEF Event
<1>7. f \in Frame /\ f.k \notin {"join", "start"}
  <2>1. f \in Frame
    BY <1>6, NewFrameType DEF Timeouts
  <2>2. f.k = k
    BY DEF NewFrame
  <2> QED BY <1>6, <2>1, <2>2 DEF Callbacks
<1> HIDE DEF pumped, k, f
<1>8. \A i \in DOMAIN stack' :
         stack'[i].k \in {"join", "start"} =>
            /\ i \in DOMAIN stack
            /\ stack'[i].k = stack[i].k /\ stack'[i].on = stack[i].on /\ stack'[i].nested = stack[i].nested
  BY <1>2, <1>4, <1>7, JoinsUnder
<1> QED BY <1>2, <1>8, JoinsKept

\* So does a call that is not a join, as it begins.
LEMMA BeginJoins ==
    ASSUME TypeOK, TypeOK', Core', JoinsHold, \A w \in Worker : state'[w] >= state[w],
           returned' = NoReturn, joining' = joining,
           NEW k \in {"wait", "run", "sleep", "preload"}, NEW on \in SUBSET Worker, NEW tmo \in Timeouts,
           stack' = Append(stack, NewFrame(k, on, FALSE, tmo))
    PROVE  JoinsHold'
<1> DEFINE f == NewFrame(k, on, FALSE, tmo)
<1>1. f \in Frame /\ f.k = k
  <2>1. f \in Frame
    BY NewFrameType DEF WaitCalls
  <2> QED BY <2>1 DEF NewFrame
<1>2. stack \in Seq(Frame) /\ stack' = Append(stack, f)
  BY DEF TypeOK, EjsTypeOK
<1> HIDE DEF f
<1>3. f.k \notin {"join", "start"}
  BY <1>1
<1>4. \A i \in DOMAIN stack' :
         stack'[i].k \in {"join", "start"} =>
            /\ i \in DOMAIN stack
            /\ stack'[i].k = stack[i].k /\ stack'[i].on = stack[i].on /\ stack'[i].nested = stack[i].nested
  BY <1>1, <1>2, <1>3, JoinsUnder
<1> QED BY <1>4, JoinsKept

\* And one that returns.
LEMMA EndJoins ==
    ASSUME TypeOK, TypeOK', Core', JoinsHold, \A w \in Worker : state'[w] >= state[w],
           returned' = returned \/ returned' = NoReturn, joining' = joining,
           stack # <<>>, stack' = Below
    PROVE  JoinsHold'
<1>1. \A i \in DOMAIN Below : Below[i] = stack[i] /\ i \in DOMAIN stack
  BY BelowIsShorter DEF TypeOK, EjsTypeOK
<1> QED BY <1>1, JoinsKept

\* Every step: one step of the proof per action.
LEMMA NextJoins == TypeOK /\ TypeOK' /\ Core /\ Core' /\ JoinsHold /\ [Next]_vars => JoinsHold'
<1> SUFFICES ASSUME TypeOK, TypeOK', Core, Core', JoinsHold, [Next]_vars PROVE JoinsHold'
  OBVIOUS
<1>a. \A w \in Worker : state'[w] >= state[w]
  BY SeenStep, Forward
<1>b. ASSUME UNCHANGED <<joining, stack>>, returned' = returned \/ returned' = NoReturn
      PROVE  JoinsHold'
  BY <1>a, <1>b, JoinsKept
<1>0. CASE UNCHANGED vars
  BY <1>0, <1>b DEF vars, ejsVars, histVars
<1>1. ASSUME NEW w \in Worker, NEW s \in Script \cup {NoScript}, Construct(w, s)
      PROVE  JoinsHold'
  BY <1>1, <1>b DEF Construct, initWorker
<1>2. ASSUME NEW w \in Worker, Fork(w)
      PROVE  JoinsHold'
  BY <1>2, <1>b DEF Fork, initWorker
<1>3. ASSUME NEW b \in Worker, NEW w \in Worker, Clone(b, w)
      PROVE  JoinsHold'
  BY <1>3, <1>b DEF Clone, initWorker, ejsVars
<1>4. ASSUME NEW w \in Worker, NEW s \in Script, NEW tmo \in {"zero", "finite", "none"},
             Load(w, s, tmo) \/ Eval(w, s, tmo)
      PROVE  JoinsHold'
  <2>1. startWorker(w, s, tmo)
    BY <1>4 DEF Load, Eval
  <2> QED BY <1>a, <2>1, startWorkerJoins
<1>5. ASSUME NEW w \in Worker, PostMessage(w) \/ Terminate(w)
      PROVE  JoinsHold'
  BY <1>5, <1>b DEF PostMessage, Terminate
<1>6. ASSUME NEW on \in SUBSET {w \in Worker : state[w] # Absent}, NEW all \in BOOLEAN, NEW tmo \in Timeouts,
             Join(on, all, tmo)
      PROVE  JoinsHold'
  BY <1>6, JoinJoins
<1>7. ASSUME NEW w \in Worker, NEW tmo \in {"finite", "none"}, WaitForMessage(w, tmo)
      PROVE  JoinsHold'
  <2>1. stack' = Append(stack, NewFrame("wait", {w}, FALSE, tmo)) /\ joining' = joining /\ returned' = NoReturn
    BY <1>7 DEF WaitForMessage
  <2>2. tmo \in Timeouts /\ {w} \in SUBSET Worker
    BY DEF Timeouts
  <2> QED BY <1>a, <2>1, <2>2, BeginJoins
<1>8. ASSUME NEW c \in {"run", "sleep"}, NEW tmo \in {"finite", "none"}, Serve(c, tmo)
      PROVE  JoinsHold'
  <2>1. stack' = Append(stack, NewFrame(c, {}, FALSE, tmo)) /\ joining' = joining /\ returned' = NoReturn
    BY <1>8 DEF Serve
  <2>2. tmo \in Timeouts /\ {} \in SUBSET Worker /\ c \in {"wait", "run", "sleep", "preload"}
    BY DEF Timeouts
  <2> QED BY <1>a, <2>1, <2>2, BeginJoins
<1>9. ASSUME NEW w \in Worker, Preload(w)
      PROVE  JoinsHold'
  <2>1. /\ stack' = stack \/ stack' = Append(stack, NewFrame("preload", {w}, FALSE, "none"))
        /\ joining' = joining /\ returned' = NoReturn
    BY <1>9 DEF Preload
  <2>2. "none" \in Timeouts /\ {w} \in SUBSET Worker
    BY DEF Timeouts
  <2>3. CASE stack' = Append(stack, NewFrame("preload", {w}, FALSE, "none"))
    BY <1>a, <2>1, <2>2, <2>3, BeginJoins
  <2> QED BY <1>b, <2>1, <2>3
<1>10. ASSUME NEW w \in Worker, PreloadPost(w)
       PROVE  JoinsHold'
  BY <1>10, <1>b DEF PreloadPost
<1>11. ASSUME NEW w \in Worker, NEW throws \in BOOLEAN, PreloadReturn(w, throws)
       PROVE  JoinsHold'
  <2>1. stack' = Below /\ joining' = joining /\ returned' = returned
    BY <1>11 DEF PreloadReturn, histVars
  <2>2. stack # <<>>
    BY <1>11, PreloadedWorker DEF PreloadReturn
  <2> QED BY <1>a, <2>1, <2>2, EndJoins
<1>12. ASSUME Catch
       PROVE  JoinsHold'
  BY <1>12, <1>b DEF Catch
<1>13. ASSUME NEW handler \in BOOLEAN, Dispatch(handler)
       PROVE  JoinsHold'
  BY <1>a, <1>13, DispatchJoins
<1>14. ASSUME NEW throws \in BOOLEAN, CallbackReturn(throws)
       PROVE  JoinsHold'
  <2>1. stack' = Below /\ joining' = joining /\ returned' = NoReturn /\ Top.k \in Callbacks
    BY <1>14 DEF CallbackReturn
  <2>2. stack # <<>>
    BY <2>1, TopAndBelow DEF TypeOK, EjsTypeOK, Callbacks
  <2> QED BY <1>a, <2>1, <2>2, EndJoins
<1>15. ASSUME NEW timesOut \in BOOLEAN, LoopTest(timesOut)
       PROVE  JoinsHold'
  BY <1>15, LoopTestJoins
<1>16. ASSUME DestroyVM
       PROVE  JoinsHold'
  BY <1>16, <1>b DEF DestroyVM
<1>17. ASSUME NEW w \in Worker, InsideMain(w) \/ InsidePost(w)
       PROVE  JoinsHold'
  BY <1>17, <1>b DEF InsideMain, InsidePost
<1>18. ASSUME NEW w \in Worker, InsideExit(w) \/ InsideTerminate(w) \/ InsideThrow(w) \/ InsideCatch(w) \/ InsideCallbackReturn(w)
                                \/ InsideFinish(w) \/ InsideClose(w)
       PROVE  JoinsHold'
  BY <1>18, <1>b DEF InsideExit, InsideTerminate, InsideThrow, InsideCatch, InsideCallbackReturn, InsideFinish, InsideClose,
                     ejsVars, histVars
<1>19. ASSUME NEW w \in Worker, NEW c, InsideWait(c, w) \/ InsideDispatch(w, c) \/ InsideLoopTest(w, c)
       PROVE  JoinsHold'
  BY <1>19, <1>b DEF InsideWait, InsideDispatch, InsideLoopTest, ejsVars, histVars
<1>20. ASSUME NEW w \in Worker, InsideReport(w) \/ InsidePostClose(w)
       PROVE  JoinsHold'
  BY <1>20, <1>b DEF InsideReport, InsidePostClose, histVars
<1> QED
  BY <1>0, <1>1, <1>2, <1>3, <1>4, <1>5, <1>6, <1>7, <1>8, <1>9, <1>10, <1>11, <1>12, <1>13, <1>14, <1>15,
     <1>16, <1>17, <1>18, <1>19, <1>20
  DEF Next, MainThread, InsideThread

LEMMA InitJoins == Init => JoinsHold
<1> SUFFICES ASSUME Init PROVE JoinsHold
  OBVIOUS
<1>1. NoReturn.frame.k \notin {"join", "start"}
  BY DEF NoReturn, NoCall, NewFrame
<1>2. JoinMeansComplete /\ NoTimeoutNoFailure
  BY <1>1 DEF Init, JoinMeansComplete, NoTimeoutNoFailure
<1>3. Joining(stack)
  BY DEF Init, Joining
<1> QED BY <1>2, <1>3 DEF JoinsHold

LEMMA JoinInvariance == Spec => []JoinsHold
<1>1. Init => JoinsHold
  BY InitJoins
<1>2. TypeOK /\ Core /\ TypeOK' /\ Core' /\ JoinsHold /\ [Next]_vars => JoinsHold'
  BY NextJoins
<1> QED BY <1>1, <1>2, Invariance, PTL DEF Spec

\* A join that succeeds means that its workers are complete, with every message
\* they posted taken, if no callback made a join or threw while it waited.
THEOREM JoinsAreTrue == Spec => []JoinMeansComplete
<1>1. JoinsHold => JoinMeansComplete
  BY DEF JoinsHold
<1> QED BY <1>1, JoinInvariance, PTL

\* Without a timeout a join does not report one, whatever its callbacks do.
THEOREM NoJoinTimesOutByItself == Spec => []NoTimeoutNoFailure
<1>1. JoinsHold => NoTimeoutNoFailure
  BY DEF JoinsHold
<1> QED BY <1>1, JoinInvariance, PTL
=============================================================================
