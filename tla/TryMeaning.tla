----------------------------- MODULE TryMeaning -----------------------------
(***************************************************************************)
(* What a function with try, catch and finally blocks means: the promise    *)
(* that the code generator (EjsCodeGen) and the interpreter (EjsTry) keep   *)
(* together.  A statement is a record; a function is a sequence of them.    *)
(* Its meaning is the order in which its marked statements run and how it   *)
(* completes.                                                               *)
(*                                                                          *)
(* Loops take their turns from one count, `fuel`, as `while (n-- > 0)` does *)
(* with a variable of the program, or an iterator over as many things, so    *)
(* every program ends.                                                      *)
(***************************************************************************)
EXTENDS Integers, Sequences

\* Statements; `label` is what a mark shows, `type` the type of what is thrown
Mark(label) == [kind |-> "mark", label |-> label]
Throw(type) == [kind |-> "throw", type |-> type]
Return == [kind |-> "return"]
Break == [kind |-> "break"]
Continue == [kind |-> "continue"]
Call(body) == [kind |-> "call", body |-> body]
Block(body) == [kind |-> "block", body |-> body]
While(body) == [kind |-> "while", body |-> body]
ForIn(body) == [kind |-> "forIn", body |-> body]
\* A catch clause names the type it takes, "Void" for all; finally is <<>> or <<body>>
Try(body, catches, finally) == [kind |-> "try", body |-> body, catches |-> catches, finally |-> finally]
Catch(type, body) == [type |-> type, body |-> body]

\* A run: the marks passed, the fuel left, and how it stands: "normal", "break",
\* "continue", "return" or "throw" with the type thrown
Run(fuel) == [trace |-> <<>>, fuel |-> fuel, how |-> "normal", type |-> "none"]

Completes(r, how, type) == [r EXCEPT !.how = how, !.type = type]
Proceeds(r) == Completes(r, "normal", "none")

Takes(catch, type) == catch.type \in {"Void", type}

RECURSIVE Meaning(_, _), MeaningOfList(_, _), MeaningOfLoop(_, _)

\* A list stops at the first statement that does not complete normally
MeaningOfList(list, r) ==
    IF list = <<>> \/ r.how # "normal" THEN r ELSE MeaningOfList(Tail(list), Meaning(Head(list), r))

MeaningOfLoop(body, r) ==
    IF r.fuel = 0 THEN r
    ELSE LET turn == MeaningOfList(body, [r EXCEPT !.fuel = @ - 1])
         IN  CASE turn.how \in {"normal", "continue"} -> MeaningOfLoop(body, Proceeds(turn))
               [] turn.how = "break" -> Proceeds(turn)
               [] OTHER -> turn

\* The first clause that takes the exception runs
MeaningOfCatches(s, r) ==
    LET fit == {i \in DOMAIN s.catches : Takes(s.catches[i], r.type)}
    IN  IF r.how # "throw" \/ fit = {} THEN r
        ELSE MeaningOfList(s.catches[CHOOSE i \in fit : \A j \in fit : i <= j].body, Proceeds(r))

\* The finally block runs whatever happened, and overrides it if it does not
\* itself complete normally
MeaningOfFinally(s, r) ==
    IF s.finally = <<>> THEN r
    ELSE LET last == MeaningOfList(s.finally[1], Proceeds(r))
         IN  IF last.how = "normal" THEN Completes(last, r.how, r.type) ELSE last

Meaning(s, r) ==
    CASE s.kind = "mark" -> [r EXCEPT !.trace = Append(@, s.label)]
      [] s.kind = "throw" -> Completes(r, "throw", s.type)
      [] s.kind \in {"return", "break", "continue"} -> Completes(r, s.kind, "none")
      [] s.kind = "block" -> MeaningOfList(s.body, r)
      [] s.kind \in {"while", "forIn"} -> MeaningOfLoop(s.body, r)
      [] s.kind = "call" -> LET callee == MeaningOfList(s.body, r)
                            IN  IF callee.how = "throw" THEN callee ELSE Proceeds(callee)
      [] s.kind = "try" -> MeaningOfFinally(s, MeaningOfCatches(s, MeaningOfList(s.body, r)))

MeaningOfFunction(body, fuel) == Meaning(Call(body), Run(fuel))
=============================================================================
