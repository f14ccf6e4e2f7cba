--------------------------- MODULE WorkerContract ---------------------------
(***************************************************************************)
(* What a script may rely on of the workers it makes, whatever the threads  *)
(* do: a worker passes through its phases once, its messages are taken one  *)
(* by one, and it is complete only when every message its script posted has *)
(* been taken, unless the interpreter that owns it is destroyed first.      *)
(***************************************************************************)
EXTENDS Naturals

CONSTANT Worker

VARIABLES
    up,         \* the interpreter that owns the workers exists
    phase,      \* where each worker is in its life
    sent,       \* messages its script has posted to its owner
    received    \* of those, the messages its owner has taken

vars == <<up, phase, sent, received>>

Phases == {"absent", "made", "started", "closed", "complete"}

Init ==
    /\ up = TRUE
    /\ phase = [w \in Worker |-> "absent"]
    /\ sent = [w \in Worker |-> 0]
    /\ received = [w \in Worker |-> 0]

\* A worker may be started by the call that makes it
Make(w) ==
    /\ up /\ phase[w] = "absent"
    /\ \E p \in {"made", "started"} : phase' = [phase EXCEPT ![w] = p]
    /\ UNCHANGED <<up, sent, received>>

Start(w) ==
    /\ up /\ phase[w] = "made"
    /\ phase' = [phase EXCEPT ![w] = "started"]
    /\ UNCHANGED <<up, sent, received>>

Post(w) ==
    /\ up /\ phase[w] \in {"made", "started"}
    /\ sent' = [sent EXCEPT ![w] = @ + 1]
    /\ UNCHANGED <<up, phase, received>>

Take(w) ==
    /\ up /\ received[w] < sent[w]
    /\ received' = [received EXCEPT ![w] = @ + 1]
    /\ UNCHANGED <<up, phase, sent>>

\* Its script is over: no message follows.  This may happen after the owner.
Close(w) ==
    /\ phase[w] = "started"
    /\ phase' = [phase EXCEPT ![w] = "closed"]
    /\ UNCHANGED <<up, sent, received>>

Complete(w) ==
    /\ up /\ phase[w] = "closed" /\ received[w] = sent[w]
    /\ phase' = [phase EXCEPT ![w] = "complete"]
    /\ UNCHANGED <<up, sent, received>>

Destroy ==
    /\ up
    /\ up' = FALSE
    /\ UNCHANGED <<phase, sent, received>>

Next ==
    \/ Destroy
    \/ \E w \in Worker : \/ Make(w) \/ Start(w) \/ Post(w) \/ Take(w)
                         \/ Close(w) \/ Complete(w)

Spec == Init /\ [][Next]_vars
=============================================================================
