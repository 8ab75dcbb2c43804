--------------------------- MODULE EventHandling ---------------------------
(***************************************************************************)
(* What the consumers promise about an event with an id: it is taken once, *)
(* worked on at most MaxRetries times by whoever took it, and never again  *)
(* once that is over, however often it is delivered.                       *)
(***************************************************************************)
EXTENDS Naturals

CONSTANTS Events, MaxRetries

VARIABLES
    phase,   \* of each event: new, sent, taken, over
    work     \* times the handler did its work for each event

vars == <<phase, work>>

Init ==
    /\ phase = [e \in Events |-> "new"]
    /\ work = [e \in Events |-> 0]

Move(e, from, to) ==
    phase[e] = from /\ phase' = [phase EXCEPT ![e] = to] /\ UNCHANGED work

Send(e) == Move(e, "new", "sent")

Take(e) == Move(e, "sent", "taken")

\* The event is marked and nobody handles it.
Lose(e) == Move(e, "sent", "over")

Work(e) ==
    /\ phase[e] = "taken" /\ work[e] < MaxRetries
    /\ work' = [work EXCEPT ![e] = @ + 1] /\ UNCHANGED phase

Finish(e) == Move(e, "taken", "over")

\* A handler that does not wait.
HandleAtOnce(e) ==
    /\ phase[e] = "sent" /\ work[e] < MaxRetries
    /\ work' = [work EXCEPT ![e] = @ + 1]
    /\ phase' = [phase EXCEPT ![e] = "over"]

Next == \E e \in Events : \/ Send(e) \/ Take(e) \/ Lose(e) \/ Work(e)
                          \/ Finish(e) \/ HandleAtOnce(e)

Spec == Init /\ [][Next]_vars
=============================================================================
