--------------------------- MODULE SerialExecutor ---------------------------
(***************************************************************************)
(* What taskqueue.TaskQueue promises its callers: at most Limit tasks are  *)
(* outstanding, each is carried out once, one at a time, in the order in   *)
(* which they were submitted, and every submitted task gets an outcome.    *)
(***************************************************************************)
EXTENDS Naturals, Sequences

CONSTANTS Tasks, Results, Limit

VARIABLES
    waiting,    \* submitted tasks without an outcome, the oldest first
    outcome     \* task -> none or its result

vars == <<waiting, outcome>>

Init ==
    /\ waiting = <<>>
    /\ outcome = [t \in Tasks |-> "none"]

Submit(t) ==
    /\ Len(waiting) < Limit
    /\ outcome[t] = "none"
    /\ \A i \in 1 .. Len(waiting) : waiting[i] # t
    /\ waiting' = Append(waiting, t)
    /\ UNCHANGED outcome

Finish(r) ==
    /\ waiting # <<>>
    /\ waiting' = Tail(waiting)
    /\ outcome' = [outcome EXCEPT ![Head(waiting)] = r]

Next ==
    \/ \E t \in Tasks : Submit(t)
    \/ \E r \in Results : Finish(r)

Spec == Init /\ [][Next]_vars
FairSpec == Spec /\ WF_vars(\E r \in Results : Finish(r))
=============================================================================
