------------------------------- MODULE MCLive -------------------------------
(* What must eventually happen in the task queue and in the dispatcher.  A *)
(* behaviour exercises one part: they share no state, so the reachable     *)
(* states of the model are the sum of those of the parts.                  *)
EXTENDS TaskQueue, Dispatcher

VARIABLE part

MCInit == part \in {"taskqueue", "dispatcher"} /\ Init /\ DspInit

MCNext ==
    \/ part = "taskqueue" /\ Next /\ UNCHANGED <<part, dspVars>>
    \/ part = "dispatcher" /\ DspNext /\ UNCHANGED <<part, vars>>

\* In its initial state a part has no fair step: fairness obliges the exercised part only.
MCSpec == MCInit /\ [][MCNext]_<<part, vars, dspVars>> /\ Fairness /\ DspFairness
=============================================================================
