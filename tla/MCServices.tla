----------------------------- MODULE MCServices -----------------------------
(* One instance of each service beside the task queue and the dispatcher.  *)
(* A behaviour exercises one part: they share no state, so the reachable   *)
(* states of the model are the sum of those of the parts.                  *)
EXTENDS MCAgentService, GWClient, Publisher, Controller, ControllerAuth

VARIABLE part

\* The servers of every other configuration do not know the GWOS credentials.
MCAcceptedBy(s, config) == IF s = "BASIC" \/ config % 2 = 1 THEN KeysOf(s) ELSE {}

MCInit ==
    /\ part \in {"agent", "gwclient", "publisher", "controller", "auth"}
    /\ Init /\ GWInit /\ PubInit /\ CtlInit /\ AuthInit

MCNext ==
    \/ part = "agent" /\ Next /\ UNCHANGED <<part, gwVars, pubVars, ctlVars, authVars>>
    \/ part = "gwclient" /\ GWNext /\ UNCHANGED <<part, vars, pubVars, ctlVars, authVars>>
    \/ part = "publisher" /\ PubNext /\ UNCHANGED <<part, vars, gwVars, ctlVars, authVars>>
    \/ part = "controller" /\ CtlNext /\ UNCHANGED <<part, vars, gwVars, pubVars, authVars>>
    \/ part = "auth" /\ AuthNext /\ UNCHANGED <<part, vars, gwVars, pubVars, ctlVars>>

\* In its initial state a part has no fair step: fairness obliges the exercised part only.
MCSpec ==
    /\ MCInit /\ [][MCNext]_<<part, vars, gwVars, pubVars, ctlVars, authVars>>
    /\ WF_vars(WorkerStep) /\ GWFairness /\ PubFairness /\ CtlFairness

(* Every request to the Groundwork server returns, whoever holds the mutex *)
(* of Connect, and every start and stop of the controller does.            *)
CallsReturn == RequestReturns /\ CtlTaskReturns
=============================================================================
