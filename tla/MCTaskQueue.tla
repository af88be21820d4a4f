---------------------------- MODULE MCTaskQueue ----------------------------
(* The task queue, and the goroutines of a connector, whose configHandler  *)
(* is such a task.  A behaviour exercises one of the two: they share no    *)
(* state.  Callers are interchangeable, and so are handlers: no action or  *)
(* property names one.                                                     *)
EXTENDS TaskQueue, ConnectorLoop, TLC

VARIABLE part

MCInit ==
    /\ part \in {"queue", "loop"}
    /\ IF part = "loop" THEN TRUE ELSE connectorKind = "snmp"
    /\ Init /\ LpInit

MCNext ==
    \/ part = "queue" /\ Next /\ UNCHANGED <<part, lpVars>>
    \/ part = "loop" /\ LpNext /\ UNCHANGED <<part, vars>>

GoroutineSymmetry == Permutations(Callers) \cup Permutations(Handlers)
=============================================================================
