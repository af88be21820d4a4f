-------------------------- MODULE MCTransitMetrics --------------------------
(* Instance of TransitMetrics: one caller beside the ticker goroutine.     *)
EXTENDS TransitMetrics

MCSize == [x \in Payloads |-> 1]
=============================================================================
