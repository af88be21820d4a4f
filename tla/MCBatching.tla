----------------------------- MODULE MCBatching -----------------------------
(* The batcher and the two batch builders.  A behaviour exercises one part:*)
(* they share no state (Build works on the buffer the batcher swapped out),*)
(* so the reachable states are the sum of those of the parts.              *)
(*                                                                         *)
(* Batcher: two callers and two payloads that exceed every limit together, *)
(* one of them the small limit alone.  EventsBuild: short and long         *)
(* payloads, one without events, malformed ones of both kinds, in every    *)
(* order of up to four.  MetricsBuild: see MCMetricsBuild.                 *)
EXTENDS Batcher, EventsBuild, MCMetricsBuild

CONSTANTS x1, x2, short, pair, none, long, longest, badEvents, badLong

VARIABLE part

MCSize == [x \in Payloads |-> IF x = x2 THEN 2 ELSE 1]

MCEvPayloadLen == [p \in EvPayloads |->
    CASE p \in {short, none, badEvents} -> 1
      [] p = pair                       -> 2
      [] p = long                       -> 5
      [] OTHER                          -> 7]
Numbered(p, n) == [i \in 1 .. n |-> <<p, i>>]
MCEvents == [p \in EvPayloads |->
    CASE p = short   -> Numbered(p, 1)
      [] p = pair    -> Numbered(p, 2)
      [] p = long    -> Numbered(p, 3)
      [] p = longest -> Numbered(p, 5)
      [] OTHER       -> <<>>]
MCEvBuffers == UNION {{s \in [1 .. n -> EvPayloads] : IsInjective(s)} : n \in 0 .. 4}

MCInit ==
    /\ part \in {"batcher", "events", "metrics"}
    /\ IF part = "batcher" THEN TRUE ELSE maxBytes = 1 /\ ticking = FALSE
    /\ IF part = "events" THEN TRUE ELSE evBuf = <<>> /\ evMaxBytes = 1
    /\ IF part = "metrics" THEN TRUE ELSE mtBuf = <<>> /\ mtMaxBytes = 2
    /\ Init /\ EvInit /\ MtInit

MCNext ==
    \/ part = "batcher" /\ Next /\ UNCHANGED <<part, evVars, mtVars>>
    \/ part = "events" /\ EvNext /\ UNCHANGED <<part, vars, mtVars>>
    \/ part = "metrics" /\ MtNext /\ UNCHANGED <<part, vars, evVars>>

\* Where the batcher is not exercised no step of its fairness is enabled.
MCSpec == MCInit /\ [][MCNext]_<<part, vars, evVars, mtVars>> /\ Fairness
=============================================================================
