--------------------------- MODULE TransitMetrics ---------------------------
(***************************************************************************)
(* services/transit.go, the operations on the inventory-and-metrics        *)
(* subject: SendResourceWithMetrics adds to the metrics batcher (or sends  *)
(* at once when batching is off), SendStates and SynchronizeInventory call *)
(* Batch on it and then put their own payload.  The metrics batcher is     *)
(* Batcher with sendMetrics as its handler: sent is the order in which     *)
(* metrics reach Put2Nats.                                                 *)
(***************************************************************************)
EXTENDS Batcher

VARIABLES
    owed,       \* caller in SendStates -> metrics added before it began
    flushing    \* callers in SendStates or SynchronizeInventory

tvars == <<vars, owed, flushing>>

TInit ==
    /\ Init
    /\ owed = [c \in Callers |-> {}]
    /\ flushing = {}

(* SendStates and SynchronizeInventory up to their call of Batch, which is *)
(* made only when metrics are batched.                                     *)
FlushBegin(c) ==
    /\ c \notin flushing
    /\ flushing' = flushing \cup {c}
    /\ owed' = [owed EXCEPT ![c] = ToSet(added)]
    /\ \/ ticking /\ BatchCall(c)
       \/ ~ticking /\ pc[c] = "idle" /\ calls < MaxCalls /\ calls' = calls + 1
          /\ UNCHANGED <<buf, bufSize, maxBytes, ticking, tickerExit, procVars, history>>

(* Put2Nats of the states or of the inventory. *)
FlushPut(c) ==
    /\ c \in flushing
    /\ pc[c] = "idle"
    /\ flushing' = flushing \ {c}
    /\ UNCHANGED <<vars, owed>>

(* SendResourceWithMetrics without batching. *)
SendDirect(c, x, ok) ==
    /\ c \notin flushing
    /\ pc[c] = "idle"
    /\ ~ticking
    /\ ~Contains(added, x)
    /\ added' = Append(added, x)
    /\ sent' = IF ok THEN Append(sent, x) ELSE sent
    /\ failed' = IF ok THEN failed ELSE failed \cup {x}
    /\ UNCHANGED <<buf, bufSize, maxBytes, ticking, tickerExit, procVars, calls,
                   cleared, batch, split, overlapped, owed, flushing>>

SendBatched(c, x) ==
    /\ c \notin flushing
    /\ ticking
    /\ Add(c, x)
    /\ UNCHANGED <<owed, flushing>>

TNext ==
    \/ \E c \in Callers :
        \/ FlushBegin(c)
        \/ FlushPut(c)
        \/ \E x \in Payloads : SendBatched(c, x) \/ \E ok \in BOOLEAN : SendDirect(c, x, ok)
        \/ /\ c \notin flushing
           /\ Clear(c) \/ ExitCall(c) \/ \E k \in Confs : ResetCall(c, k)
           /\ UNCHANGED <<owed, flushing>>
        \/ (AddCheck(c) \/ ResetApply(c) \/ ExitSend(c)) /\ UNCHANGED <<owed, flushing>>
    \/ /\ Tick \/ TickerExits \/ \E p \in Procs : Swap(p) \/ Build(p) \/ HandleStep(p)
       /\ UNCHANGED <<owed, flushing>>

TSpec == TInit /\ [][TNext]_tvars

(* "SendStates processes ResourcesWithServicesRequest with statuses,       *)
(* flushes MetricsBatcher to avoid misordering": when the states are put,  *)
(* every metric added before SendStates began has been handled.            *)
StatesFollowMetrics ==
    [][\A c \in Callers : FlushPut(c) => \A x \in owed[c] : Settled(x)]_tvars
=============================================================================
