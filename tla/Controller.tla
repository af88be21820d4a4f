----------------------------- MODULE Controller -----------------------------
(***************************************************************************)
(* services/controller.go: the HTTP server of the controller.              *)
(* startController starts a goroutine that makes controller.srv, listens   *)
(* and serves, and clears controller.srv when it ends; stopController      *)
(* shuts the server down from another goroutine.  Both run as tasks of the *)
(* queue, one at a time, and share controller.srv without a lock.          *)
(***************************************************************************)
EXTENDS Integers, FiniteSets

CONSTANTS
    MaxServers,     \* bound: goroutines started by startController
    MaxCtlStops,    \* bound: calls of stopController
    MaxRetries      \* ControllerStartTimeout in units of startRetryDelay

ASSUME CtlAssumption == MaxServers \in Nat /\ MaxCtlStops \in Nat /\ MaxRetries \in Nat

VARIABLES
    ctlSrv,         \* controller.srv: 0 nil, else the server of that goroutine
    ctlServe,       \* goroutine -> where it is
    ctlRetries,     \* goroutine -> retries of listen
    ctlTask,        \* the running task: "idle", "starting", "stopping"
    ctlStarted,     \* number of goroutines
    ctlDown,        \* servers whose Shutdown was called
    ctlBusy,        \* servers with a request under way
    ctlShutdown,    \* goroutine of stopController: "none", "begin", "wait", "done"
    ctlTarget,      \* the server it shuts down
    ctlStops,
    ctlAsked,       \* history: "up" or "down", what the last finished task asked for
    ctlFailed,      \* history: the last server could not listen
    ctlPanicked

ctlVars == <<ctlSrv, ctlServe, ctlRetries, ctlTask, ctlStarted, ctlDown, ctlBusy, ctlShutdown,
             ctlTarget, ctlStops, ctlAsked, ctlFailed, ctlPanicked>>
ctlStop == <<ctlShutdown, ctlTarget, ctlStops>>

Servers == 1..MaxServers

CtlInit ==
    /\ ctlSrv = 0 /\ ctlTask = "idle" /\ ctlStarted = 0 /\ ctlDown = {} /\ ctlBusy = {}
    /\ ctlServe = [g \in Servers |-> "none"] /\ ctlRetries = [g \in Servers |-> 0]
    /\ ctlShutdown = "none" /\ ctlTarget = 0 /\ ctlStops = 0
    /\ ctlAsked = "down" /\ ctlFailed = FALSE /\ ctlPanicked = FALSE

ServeTo(g, pc) == ctlServe' = [ctlServe EXCEPT ![g] = pc]

\* Mutant of StartController: no look at controller.srv.
StartControllerBlindly ==
    /\ ctlTask = "idle" /\ ctlStarted < MaxServers
    /\ ctlStarted' = ctlStarted + 1 /\ ctlTask' = "starting" /\ ctlFailed' = FALSE
    /\ ServeTo(ctlStarted', "spawned")
    /\ UNCHANGED <<ctlSrv, ctlRetries, ctlDown, ctlBusy, ctlStop, ctlAsked, ctlPanicked>>

(* A server that is there is taken for a started one. *)
StartController ==
    /\ ctlTask = "idle" /\ ctlStarted < MaxServers
    /\ IF ctlSrv # 0
       THEN ctlAsked' = "up" /\ UNCHANGED <<ctlStarted, ctlTask, ctlServe, ctlFailed>>
       ELSE /\ ctlStarted' = ctlStarted + 1 /\ ctlTask' = "starting" /\ ctlFailed' = FALSE
            /\ ServeTo(ctlStarted', "spawned")
            /\ UNCHANGED ctlAsked
    /\ UNCHANGED <<ctlSrv, ctlRetries, ctlDown, ctlBusy, ctlStop, ctlPanicked>>

(* The timer of 2 * startRetryDelay ends the start; each retry sets it     *)
(* anew, so it ends when the goroutine, which takes far less to be         *)
(* scheduled and to listen, has stopped retrying.                          *)
StartReturns ==
    /\ ctlTask = "starting"
    /\ ctlServe[ctlStarted] \notin {"spawned", "listen", "retry"}
    /\ ctlTask' = "idle" /\ ctlAsked' = "up"
    /\ UNCHANGED <<ctlSrv, ctlServe, ctlRetries, ctlStarted, ctlDown, ctlBusy, ctlStop,
                   ctlFailed, ctlPanicked>>

NewServer(g) ==
    /\ ctlServe[g] = "spawned"
    /\ ctlSrv' = g /\ ServeTo(g, "listen")
    /\ UNCHANGED <<ctlRetries, ctlTask, ctlStarted, ctlDown, ctlBusy, ctlStop, ctlAsked,
                   ctlFailed, ctlPanicked>>

(* Listen and Serve: an address in use is retried until the timeout, other *)
(* errors end the goroutine, and so does a server that was shut down.      *)
ListenServe(g) ==
    /\ ctlServe[g] = "listen"
    /\ \/ ServeTo(g, IF g \in ctlDown THEN "exit" ELSE "serving") /\ UNCHANGED ctlFailed
       \/ ctlRetries[g] < MaxRetries /\ ServeTo(g, "retry") /\ UNCHANGED ctlFailed
       \/ ServeTo(g, "exit") /\ ctlFailed' = TRUE
    /\ UNCHANGED <<ctlSrv, ctlRetries, ctlTask, ctlStarted, ctlDown, ctlBusy, ctlStop, ctlAsked,
                   ctlPanicked>>

RetryListen(g) ==
    /\ ctlServe[g] = "retry"
    /\ ctlRetries' = [ctlRetries EXCEPT ![g] = @ + 1]
    /\ ServeTo(g, "listen")
    /\ UNCHANGED <<ctlSrv, ctlTask, ctlStarted, ctlDown, ctlBusy, ctlStop, ctlAsked, ctlFailed,
                   ctlPanicked>>

(* External: Serve returns when its listener is closed, and the listener   *)
(* may fail.                                                               *)
ServeReturns(g) ==
    /\ ctlServe[g] = "serving"
    /\ ServeTo(g, "exit")
    /\ ctlFailed' = (ctlFailed \/ g \notin ctlDown)
    /\ UNCHANGED <<ctlSrv, ctlRetries, ctlTask, ctlStarted, ctlDown, ctlBusy, ctlStop, ctlAsked,
                   ctlPanicked>>

(* The last assignment of the goroutine. *)
ServeEnds(g) ==
    /\ ctlServe[g] = "exit"
    /\ ctlSrv' = 0 /\ ServeTo(g, "done")
    /\ UNCHANGED <<ctlRetries, ctlTask, ctlStarted, ctlDown, ctlBusy, ctlStop, ctlAsked,
                   ctlFailed, ctlPanicked>>

(* External: requests come and are answered. *)
Request(g) ==
    /\ \/ ctlServe[g] = "serving" /\ g \notin ctlDown /\ g \notin ctlBusy
          /\ ctlBusy' = ctlBusy \cup {g}
       \/ g \in ctlBusy /\ ctlBusy' = ctlBusy \ {g}
    /\ UNCHANGED <<ctlSrv, ctlServe, ctlRetries, ctlTask, ctlStarted, ctlDown, ctlStop, ctlAsked,
                   ctlFailed, ctlPanicked>>

StopController ==
    /\ ctlTask = "idle" /\ ctlStops < MaxCtlStops
    /\ ctlStops' = ctlStops + 1
    /\ IF ctlSrv = 0
       THEN ctlAsked' = "down" /\ UNCHANGED <<ctlTask, ctlShutdown>>
       ELSE ctlTask' = "stopping" /\ ctlShutdown' = "begin" /\ UNCHANGED ctlAsked
    /\ UNCHANGED <<ctlSrv, ctlServe, ctlRetries, ctlStarted, ctlDown, ctlBusy, ctlTarget,
                   ctlFailed, ctlPanicked>>

(* The goroutine reads controller.srv again: nil panics. *)
ShutdownBegin ==
    /\ ctlShutdown = "begin"
    /\ IF ctlSrv = 0
       THEN ctlPanicked' = TRUE /\ UNCHANGED <<ctlDown, ctlTarget, ctlShutdown>>
       ELSE /\ ctlDown' = ctlDown \cup {ctlSrv} /\ ctlTarget' = ctlSrv
            /\ ctlShutdown' = "wait"
            /\ UNCHANGED ctlPanicked
    /\ UNCHANGED <<ctlSrv, ctlServe, ctlRetries, ctlTask, ctlStarted, ctlBusy, ctlStops, ctlAsked,
                   ctlFailed>>

(* External: Shutdown returns when Serve has left the listener and no      *)
(* request is under way.                                                   *)
ShutdownEnds ==
    /\ ctlShutdown = "wait"
    /\ ctlServe[ctlTarget] # "serving" /\ ctlTarget \notin ctlBusy
    /\ ctlShutdown' = "done"
    /\ UNCHANGED <<ctlSrv, ctlServe, ctlRetries, ctlTask, ctlStarted, ctlDown, ctlBusy, ctlTarget,
                   ctlStops, ctlAsked, ctlFailed, ctlPanicked>>

(* stopController returns with the context: cancelled by the goroutine or  *)
(* after ControllerStopTimeout, which is for a request that does not end.  *)
StopReturns ==
    /\ ctlTask = "stopping"
    /\ \/ ctlShutdown = "done"
       \/ ctlShutdown = "wait" /\ ctlTarget \in ctlBusy /\ ctlServe[ctlTarget] # "serving"
    /\ ctlTask' = "idle" /\ ctlAsked' = "down" /\ ctlShutdown' = "none"
    /\ UNCHANGED <<ctlSrv, ctlServe, ctlRetries, ctlStarted, ctlDown, ctlBusy, ctlTarget, ctlStops,
                   ctlFailed, ctlPanicked>>

ServeStep(g) ==
    NewServer(g) \/ ListenServe(g) \/ RetryListen(g) \/ ServeEnds(g)
    \/ (g \in ctlDown /\ ServeReturns(g))

CtlNext ==
    /\ ~ctlPanicked
    /\ \/ StartController \/ StartReturns \/ StopController \/ ShutdownBegin \/ ShutdownEnds
       \/ StopReturns
       \/ \E g \in Servers : ServeStep(g) \/ ServeReturns(g) \/ Request(g)

(* Goroutines run and timers fire; requests need not end, nor tasks come. *)
CtlFairness ==
    /\ WF_ctlVars(~ctlPanicked /\ (StartReturns \/ ShutdownBegin \/ ShutdownEnds \/ StopReturns))
    /\ \A g \in Servers : WF_ctlVars(~ctlPanicked /\ ServeStep(g))

CtlSpec == CtlInit /\ [][CtlNext]_ctlVars /\ CtlFairness

(* Types of the controller's state. *)
CtlTypeOK ==
    /\ ctlSrv \in 0..ctlStarted /\ ctlTarget \in 0..ctlStarted
    /\ ctlServe \in [Servers -> {"none", "spawned", "listen", "retry", "serving", "exit", "done"}]
    /\ ctlRetries \in [Servers -> 0..MaxRetries]
    /\ ctlTask \in {"idle", "starting", "stopping"}
    /\ ctlShutdown \in {"none", "begin", "wait", "done"}

(* No server listens out of reach: the one that listens is the one that    *)
(* controller.srv names, so that a stop can reach it, and once a stop has  *)
(* returned and no start has begun since, nothing listens.                 *)
NoServerOutOfReach ==
    /\ CtlTypeOK
    /\ \A g \in Servers : ctlServe[g] \in {"listen", "serving"} => ctlSrv = g
    /\ (ctlTask = "idle" /\ ctlAsked = "down") =>
         \A g \in Servers : ctlServe[g] \notin {"listen", "serving"}

(* Starts and stops return, whatever the server and its requests do. *)
CtlTaskReturns == ctlTask # "idle" ~> ctlTask = "idle" \/ ctlPanicked

(* The comments in startController and stopController: waiting for the     *)
(* server to start and to stop prevents "misbehavior on immediate          *)
(* shutdown" and "on immediate start".  After a finished start the server  *)
(* is up, unless it failed by itself.                                      *)
ImmediateStartServes ==
    (ctlTask = "idle" /\ ctlAsked = "up" /\ ~ctlFailed) => ctlSrv # 0
=============================================================================
