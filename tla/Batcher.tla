------------------------------- MODULE Batcher -------------------------------
(***************************************************************************)
(* batcher/batcher.go: payloads are buffered by Add and handed to a handler*)
(* in batches, by the ticker goroutine, by an Add that passed the soft     *)
(* limit, by Reset and by direct calls of Batch.  The buffer is swapped    *)
(* under bt.mu; the size check of Add, the build and the handler calls run *)
(* outside the lock, so batches of several goroutines overlap.             *)
(*                                                                         *)
(* A payload is a model value with a size.  Build splits the payloads that *)
(* are longer than the limit and combines the others; the parts of a split *)
(* payload go ahead of payloads that wait to be combined.  A handler call  *)
(* takes any nonempty prefix of what is left of the built batch (the       *)
(* builders themselves are modelled in EventsBuild and MetricsBuild).      *)
(***************************************************************************)
EXTENDS Naturals, Sequences, SequencesExt

CONSTANTS
    Callers,        \* goroutines using the batcher
    Ticker,         \* the goroutine started by NewBatcher
    Payloads,       \* what is added; each once
    Size,           \* payload -> its length
    Limits,         \* values of maxBytes the configuration gives
    MaxCalls        \* bound: calls of Batch, Clear, Reset and Exit

ASSUME ProcsAssumption == Ticker \notin Callers
ASSUME SizeAssumption == Size \in [Payloads -> Nat \ {0}]
ASSUME LimitsAssumption == Limits \subseteq Nat /\ Limits # {}
ASSUME CallsAssumption == MaxCalls \in Nat

Procs == Callers \cup {Ticker}

VARIABLES
    buf,            \* bt.buf
    bufSize,        \* bt.bufSize
    maxBytes,       \* bt.maxBytes
    ticking,        \* the ticker has a finite period
    tickerExit,     \* number of values in bt.tickerExit, a channel of one
    pc,             \* process -> idle, check, swap, build, send, apply, exit, halted
    op,             \* process -> what goes on after Batch: none, reset or exit
    local,          \* process -> what is left of the batch it swapped out
    conf,           \* process -> arguments of its Reset, NoConf outside
    calls,          \* calls made of MaxCalls
    added,          \* history: payloads in the order of Add
    sent,           \* history: payloads in the order of the handler calls
    failed,         \* history: payloads Build dropped or whose handler call failed
    cleared,        \* history: payloads dropped by Clear
    batch,          \* history: payload -> Len(added) when it was swapped out
    split,          \* history: payloads that Build split
    overlapped      \* history: a batch was swapped out while another was sent

procVars == <<pc, op, local, conf>>
history == <<added, sent, failed, cleared, batch, split, overlapped>>
vars == <<buf, bufSize, maxBytes, ticking, tickerExit, procVars, calls, history>>

Confs == [maxBytes : Limits, ticking : BOOLEAN]
NoConf == CHOOSE k \in Confs : TRUE

(* NewBatcher: d = 0 gives a ticker that never ticks. *)
Init ==
    /\ buf = <<>>
    /\ bufSize = 0
    /\ maxBytes \in Limits
    /\ ticking \in BOOLEAN
    /\ tickerExit = 0
    /\ pc = [p \in Procs |-> "idle"]
    /\ op = [p \in Procs |-> "none"]
    /\ local = [p \in Procs |-> <<>>]
    /\ conf = [p \in Procs |-> NoConf]
    /\ calls = 0
    /\ added = <<>>
    /\ sent = <<>>
    /\ failed = {}
    /\ cleared = {}
    /\ batch = [x \in Payloads |-> 0]
    /\ split = {}
    /\ overlapped = FALSE

-----------------------------------------------------------------------------
(* Add *)

(* Mutant of BufWith: the newest payload comes first. *)
BufWithFront(x) == <<x>> \o buf

BufWith(x) == Append(buf, x)

(* The payload is appended under the lock. *)
Add(c, x) ==
    /\ pc[c] = "idle"
    /\ \A i \in 1 .. Len(added) : added[i] # x
    /\ buf' = BufWith(x)
    /\ bufSize' = bufSize + Size[x]
    /\ added' = Append(added, x)
    /\ pc' = [pc EXCEPT ![c] = "check"]
    /\ UNCHANGED <<maxBytes, ticking, tickerExit, op, local, conf, calls, sent,
                   failed, cleared, batch, split, overlapped>>

(* Mutant of OverLimit: off by one. *)
OverLimitLate == bufSize > maxBytes + 1

OverLimit == bufSize > maxBytes

(* The size is compared after the lock was released. *)
AddCheck(c) ==
    /\ pc[c] = "check"
    /\ pc' = [pc EXCEPT ![c] = IF OverLimit THEN "swap" ELSE "idle"]
    /\ UNCHANGED <<buf, bufSize, maxBytes, ticking, tickerExit, op, local,
                   conf, calls, history>>

-----------------------------------------------------------------------------
(* Batch *)

BatchCall(c) ==
    /\ pc[c] = "idle"
    /\ calls < MaxCalls
    /\ calls' = calls + 1
    /\ pc' = [pc EXCEPT ![c] = "swap"]
    /\ UNCHANGED <<buf, bufSize, maxBytes, ticking, tickerExit, op, local, conf, history>>

(* Where a process continues after its batch. *)
After(p) ==
    CASE op[p] = "reset" -> "apply"
      [] op[p] = "exit"  -> "halted"
      [] OTHER           -> "idle"

(* Mutant of Swap: the buffer is read but not replaced. *)
SwapKeeps(p) ==
    /\ pc[p] = "swap"
    /\ local' = [local EXCEPT ![p] = buf]
    /\ pc' = [pc EXCEPT ![p] = IF buf = <<>> THEN After(p) ELSE "build"]
    /\ batch' = [x \in Payloads |-> IF Contains(buf, x) THEN Len(added) ELSE batch[x]]
    /\ overlapped' = (overlapped \/ \E q \in Procs : local[q] # <<>>)
    /\ UNCHANGED <<buf, bufSize, maxBytes, ticking, tickerExit, op, conf, calls,
                   added, sent, failed, cleared, split>>

(* The buffer is taken and emptied under the lock. *)
Swap(p) ==
    /\ pc[p] = "swap"
    /\ local' = [local EXCEPT ![p] = buf]
    /\ buf' = <<>>
    /\ bufSize' = 0
    /\ pc' = [pc EXCEPT ![p] = IF buf = <<>> THEN After(p) ELSE "build"]
    /\ batch' = [x \in Payloads |-> IF Contains(buf, x) THEN Len(added) ELSE batch[x]]
    /\ overlapped' = (overlapped \/ \E q \in Procs : local[q] # <<>>)
    /\ UNCHANGED <<maxBytes, ticking, tickerExit, op, conf, calls, added, sent,
                   failed, cleared, split>>

Distinct(s) == \A i, j \in 1 .. Len(s) : s[i] = s[j] => i = j
Before(x, y, s) == \E i, j \in 1 .. Len(s) : i < j /\ s[i] = x /\ s[j] = y

(* The payloads of s that are longer than the limit.                       *)
TooLong(s) == {x \in ToSet(s) : Size[x] > maxBytes}

(* The orders in which a builder may put the payloads of s: only one that  *)
(* is split comes ahead of others, which wait to be combined.              *)
Builds(s, long) ==
    {t \in [1 .. Len(s) -> ToSet(s)] :
        /\ Distinct(t) /\ ToSet(t) = ToSet(s)
        /\ \A x, y \in ToSet(s) :
            Before(x, y, s) => Before(x, y, t) \/ (y \in long /\ x \notin long)}

(* Build, outside the lock, with the limit of now.                         *)
Build(p) ==
    /\ pc[p] = "build"
    /\ \E t \in Builds(local[p], TooLong(local[p])) : local' = [local EXCEPT ![p] = t]
    /\ split' = split \cup TooLong(local[p])
    /\ pc' = [pc EXCEPT ![p] = "send"]
    /\ UNCHANGED <<buf, bufSize, maxBytes, ticking, tickerExit, op, conf, calls,
                   added, sent, failed, cleared, batch, overlapped>>

(* What the loop over the built payloads still has to do. *)
RestOf(s, n, ok) == SubSeq(s, n + 1, Len(s))

(* One handler call, for a combined payload of the first n payloads left;  *)
(* an error is logged and the loop goes on.                                *)
Handle(p, n, ok) ==
    LET part == SubSeq(local[p], 1, n)
        rest == RestOf(local[p], n, ok)
    IN  /\ pc[p] = "send"
        /\ sent' = IF ok THEN sent \o part ELSE sent
        /\ failed' = IF ok THEN failed ELSE failed \cup ToSet(part)
        /\ local' = [local EXCEPT ![p] = rest]
        /\ pc' = [pc EXCEPT ![p] = IF rest = <<>> THEN After(p) ELSE "send"]
        /\ UNCHANGED <<buf, bufSize, maxBytes, ticking, tickerExit, op, conf,
                       calls, added, cleared, batch, split, overlapped>>

-----------------------------------------------------------------------------
(* Clear, Reset, Exit *)

Clear(c) ==
    /\ pc[c] = "idle"
    /\ calls < MaxCalls
    /\ calls' = calls + 1
    /\ cleared' = cleared \cup ToSet(buf)
    /\ buf' = <<>>
    /\ bufSize' = 0
    /\ UNCHANGED <<maxBytes, ticking, tickerExit, procVars, added, sent,
                   failed, batch, split, overlapped>>

(* Reset runs Batch first, *)
ResetCall(c, k) ==
    /\ pc[c] = "idle"
    /\ calls < MaxCalls
    /\ calls' = calls + 1
    /\ pc' = [pc EXCEPT ![c] = "swap"]
    /\ op' = [op EXCEPT ![c] = "reset"]
    /\ conf' = [conf EXCEPT ![c] = k]
    /\ UNCHANGED <<buf, bufSize, maxBytes, ticking, tickerExit, local, history>>

(* then writes maxBytes without the lock and resets the ticker. *)
ResetApply(c) ==
    /\ pc[c] = "apply"
    /\ maxBytes' = conf[c].maxBytes
    /\ ticking' = conf[c].ticking
    /\ conf' = [conf EXCEPT ![c] = NoConf]
    /\ op' = [op EXCEPT ![c] = "none"]
    /\ pc' = [pc EXCEPT ![c] = "idle"]
    /\ UNCHANGED <<buf, bufSize, tickerExit, local, calls, history>>

ExitCall(c) ==
    /\ pc[c] = "idle"
    /\ calls < MaxCalls
    /\ calls' = calls + 1
    /\ pc' = [pc EXCEPT ![c] = "exit"]
    /\ UNCHANGED <<buf, bufSize, maxBytes, ticking, tickerExit, op, local,
                   conf, history>>

(* The send blocks while the channel holds an unread value. *)
ExitSend(c) ==
    /\ pc[c] = "exit"
    /\ tickerExit = 0
    /\ tickerExit' = 1
    /\ pc' = [pc EXCEPT ![c] = "idle"]
    /\ UNCHANGED <<buf, bufSize, maxBytes, ticking, op, local, conf, calls, history>>

-----------------------------------------------------------------------------
(* The ticker goroutine *)

Tick ==
    /\ pc[Ticker] = "idle"
    /\ ticking
    /\ pc' = [pc EXCEPT ![Ticker] = "swap"]
    /\ UNCHANGED <<buf, bufSize, maxBytes, ticking, tickerExit, op, local, conf,
                   calls, history>>

(* Mutant of TickerExits: the goroutine returns without a last batch. *)
TickerExitsAtOnce ==
    /\ pc[Ticker] = "idle"
    /\ tickerExit = 1
    /\ tickerExit' = 0
    /\ pc' = [pc EXCEPT ![Ticker] = "halted"]
    /\ op' = [op EXCEPT ![Ticker] = "exit"]
    /\ UNCHANGED <<buf, bufSize, maxBytes, ticking, local, conf, calls, history>>

TickerExits ==
    /\ pc[Ticker] = "idle"
    /\ tickerExit = 1
    /\ tickerExit' = 0
    /\ pc' = [pc EXCEPT ![Ticker] = "swap"]
    /\ op' = [op EXCEPT ![Ticker] = "exit"]
    /\ UNCHANGED <<buf, bufSize, maxBytes, ticking, local, conf, calls, history>>

-----------------------------------------------------------------------------
HandleStep(p) == \E n \in 1 .. Len(local[p]), ok \in BOOLEAN : Handle(p, n, ok)

CallerStep(c) ==
    \/ \E x \in Payloads : Add(c, x)
    \/ AddCheck(c)
    \/ BatchCall(c)
    \/ Clear(c)
    \/ \E k \in Confs : ResetCall(c, k)
    \/ ResetApply(c)
    \/ ExitCall(c)
    \/ ExitSend(c)

Next ==
    \/ \E c \in Callers : CallerStep(c)
    \/ \E p \in Procs : Swap(p) \/ Build(p) \/ HandleStep(p)
    \/ Tick
    \/ TickerExits

(* Goroutines that started an operation are scheduled and handlers return; *)
(* the ticker ticks; select serves a pending exit although ticks compete   *)
(* with it (Go picks at random among ready cases).                         *)
Fairness ==
    /\ \A c \in Callers : WF_vars(AddCheck(c)) /\ WF_vars(ResetApply(c))
    /\ \A p \in Procs : WF_vars(Swap(p)) /\ WF_vars(Build(p)) /\ WF_vars(HandleStep(p))
    /\ WF_vars(Tick)
    /\ SF_vars(TickerExits)

Spec == Init /\ [][Next]_vars
FairSpec == Spec /\ Fairness

-----------------------------------------------------------------------------
(* Properties *)

(* Types of the batcher's state. *)
TypeOK ==
    /\ buf \in Seq(Payloads)
    /\ bufSize \in Nat
    /\ maxBytes \in Limits
    /\ ticking \in BOOLEAN
    /\ tickerExit \in {0, 1}
    /\ pc \in [Procs -> {"idle", "check", "swap", "build", "send", "apply", "exit", "halted"}]
    /\ op \in [Procs -> {"none", "reset", "exit"}]
    /\ local \in [Procs -> Seq(Payloads)]
    /\ conf \in [Procs -> Confs]
    /\ calls \in 0 .. MaxCalls
    /\ added \in Seq(Payloads)
    /\ sent \in Seq(Payloads)
    /\ failed \subseteq Payloads
    /\ cleared \subseteq Payloads
    /\ batch \in [Payloads -> Nat]
    /\ split \subseteq Payloads
    /\ overlapped \in BOOLEAN

(* Nothing is lost between Add and the handler: a payload given to Add is  *)
(* buffered, in a batch on its way to the handler, handled or failed, or   *)
(* was dropped by Clear, which only Clear does.                            *)
NothingLost ==
    \A x \in Payloads : Contains(added, x) =>
        \/ Contains(buf, x)
        \/ \E p \in Procs : Contains(local[p], x)
        \/ Contains(sent, x)
        \/ x \in failed \cup cleared

(* No payload is handed over twice: the swap under the lock gives each     *)
(* payload to one of the overlapping Batch calls, and what was sent,       *)
(* failed or cleared is gone from the buffer and from every batch.         *)
NothingDuplicated ==
    /\ Distinct(buf) /\ Distinct(sent)
    /\ \A p \in Procs : Distinct(local[p])
    /\ \A x \in Payloads :
        /\ Contains(buf, x) => \A p \in Procs : ~Contains(local[p], x)
        /\ \A p, q \in Procs : p # q /\ Contains(local[p], x) => ~Contains(local[q], x)
        /\ Contains(sent, x) \/ x \in failed \cup cleared =>
            ~Contains(buf, x) /\ \A p \in Procs : ~Contains(local[p], x)
        /\ Contains(sent, x) => x \notin failed \cup cleared

(* Every payload given to Add is in one place, whatever overlaps: nothing  *)
(* is lost and nothing is handed over twice.                               *)
CarriedOnce == TypeOK /\ NothingLost /\ NothingDuplicated

(* The sizes of the payloads of s, added up. *)
SizeOf(s) ==
    LET total[i \in 0 .. Len(s)] == IF i = 0 THEN 0 ELSE total[i - 1] + Size[s[i]]
    IN  total[Len(s)]

(* bufSize is the size of what is buffered, whoever emptied the buffer.    *)
SizeMatches == bufSize = SizeOf(buf)

(* The soft limit: a buffer beyond every configured limit is about to be   *)
(* flushed, by the Add that went over or by another one, although the size *)
(* is compared after the lock was released (line 114).                     *)
OverLimitIsFlushed ==
    (\A l \in Limits : bufSize > l) => \E p \in Procs : pc[p] \in {"check", "swap"}

(* The size the limit is compared with is the buffer's, and an excess is   *)
(* always on its way out.                                                  *)
LimitHeld == SizeMatches /\ OverLimitIsFlushed

(* Unless two batches overlapped, payloads reach the handler in the order  *)
(* of Add, whoever flushes them and whatever Reset makes of the limit, but *)
(* for a payload that Build split: it may overtake payloads of its own     *)
(* batch that were not (events.go:24, metrics.go:24).                      *)
Overtakes(y, x) == y \in split /\ x \notin split /\ batch[x] = batch[y]
InOrderWithoutOverlap ==
    ~overlapped =>
        \A x, y \in ToSet(sent) :
            Before(x, y, added) => Before(x, y, sent) \/ Overtakes(y, x)

Settled(x) == Contains(sent, x) \/ x \in failed \cup cleared
TickerRuns == ticking /\ op[Ticker] # "exit"

(* While the ticker runs, what is buffered reaches the handler or Clear.   *)
TickerFlushes ==
    \A x \in Payloads : Contains(buf, x) /\ TickerRuns ~> Settled(x) \/ ~TickerRuns

(* Exit flushes: what is buffered when the ticker goroutine still has an   *)
(* exit to serve reaches the handler, even when the ticker has no period.  *)
ExitFlushes ==
    \A x \in Payloads :
        Contains(buf, x) /\ tickerExit = 1 /\ op[Ticker] # "exit" ~> Settled(x)

(* What is buffered does not stay: the ticker or the last flush of Exit    *)
(* hands it over.                                                          *)
Flushes == TickerFlushes /\ ExitFlushes
=============================================================================
