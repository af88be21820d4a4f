------------------------------ MODULE GWClient ------------------------------
(***************************************************************************)
(* sdk/clients/gwClient.go: requests of several clients that share one     *)
(* token (same AppName, UserName and HostName).  A request that is         *)
(* answered 401 makes its client Connect and is sent once more.  The       *)
(* Groundwork server is external: it issues tokens on login, which may end *)
(* the sessions of before, forgets them at any time and answers with any   *)
(* status.                                                                 *)
(***************************************************************************)
EXTENDS Integers, Sequences

CONSTANTS
    Senders,        \* goroutines that send requests (handlers of durables)
    NoSender,
    MaxRequests,    \* bound: requests of all senders
    MaxExpiries     \* bound: times the server forgets its tokens

ASSUME GWAssumption == NoSender \notin Senders /\ MaxRequests \in Nat /\ MaxExpiries \in Nat

VARIABLES
    gwToken,        \* tokens[tokenKey()], 0: none
    gwMutex,        \* connectMu[tokenKey()]: its holder
    gwPc,           \* sender -> where it is in SendRequest
    gwUsed,         \* sender -> token in the headers of its request
    gwPrev,         \* sender -> prevToken of Connect
    gwResult,       \* sender -> class of the last result
    gwRequests,
    gwValid,        \* server: the tokens it accepts
    gwIssued,       \* server: number of tokens issued
    gwExpiries,
    gwDisturbed,    \* sender -> the server forgot a token during its request
    gwReplaced      \* history: the tokens that logins replaced

gwVars == <<gwToken, gwMutex, gwPc, gwUsed, gwPrev, gwResult, gwRequests, gwValid,
            gwIssued, gwExpiries, gwDisturbed, gwReplaced>>
gwServer == <<gwValid, gwIssued, gwExpiries>>
gwHistory == <<gwDisturbed, gwReplaced>>

(* sdk/errors: DNS, connection and timeout errors are "down", other errors *)
(* of the HTTP client "broken".                                            *)
TransportErrors == {"down", "broken"}
Statuses == {"200", "401", "404", "500", "502", "503", "504"}

IsErrorDown(e) == e = "down"

(* The switch that ends SendRequest, Connect and AuthenticatePassword: the *)
(* error a status or a failure of the HTTP client becomes.                 *)
ErrorOf(answer) ==
    CASE answer \in TransportErrors -> IF IsErrorDown(answer) THEN "ErrTransient" ELSE "err"
      [] answer = "401" -> "ErrUnauthorized"
      [] answer = "404" -> "ErrNotFound"
      [] answer \in {"502", "504"} -> "ErrGateway"
      [] answer = "503" -> "ErrSynchronizer"
      [] answer = "200" -> "nil"
      [] OTHER -> "ErrUndecided"

(* The errors wrapped around ErrTransient: the dispatcher retries them. *)
IsTransient(error) == error \in {"ErrTransient", "ErrGateway", "ErrSynchronizer"}

(* Login fails like a request; a 404 that names the password is taken for  *)
(* 401, a 200 with a body that is no user is undecided.                    *)
LoginErrors ==
    {ErrorOf(a) : a \in TransportErrors \cup (Statuses \ {"200"})} \cup {"ErrUndecided"}

GWInit ==
    /\ gwToken = 0 /\ gwMutex = NoSender /\ gwRequests = 0
    /\ gwPc = [s \in Senders |-> "idle"]
    /\ gwUsed = [s \in Senders |-> 0]
    /\ gwPrev = [s \in Senders |-> 0]
    /\ gwResult = [s \in Senders |-> "nil"]
    /\ gwValid = {} /\ gwIssued = 0 /\ gwExpiries = 0
    /\ gwDisturbed = [s \in Senders |-> FALSE]
    /\ gwReplaced = <<>>

GWGoto(s, l) == gwPc' = [gwPc EXCEPT ![s] = l]

GWReturn(s, error) == GWGoto(s, "idle") /\ gwResult' = [gwResult EXCEPT ![s] = error]

(* SendRequest reads the token into the headers and sends. *)
SendRequest(s) ==
    /\ gwPc[s] = "idle" /\ gwRequests < MaxRequests
    /\ gwRequests' = gwRequests + 1
    /\ gwUsed' = [gwUsed EXCEPT ![s] = gwToken]
    /\ gwDisturbed' = [gwDisturbed EXCEPT ![s] = FALSE]
    /\ gwResult' = [gwResult EXCEPT ![s] = "nil"]
    /\ GWGoto(s, "sent")
    /\ UNCHANGED <<gwToken, gwMutex, gwPrev, gwServer, gwReplaced>>

(* External: what the server, or the network, answers to a token. *)
AnswersTo(token) ==
    TransportErrors \cup (IF token \in gwValid THEN Statuses \ {"401"} ELSE {"401", "502", "503"})

(* The answer of the first attempt: 401 leads to Connect, all else ends.   *)
(* A request cancelled with its context is transient.                      *)
Answered(s, answer) ==
    /\ gwPc[s] = "sent"
    /\ answer \in AnswersTo(gwUsed[s])
    /\ IF answer = "401" THEN GWGoto(s, "connect") /\ UNCHANGED gwResult
                       ELSE GWReturn(s, ErrorOf(answer))
    /\ UNCHANGED <<gwToken, gwMutex, gwUsed, gwPrev, gwRequests, gwServer, gwHistory>>

(* Connect reads prevToken before it waits for the mutex. *)
ConnectRead(s) ==
    /\ gwPc[s] = "connect"
    /\ gwPrev' = [gwPrev EXCEPT ![s] = gwToken]
    /\ GWGoto(s, "lock")
    /\ UNCHANGED <<gwToken, gwMutex, gwUsed, gwResult, gwRequests, gwServer, gwHistory>>

(* With the mutex: return if another client changed the token meanwhile. *)
TokenChanged(s) == gwPrev[s] # gwToken

\* Mutant of ConnectLock: no second look at the token.
ConnectLockBlindly(s) ==
    /\ gwPc[s] = "lock" /\ gwMutex = NoSender
    /\ gwMutex' = s /\ GWGoto(s, "login")
    /\ UNCHANGED <<gwToken, gwUsed, gwPrev, gwResult, gwRequests, gwServer, gwHistory>>

ConnectLock(s) ==
    /\ gwPc[s] = "lock" /\ gwMutex = NoSender
    /\ IF TokenChanged(s) THEN GWGoto(s, "resend") /\ UNCHANGED gwMutex
                          ELSE GWGoto(s, "login") /\ gwMutex' = s
    /\ UNCHANGED <<gwToken, gwUsed, gwPrev, gwResult, gwRequests, gwServer, gwHistory>>

(* External: the server issues a new token.  It keeps the others or ends   *)
(* their sessions, which takes the token from requests sent again with it. *)
TokenIssued ==
    /\ gwIssued' = gwIssued + 1
    /\ \/ gwValid' = gwValid \cup {gwIssued'} /\ UNCHANGED gwDisturbed
       \/ /\ gwValid' = {gwIssued'}
          /\ gwDisturbed' = [r \in Senders |-> gwDisturbed[r] \/ gwPc[r] = "resent"]

\* Mutant of LoginOk: the mutex is not given back.
LoginOkKeepsMutex(s) ==
    /\ gwPc[s] = "login"
    /\ TokenIssued
    /\ gwToken' = gwIssued'
    /\ gwReplaced' = Append(gwReplaced, gwPrev[s])
    /\ GWGoto(s, "resend")
    /\ UNCHANGED <<gwMutex, gwUsed, gwPrev, gwResult, gwRequests, gwExpiries>>

(* connectLocal or AuthenticatePassword succeeds and the token is stored. *)
LoginOk(s) ==
    /\ gwPc[s] = "login"
    /\ TokenIssued
    /\ gwToken' = gwIssued'
    /\ gwMutex' = NoSender
    /\ gwReplaced' = Append(gwReplaced, gwPrev[s])
    /\ GWGoto(s, "resend")
    /\ UNCHANGED <<gwUsed, gwPrev, gwResult, gwRequests, gwExpiries>>

(* The login fails: SendRequest returns its error and keeps the old token. *)
LoginFails(s, error) ==
    /\ gwPc[s] = "login"
    /\ gwMutex' = NoSender
    /\ GWReturn(s, error)
    /\ UNCHANGED <<gwToken, gwUsed, gwPrev, gwRequests, gwServer, gwHistory>>

(* The second attempt, with the token of now. *)
Resend(s) ==
    /\ gwPc[s] = "resend"
    /\ gwUsed' = [gwUsed EXCEPT ![s] = gwToken]
    /\ GWGoto(s, "resent")
    /\ UNCHANGED <<gwToken, gwMutex, gwPrev, gwResult, gwRequests, gwServer, gwHistory>>

(* Its answer ends the request, 401 as ErrUnauthorized. *)
AnsweredAgain(s, answer) ==
    /\ gwPc[s] = "resent"
    /\ answer \in AnswersTo(gwUsed[s])
    /\ GWReturn(s, IF answer = "401" THEN "ErrUnauthorized:resent" ELSE ErrorOf(answer))
    /\ UNCHANGED <<gwToken, gwMutex, gwUsed, gwPrev, gwRequests, gwServer, gwHistory>>

(* External: the server forgets the tokens (restart, end of a session, a   *)
(* login whose answer was lost).                                           *)
ServerForgets ==
    /\ gwExpiries < MaxExpiries /\ gwValid # {}
    /\ gwExpiries' = gwExpiries + 1
    /\ gwValid' = {}
    /\ gwDisturbed' = [s \in Senders |-> TRUE]
    /\ UNCHANGED <<gwToken, gwMutex, gwPc, gwUsed, gwPrev, gwResult, gwRequests, gwIssued,
                   gwReplaced>>

SenderStep(s) ==
    \/ \E a \in TransportErrors \cup Statuses : Answered(s, a) \/ AnsweredAgain(s, a)
    \/ ConnectRead(s)
    \/ LoginOk(s)
    \/ \E e \in LoginErrors : LoginFails(s, e)
    \/ Resend(s)

GWNext ==
    \/ \E s \in Senders : SendRequest(s) \/ SenderStep(s) \/ ConnectLock(s)
    \/ ServerForgets

(* HTTP requests time out, and a waiter for a Go mutex gets it. *)
GWFairness ==
    \A s \in Senders : WF_gwVars(SenderStep(s)) /\ SF_gwVars(ConnectLock(s))

GWSpec == GWInit /\ [][GWNext]_gwVars /\ GWFairness

(* Types of the client's state. *)
GWTypeOK ==
    /\ gwToken \in 0..gwIssued /\ gwValid \subseteq 1..gwIssued
    /\ gwMutex \in Senders \cup {NoSender}
    /\ gwPc \in [Senders -> {"idle", "sent", "connect", "lock", "login", "resend", "resent"}]
    /\ gwUsed \in [Senders -> 0..gwIssued] /\ gwPrev \in [Senders -> 0..gwIssued]

(* A request fails with ErrUnauthorized after its reconnect, which stops   *)
(* the transport, only if the server forgot its tokens while the request   *)
(* was under way, or ended its session for the login of another client     *)
(* after it was sent again.  Logins before that never make it fail, though *)
(* prevToken is read without the mutex (line 151): a client whose 401 is   *)
(* older than a login takes the new token or logs in once more.  And each  *)
(* token is replaced by one login, however many requests it failed.        *)
ReconnectIsEnough ==
    /\ GWTypeOK
    /\ \A s \in Senders : gwResult[s] = "ErrUnauthorized:resent" => gwDisturbed[s]
    /\ \A i, j \in DOMAIN gwReplaced : gwReplaced[i] = gwReplaced[j] => i = j

(* Every request returns, whoever holds the mutex of Connect. *)
RequestReturns == \A s \in Senders : gwPc[s] # "idle" ~> gwPc[s] = "idle"
=============================================================================
