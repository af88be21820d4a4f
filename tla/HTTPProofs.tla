----------------------------- MODULE HTTPProofs -----------------------------
(* Proofs about the two ends of the HTTP traffic.  The server: Controller, *)
(* for any number of starts, stops and retries, and ControllerAuth, for    *)
(* every set of requests and keys, any number of config tasks and whatever *)
(* the servers accept.  The client: GWClient, for every set of senders and *)
(* any number of requests and of expiries, and TransitPath, the way of a   *)
(* payload to the client, for every set of configurations and of lengths.  *)
EXTENDS Controller, ControllerAuth, GWClient, TransitPath, SequenceTheorems,
        WellFoundedInduction, TLAPS

-----------------------------------------------------------------------------
(* The inductive invariant of the start and stop tasks *)

(* Goroutines are numbered as they are started, and only one that may      *)
(* retry waits to.                                                         *)
CtlCounts ==
    /\ ctlStarted \in 0 .. MaxServers
    /\ \A g \in Servers :
         /\ ctlServe[g] # "none" => g <= ctlStarted
         /\ ctlServe[g] = "retry" => ctlRetries[g] < MaxRetries

(* A goroutine between its two assignments to controller.srv owns it.      *)
Owned == {"listen", "retry", "serving", "exit"}
OwnsSrv == \A g \in Servers : ctlServe[g] \in Owned => ctlSrv = g

(* A start is not over before its goroutine has listened or given up, and  *)
(* begins with controller.srv nil.                                         *)
StartWaits ==
    \A g \in Servers :
        /\ ctlServe[g] \in {"spawned", "listen", "retry"} =>
             ctlTask = "starting" /\ g = ctlStarted
        /\ ctlServe[g] = "spawned" => ctlSrv = 0

(* The shutdown goroutine belongs to a stop under way; the server it shuts *)
(* down is the only one that serves, and none serves when it is done.      *)
ShutdownReaches ==
    /\ ctlShutdown # "none" => ctlTask = "stopping"
    /\ ctlShutdown = "wait" => ctlTarget \in Servers
    /\ \A g \in Servers : ctlServe[g] = "serving" =>
         /\ ctlShutdown = "wait" => g = ctlTarget
         /\ ctlShutdown # "done"
         /\ ~(ctlTask = "idle" /\ ctlAsked = "down")

(* The inductive invariant of Controller.                                  *)
CtlInv == CtlTypeOK /\ CtlCounts /\ OwnsSrv /\ StartWaits /\ ShutdownReaches

-----------------------------------------------------------------------------
(* Every step of a task, of a serve goroutine and of the shutdown keeps    *)
(* the invariant.                                                          *)
LEMMA CtlStep == CtlInv /\ [CtlNext]_ctlVars => CtlInv'
  <1> SUFFICES ASSUME CtlInv, [CtlNext]_ctlVars PROVE CtlInv'
    OBVIOUS
  <1> USE CtlAssumption DEF CtlInv, CtlTypeOK, CtlCounts, OwnsSrv, StartWaits, ShutdownReaches,
          Owned, Servers, ServeTo, ctlStop
  <1>1. CASE StartController
    BY <1>1, SMTT(30) DEF StartController
  <1>2. CASE StartReturns
    BY <1>2 DEF StartReturns
  <1>3. CASE StopController
    BY <1>3 DEF StopController
  <1>4. CASE ShutdownBegin
    BY <1>4 DEF ShutdownBegin
  <1>5. CASE ShutdownEnds
    BY <1>5 DEF ShutdownEnds
  <1>6. CASE StopReturns
    BY <1>6 DEF StopReturns
  <1>7. ASSUME NEW g \in Servers, NewServer(g) PROVE CtlInv'
    BY <1>7 DEF NewServer
  <1>8. ASSUME NEW g \in Servers, ListenServe(g) PROVE CtlInv'
    BY <1>8 DEF ListenServe
  <1>9. ASSUME NEW g \in Servers, RetryListen(g) PROVE CtlInv'
    BY <1>9 DEF RetryListen
  <1>10. ASSUME NEW g \in Servers, ServeReturns(g) PROVE CtlInv'
    BY <1>10 DEF ServeReturns
  <1>11. ASSUME NEW g \in Servers, ServeEnds(g) PROVE CtlInv'
    BY <1>11 DEF ServeEnds
  <1>12. ASSUME NEW g \in Servers, Request(g) PROVE CtlInv'
    BY <1>12 DEF Request
  <1>13. CASE UNCHANGED ctlVars
    BY <1>13 DEF ctlVars
  <1>14. QED
    BY <1>1, <1>2, <1>3, <1>4, <1>5, <1>6, <1>7, <1>8, <1>9, <1>10, <1>11, <1>12, <1>13
       DEF CtlNext, ServeStep

(* The server that listens is the one controller.srv names, and after a    *)
(* stop none listens, though controller.srv is shared without a lock       *)
(* (startController and stopController).                                   *)
THEOREM ServersInReach == CtlSpec => []NoServerOutOfReach
  <1>1. CtlInit => CtlInv
    BY CtlAssumption DEF CtlInit, CtlInv, CtlTypeOK, CtlCounts, OwnsSrv, StartWaits,
          ShutdownReaches, Owned, Servers
  <1>2. CtlInv => NoServerOutOfReach
    BY DEF CtlInv, OwnsSrv, Owned, StartWaits, ShutdownReaches, NoServerOutOfReach
  <1>3. QED
    BY <1>1, <1>2, CtlStep, PTL DEF CtlSpec

-----------------------------------------------------------------------------
(* The inductive invariant of the authorization cache *)

(* What a request can be answered.                                         *)
Answers == {"none", "empty config", "pin", "misconfigured", "cached", "validated",
            "already exists", "unauthorized", "server failed"}

(* What a request can be.                                                  *)
AuthRequests ==
    [pc : {"idle", "lock", "validate"}, key : Keys \cup {NoRequest}, scheme : Schemes,
     config : 0 .. MaxConfigs]

(* Types of the variables that AuthTypeOK leaves out.                      *)
AuthMoreTypes ==
    /\ authReq \in [Requests -> AuthRequests]
    /\ \A r \in Requests : authReq[r].pc # "idle" => authReq[r].key \in KeysOf(authReq[r].scheme)
    /\ authVia \in [Keys -> Schemes]
    /\ authMutex \in [Schemes -> Requests \cup {NoRequest}]
    /\ authAnswer \in [Requests -> [why : Answers, key : Keys \cup {NoRequest}]]
    /\ authTask \in {"idle", "flush", "transport"}
    /\ authLate \subseteq Keys

(* A request that asks a server holds the mutex of its scheme, and its key *)
(* is not cached unless a request of the other scheme has added it.        *)
MissUnderMutex ==
    \A r \in Requests : authReq[r].pc = "validate" =>
        /\ authMutex[authReq[r].scheme] = r
        /\ ~Cached(authReq[r].key) \/ authReq[r].key \in BasicKeys \cap GwosKeys

(* A request asks the client in use, unless a task has replaced it since   *)
(* and the key is noted, or the cache is still to be flushed.              *)
LateIsNoted ==
    \A r \in Requests : authReq[r].pc = "validate" =>
        \/ authReq[r].key \in authLate
        \/ authTask = "flush"
        \/ authTask = "idle" /\ authReq[r].config = authConfig[authReq[r].scheme]

(* Once the cache is flushed only keys that are noted get into it before   *)
(* the task ends.                                                          *)
FlushedButLate ==
    authTask = "transport" => \A k \in Keys : Cached(k) => k \in authLate

(* The inductive invariant of ControllerAuth.                              *)
AuthInv ==
    /\ AuthTypeOK /\ AuthMoreTypes /\ AcceptedIsLetIn /\ CacheFollowsConfig
    /\ MissUnderMutex /\ LateIsNoted /\ FlushedButLate

-----------------------------------------------------------------------------
(* Every step of a request, of the cache and of the tasks keeps the        *)
(* invariant.                                                              *)
LEMMA AuthStep == AuthInv /\ [AuthNext]_authVars => AuthInv'
  <1> SUFFICES ASSUME AuthTypeOK, AuthMoreTypes, AcceptedIsLetIn, CacheFollowsConfig,
                      MissUnderMutex, LateIsNoted, FlushedButLate, [AuthNext]_authVars
               PROVE  AuthInv'
    BY DEF AuthInv
  <1> USE AuthAssumption
  <1>0. /\ Schemes = {"BASIC", "GWOS"}
        /\ \A s \in Schemes : KeysOf(s) \subseteq Keys
    BY DEF Schemes, KeysOf, Keys
  <1>a. IdleReq \in AuthRequests /\ IdleReq.pc = "idle"
    BY DEF IdleReq, AuthRequests, Schemes
  <1>b. ASSUME NEW r \in Requests, NEW why \in Answers, AnswerTo(r, why),
               why = "already exists" => authReq[r].key \in BasicKeys \cap GwosKeys
        PROVE  /\ authReq' \in [Requests -> AuthRequests] /\ authReq'[r].pc = "idle"
               /\ \A q \in Requests \ {r} : authReq'[q] = authReq[q]
               /\ authAnswer' \in [Requests -> [why : Answers, key : Keys \cup {NoRequest}]]
               /\ AcceptedIsLetIn'
    <2>1. authReq[r].key \in Keys \cup {NoRequest}
      BY DEF AuthMoreTypes, AuthRequests
    <2>2. authReq' = [authReq EXCEPT ![r] = IdleReq]
      BY <1>b DEF AnswerTo
    <2>3. authAnswer' = [authAnswer EXCEPT ![r] = [why |-> why, key |-> authReq[r].key]]
      BY <1>b DEF AnswerTo
    <2>4. authReq \in [Requests -> AuthRequests]
      BY DEF AuthMoreTypes
    <2>5. authReq' \in [Requests -> AuthRequests] /\ authReq'[r].pc = "idle"
      BY <1>a, <2>2, <2>4
    <2>6. \A q \in Requests \ {r} : authReq'[q] = authReq[q]
      BY <2>2, <2>4
    <2>7. authAnswer' \in [Requests -> [why : Answers, key : Keys \cup {NoRequest}]]
      BY <2>1, <2>3 DEF AuthMoreTypes
    <2>8. AcceptedIsLetIn'
      BY <1>b, <2>3 DEF AcceptedIsLetIn, AuthMoreTypes
    <2>9. QED
      BY <2>5, <2>6, <2>7, <2>8
  <1>1. ASSUME NEW r \in Requests, CheckAccessEarly(r) PROVE AuthInv'
    <2>0. PICK why \in Answers \ {"already exists"} : AnswerTo(r, why)
      BY <1>1 DEF CheckAccessEarly, Answers
    <2>1. /\ authReq' \in [Requests -> AuthRequests] /\ authReq'[r].pc = "idle"
          /\ \A q \in Requests \ {r} : authReq'[q] = authReq[q]
          /\ authAnswer' \in [Requests -> [why : Answers, key : Keys \cup {NoRequest}]]
          /\ AcceptedIsLetIn'
      BY <1>b, <2>0
    <2>2. UNCHANGED <<authCache, authVia, authConfig, authTask, authMutex, authLate>>
      BY <1>1 DEF CheckAccessEarly
    <2>3. AuthTypeOK'
      BY <1>0, <2>1, <2>2 DEF AuthTypeOK, AuthRequests
    <2>4. AuthMoreTypes'
      BY <1>0, <2>1, <2>2 DEF AuthMoreTypes
    <2>5. CacheFollowsConfig'
      BY <2>2 DEF CacheFollowsConfig, Cached
    <2>6. MissUnderMutex'
      BY <2>1, <2>2 DEF MissUnderMutex, Cached
    <2>7. LateIsNoted'
      BY <2>1, <2>2 DEF LateIsNoted
    <2>8. FlushedButLate'
      BY <2>2 DEF FlushedButLate, Cached
    <2>9. QED
      BY <2>1, <2>3, <2>4, <2>5, <2>6, <2>7, <2>8 DEF AuthInv
  <1>2. ASSUME NEW r \in Requests, NEW s \in Schemes, NEW k \in Keys, CheckAccess(r, s, k)
        PROVE  AuthInv'
    <2>1. /\ authReq' \in [Requests -> AuthRequests]
          /\ authReq'[r].pc = "idle" \/
             (authReq'[r].pc = "lock" /\ authReq'[r].key \in KeysOf(authReq'[r].scheme))
          /\ \A q \in Requests \ {r} : authReq'[q] = authReq[q]
          /\ authAnswer' \in [Requests -> [why : Answers, key : Keys \cup {NoRequest}]]
          /\ AcceptedIsLetIn'
      <3>1. CASE Cached(k)
        <4>1. AnswerTo(r, "cached") /\ "cached" \in Answers
          BY <3>1, <1>2 DEF CheckAccess, Answers
        <4>2. QED
          BY <4>1, <1>b
      <3>2. CASE ~Cached(k)
        <4> DEFINE q == [pc |-> "lock", key |-> k, scheme |-> s, config |-> 0]
        <4>1. authReq' = [authReq EXCEPT ![r] = q] /\ k \in KeysOf(s)
          BY <3>2, <1>2 DEF CheckAccess
        <4>2. q \in AuthRequests /\ q.pc = "lock" /\ q.key = k /\ q.scheme = s
          BY DEF AuthRequests
        <4>3. authAnswer' = [authAnswer EXCEPT ![r] = [why |-> "none", key |-> k]]
          BY <3>2, <1>2 DEF CheckAccess
        <4> HIDE DEF q
        <4>4. authAnswer' \in [Requests -> [why : Answers, key : Keys \cup {NoRequest}]]
          BY <4>3 DEF AuthMoreTypes, Answers
        <4>5. AcceptedIsLetIn'
          BY <4>3 DEF AcceptedIsLetIn, AuthMoreTypes
        <4>6. authReq \in [Requests -> AuthRequests]
          BY DEF AuthMoreTypes
        <4>7. QED
          BY <4>1, <4>2, <4>4, <4>5, <4>6
      <3>3. QED
        BY <3>1, <3>2
    <2>2. UNCHANGED <<authCache, authVia, authConfig, authTask, authMutex, authLate>>
      BY <1>2 DEF CheckAccess
    <2>3. AuthTypeOK'
      BY <1>0, <2>1, <2>2 DEF AuthTypeOK, AuthRequests
    <2>4. AuthMoreTypes'
      BY <1>0, <2>1, <2>2 DEF AuthMoreTypes
    <2>5. CacheFollowsConfig'
      BY <2>2 DEF CacheFollowsConfig, Cached
    <2>6. MissUnderMutex'
      BY <2>1, <2>2 DEF MissUnderMutex, Cached
    <2>7. LateIsNoted'
      BY <2>1, <2>2 DEF LateIsNoted
    <2>8. FlushedButLate'
      BY <2>2 DEF FlushedButLate, Cached
    <2>9. QED
      BY <2>1, <2>3, <2>4, <2>5, <2>6, <2>7, <2>8 DEF AuthInv
  <1>3. ASSUME NEW r \in Requests, LockAndLook(r) PROVE AuthInv'
    <2> DEFINE k == authReq[r].key  s == authReq[r].scheme
    <2>0. /\ authReq[r].pc = "lock" /\ authMutex[s] = NoRequest
          /\ s \in Schemes /\ k \in KeysOf(s) /\ k \in Keys /\ authConfig[s] \in 0 .. MaxConfigs
      BY <1>0, <1>3 DEF LockAndLook, AuthMoreTypes, AuthTypeOK, AuthRequests
    <2>1. UNCHANGED <<authCache, authVia, authConfig, authTask>>
      BY <1>3 DEF LockAndLook
    <2>2. CASE Cached(k)
      <3>1. /\ AnswerTo(r, "cached") /\ "cached" \in Answers
            /\ UNCHANGED <<authMutex, authLate>>
        BY <1>3, <2>2 DEF LockAndLook, Answers
      <3>2. /\ authReq' \in [Requests -> AuthRequests] /\ authReq'[r].pc = "idle"
            /\ \A q \in Requests \ {r} : authReq'[q] = authReq[q]
            /\ authAnswer' \in [Requests -> [why : Answers, key : Keys \cup {NoRequest}]]
            /\ AcceptedIsLetIn'
        BY <1>b, <3>1
      <3>3. AuthTypeOK'
        BY <1>0, <2>1, <3>1, <3>2 DEF AuthTypeOK, AuthRequests
      <3>4. AuthMoreTypes'
        BY <1>0, <2>1, <3>1, <3>2 DEF AuthMoreTypes
      <3>5. CacheFollowsConfig' /\ FlushedButLate'
        BY <2>1, <3>1 DEF CacheFollowsConfig, FlushedButLate, Cached
      <3>6. MissUnderMutex' /\ LateIsNoted'
        BY <2>1, <3>1, <3>2 DEF MissUnderMutex, LateIsNoted, Cached
      <3>7. QED
        BY <3>2, <3>3, <3>4, <3>5, <3>6 DEF AuthInv
    <2>3. CASE ~Cached(k)
      <3> DEFINE a == [pc |-> "validate", key |-> k, scheme |-> s, config |-> authConfig[s]]
      <3>1. /\ authMutex' = [authMutex EXCEPT ![s] = r]
            /\ authReq' = [authReq EXCEPT ![r] = a]
            /\ authLate' = (IF authTask = "transport" THEN authLate \cup {k} ELSE authLate)
            /\ UNCHANGED authAnswer
        BY <1>3, <2>3 DEF LockAndLook
      <3>2. a \in AuthRequests /\ a.pc = "validate" /\ a.key = k /\ a.scheme = s
            /\ a.config = authConfig[s]
        BY <2>0 DEF AuthRequests
      <3> HIDE DEF k, s, a
      <3>3. /\ authReq' \in [Requests -> AuthRequests] /\ authReq'[r] = a
            /\ \A q \in Requests \ {r} : authReq'[q] = authReq[q]
        BY <3>1, <3>2 DEF AuthMoreTypes
      <3>4. /\ authMutex' \in [Schemes -> Requests \cup {NoRequest}] /\ authMutex'[s] = r
            /\ \A x \in Schemes \ {s} : authMutex'[x] = authMutex[x]
        BY <2>0, <3>1 DEF AuthMoreTypes
      <3>5. AuthTypeOK'
        BY <1>0, <2>1, <3>3, <3>4 DEF AuthTypeOK, AuthRequests
      <3>6. AuthMoreTypes'
        <4>1. authLate' \subseteq Keys
          BY <2>0, <3>1 DEF AuthMoreTypes
        <4>2. ASSUME NEW q \in Requests PROVE authReq'[q].pc # "idle" => authReq'[q].key \in KeysOf(authReq'[q].scheme)
          BY <2>0, <3>2, <3>3 DEF AuthMoreTypes
        <4>3. QED
          BY <4>1, <4>2, <2>1, <3>1, <3>3, <3>4 DEF AuthMoreTypes
      <3>7. AcceptedIsLetIn' /\ CacheFollowsConfig' /\ FlushedButLate'
        BY <2>1, <3>1 DEF AcceptedIsLetIn, CacheFollowsConfig, FlushedButLate, Cached
      <3>8. MissUnderMutex'
        <4>1. ASSUME NEW q \in Requests \ {r}, authReq[q].pc = "validate"
              PROVE  authReq[q].scheme # s /\ authReq[q].scheme \in Schemes
          BY <4>1, <2>0 DEF MissUnderMutex, AuthMoreTypes, AuthRequests
        <4>2. QED
          BY <4>1, <2>1, <2>3, <3>2, <3>3, <3>4 DEF MissUnderMutex, Cached
      <3>9. LateIsNoted'
        BY <2>1, <3>1, <3>2, <3>3 DEF LateIsNoted, AuthMoreTypes
      <3>10. QED
        BY <3>5, <3>6, <3>7, <3>8, <3>9 DEF AuthInv
    <2>4. QED
      BY <2>2, <2>3
  <1>4. ASSUME NEW r \in Requests, Validated(r) PROVE AuthInv'
    <2> DEFINE k == authReq[r].key  s == authReq[r].scheme  c == authReq[r].config
    <2>0. /\ authReq[r].pc = "validate" /\ s \in Schemes /\ k \in KeysOf(s) /\ k \in Keys
          /\ c \in 0 .. MaxConfigs
      BY <1>0, <1>4 DEF Validated, AuthMoreTypes, AuthRequests
    <2>1. /\ authMutex[s] = r /\ (~Cached(k) \/ k \in BasicKeys \cap GwosKeys)
          /\ k \in authLate \/ authTask = "flush" \/ (authTask = "idle" /\ c = authConfig[s])
      BY <2>0 DEF MissUnderMutex, LateIsNoted
    <2>2. /\ authMutex' = [authMutex EXCEPT ![s] = NoRequest]
          /\ UNCHANGED <<authConfig, authTask, authLate>>
      BY <1>4 DEF Validated
    <2>3. /\ \/ UNCHANGED <<authCache, authVia>>
             \/ /\ authCache' = [authCache EXCEPT ![k] = c]
                /\ authVia' = [authVia EXCEPT ![k] = s]
          /\ \E why \in Answers : /\ AnswerTo(r, why)
                                  /\ why = "already exists" => Cached(k)
      BY <1>4, ZenonT(60) DEF Validated, Answers
    <2>4. /\ authReq' \in [Requests -> AuthRequests] /\ authReq'[r].pc = "idle"
          /\ \A q \in Requests \ {r} : authReq'[q] = authReq[q]
          /\ authAnswer' \in [Requests -> [why : Answers, key : Keys \cup {NoRequest}]]
          /\ AcceptedIsLetIn'
      BY <1>b, <2>1, <2>3
    <2> HIDE DEF k, s, c
    <2>5. AuthTypeOK'
      <3>1. authCache' \in [Keys -> 0 .. MaxConfigs]
        BY <2>0, <2>3 DEF AuthTypeOK
      <3>2. authMutex' \in [Schemes -> Requests \cup {NoRequest}]
        BY <2>0, <2>2 DEF AuthMoreTypes
      <3>3. QED
        BY <3>1, <3>2, <2>2, <2>4 DEF AuthTypeOK, AuthRequests
    <2>6. AuthMoreTypes'
      BY <1>0, <2>0, <2>2, <2>3, <2>4 DEF AuthMoreTypes
    <2>7. CacheFollowsConfig'
      BY <2>0, <2>1, <2>2, <2>3 DEF CacheFollowsConfig, Cached, AuthTypeOK, AuthMoreTypes
    <2>8. MissUnderMutex'
      <3> SUFFICES ASSUME NEW q \in Requests, authReq'[q].pc = "validate"
                   PROVE  /\ authMutex'[authReq'[q].scheme] = q
                          /\ authCache'[authReq'[q].key] = 0 \/ authReq'[q].key \in BasicKeys \cap GwosKeys
        BY DEF MissUnderMutex, Cached
      <3>1. q # r /\ authReq'[q] = authReq[q]
        BY <2>4
      <3>2. /\ authMutex[authReq[q].scheme] = q /\ authReq[q].scheme \in Schemes
            /\ authReq[q].key \in KeysOf(authReq[q].scheme) /\ authReq[q].key \in Keys
            /\ ~Cached(authReq[q].key) \/ authReq[q].key \in BasicKeys \cap GwosKeys
        BY <1>0, <3>1 DEF MissUnderMutex, AuthMoreTypes, AuthRequests
      <3>3. authReq[q].scheme # s
        BY <3>1, <3>2, <2>1
      <3>4. authMutex'[authReq[q].scheme] = q
        BY <3>2, <3>3, <2>2 DEF AuthMoreTypes
      <3>5. authReq[q].key = k => k \in BasicKeys \cap GwosKeys
        BY <1>0, <2>0, <3>2, <3>3 DEF KeysOf
      <3>6. QED
        BY <3>1, <3>2, <3>4, <3>5, <2>0, <2>3 DEF Cached, AuthTypeOK
    <2>9. LateIsNoted'
      BY <2>2, <2>4 DEF LateIsNoted
    <2>10. FlushedButLate'
      BY <2>0, <2>1, <2>2, <2>3 DEF FlushedButLate, Cached, AuthTypeOK
    <2>11. QED
      BY <2>4, <2>5, <2>6, <2>7, <2>8, <2>9, <2>10 DEF AuthInv
  <1>c. \A r \in Requests : authReq[r].pc = "validate" => authReq[r].key \in UnderWay
    BY DEF UnderWay
  <1>d. UnderWay \subseteq Keys
    BY <1>0 DEF UnderWay, AuthMoreTypes, AuthRequests
  <1>5. ASSUME NEW k \in Keys, CacheExpires(k) PROVE AuthInv'
    <2>1. /\ authCache' \in [Keys -> 0 .. MaxConfigs]
          /\ authCache'[k] = 0
          /\ \A l \in Keys \ {k} : authCache'[l] = authCache[l]
          /\ UNCHANGED <<authVia, authConfig, authTask, authMutex, authReq, authAnswer>>
      BY <1>5 DEF CacheExpires, AuthTypeOK
    <2>2. /\ authLate' \subseteq authLate
          /\ \A l \in authLate : l # k \/ l \in UnderWay => l \in authLate'
      BY <1>5 DEF CacheExpires
    <2>3. AuthTypeOK' /\ AuthMoreTypes' /\ AcceptedIsLetIn'
      BY <2>1, <2>2 DEF AuthTypeOK, AuthMoreTypes, AcceptedIsLetIn
    <2>4. CacheFollowsConfig' /\ FlushedButLate'
      BY <2>1, <2>2 DEF CacheFollowsConfig, FlushedButLate, Cached
    <2>5. MissUnderMutex'
      BY <1>0, <2>1 DEF MissUnderMutex, Cached, AuthMoreTypes, AuthRequests
    <2>6. LateIsNoted'
      BY <1>c, <2>1, <2>2 DEF LateIsNoted
    <2>7. QED
      BY <2>3, <2>4, <2>5, <2>6 DEF AuthInv
  <1>6. CASE ConfigClient
    <2>1. /\ authConfig' \in [Schemes -> 0 .. MaxConfigs]
          /\ authTask' = "flush"
          /\ UNCHANGED <<authCache, authVia, authMutex, authReq, authAnswer, authLate>>
      BY <1>0, <1>6 DEF ConfigClient, AuthTypeOK
    <2>2. AuthTypeOK' /\ AuthMoreTypes' /\ AcceptedIsLetIn'
      BY <2>1 DEF AuthTypeOK, AuthMoreTypes, AcceptedIsLetIn
    <2>3. CacheFollowsConfig' /\ FlushedButLate' /\ MissUnderMutex' /\ LateIsNoted'
      BY <2>1 DEF CacheFollowsConfig, FlushedButLate, MissUnderMutex, LateIsNoted, Cached
    <2>4. QED
      BY <2>2, <2>3 DEF AuthInv
  <1>7. CASE ConfigFlush
    <2>1. /\ authCache' \in [Keys -> 0 .. MaxConfigs]
          /\ \A k \in Keys : authCache'[k] = 0
          /\ authTask' = "transport" /\ authLate' = UnderWay
          /\ UNCHANGED <<authVia, authConfig, authMutex, authReq, authAnswer>>
      BY <1>7 DEF ConfigFlush
    <2>2. AuthTypeOK' /\ AuthMoreTypes' /\ AcceptedIsLetIn'
      BY <1>d, <2>1 DEF AuthTypeOK, AuthMoreTypes, AcceptedIsLetIn
    <2>3. CacheFollowsConfig' /\ FlushedButLate'
      BY <2>1 DEF CacheFollowsConfig, FlushedButLate, Cached
    <2>4. MissUnderMutex'
      BY <1>0, <2>1 DEF MissUnderMutex, Cached, AuthMoreTypes, AuthRequests
    <2>5. LateIsNoted'
      BY <1>c, <2>1 DEF LateIsNoted
    <2>6. QED
      BY <2>2, <2>3, <2>4, <2>5 DEF AuthInv
  <1>8. CASE ConfigTransport
    <2>1. /\ authConfig' \in [Schemes -> 0 .. MaxConfigs]
          /\ authTask = "transport" /\ authTask' = "idle"
          /\ UNCHANGED <<authCache, authVia, authMutex, authReq, authAnswer, authLate>>
      BY <1>0, <1>8 DEF ConfigTransport, AuthTypeOK
    <2>2. AuthTypeOK' /\ AuthMoreTypes' /\ AcceptedIsLetIn'
      BY <2>1 DEF AuthTypeOK, AuthMoreTypes, AcceptedIsLetIn
    <2>3. CacheFollowsConfig' /\ FlushedButLate' /\ MissUnderMutex' /\ LateIsNoted'
      BY <2>1 DEF CacheFollowsConfig, FlushedButLate, MissUnderMutex, LateIsNoted, Cached
    <2>4. QED
      BY <2>2, <2>3 DEF AuthInv
  <1>9. CASE StartTransportTask
    <2>1. /\ authConfig' \in [Schemes -> 0 .. MaxConfigs]
          /\ authConfig'["GWOS"] = authConfig["GWOS"]
          /\ authTask = "idle" /\ authLate' = authLate \cup OfBasicClient
          /\ UNCHANGED <<authCache, authVia, authTask, authMutex, authReq, authAnswer>>
      BY <1>0, <1>9 DEF StartTransportTask, AuthTypeOK
    <2>2. /\ OfBasicClient \subseteq Keys
          /\ \A k \in Keys : Cached(k) /\ authVia[k] = "BASIC" => k \in OfBasicClient
          /\ \A r \in Requests : authReq[r].pc = "validate" /\ authReq[r].scheme = "BASIC" =>
                authReq[r].key \in OfBasicClient
      BY <1>0 DEF OfBasicClient, AuthMoreTypes, AuthRequests
    <2>3. AuthTypeOK' /\ AuthMoreTypes' /\ AcceptedIsLetIn'
      BY <2>1, <2>2 DEF AuthTypeOK, AuthMoreTypes, AcceptedIsLetIn
    <2>4. CacheFollowsConfig' /\ FlushedButLate'
      BY <1>0, <2>1, <2>2 DEF CacheFollowsConfig, FlushedButLate, Cached, AuthMoreTypes
    <2>5. MissUnderMutex' /\ LateIsNoted'
      BY <1>0, <2>1, <2>2 DEF MissUnderMutex, LateIsNoted, Cached, AuthMoreTypes, AuthRequests
    <2>6. QED
      BY <2>3, <2>4, <2>5 DEF AuthInv
  <1>10. CASE UNCHANGED authVars
    BY <1>10 DEF authVars, AuthInv, AuthTypeOK, AuthMoreTypes, AcceptedIsLetIn, CacheFollowsConfig,
                MissUnderMutex, LateIsNoted, FlushedButLate, Cached
  <1>11. QED
    BY <1>1, <1>2, <1>3, <1>4, <1>5, <1>6, <1>7, <1>8, <1>9, <1>10 DEF AuthNext

(* The cache of checkAccess lets in what the servers in use accepted, and  *)
(* what a server had answered or was being asked when a task replaced its  *)
(* client; it turns away what a server has just accepted only where BASIC  *)
(* and GWOS credentials share a key.                                       *)
THEOREM CacheIsSound == AuthSpec => []AuthFollowsConfig
  <1>1. AuthInit => AuthInv
    <2> SUFFICES ASSUME AuthInit PROVE AuthInv
      OBVIOUS
    <2>1. IdleReq \in AuthRequests /\ IdleReq.pc = "idle"
      BY AuthAssumption DEF IdleReq, AuthRequests, Schemes
    <2>2. authReq \in [Requests -> AuthRequests] /\ \A r \in Requests : authReq[r].pc = "idle"
      BY <2>1 DEF AuthInit
    <2>3. AuthMoreTypes
      BY <2>2 DEF AuthInit, AuthMoreTypes, Answers, Schemes
    <2>4. AuthTypeOK
      BY <2>2, AuthAssumption DEF AuthInit, AuthTypeOK
    <2>5. AcceptedIsLetIn /\ CacheFollowsConfig /\ FlushedButLate
      BY DEF AuthInit, AcceptedIsLetIn, CacheFollowsConfig, FlushedButLate, Cached
    <2>6. QED
      BY <2>2, <2>3, <2>4, <2>5 DEF AuthInv, MissUnderMutex, LateIsNoted
  <1>2. AuthInv => AuthFollowsConfig
    BY DEF AuthInv, AuthFollowsConfig
  <1>3. QED
    BY <1>1, <1>2, AuthStep, PTL DEF AuthSpec

-----------------------------------------------------------------------------
(* Senders that share a token: the inductive invariant *)

(* The classes of results: those of an answer or of a login, and that of a *)
(* second attempt that is answered 401.                                    *)
AnswerErrors == {"ErrTransient", "err", "ErrUnauthorized", "ErrNotFound", "ErrGateway",
                 "ErrSynchronizer", "nil", "ErrUndecided"}
GWResults == AnswerErrors \cup {"ErrUnauthorized:resent"}

(* Types of the variables that GWTypeOK leaves out.                        *)
GWMoreTypes ==
    /\ gwIssued \in Nat
    /\ gwResult \in [Senders -> GWResults]
    /\ gwDisturbed \in [Senders -> BOOLEAN]
    /\ gwReplaced \in Seq(Nat)

(* The mutex of Connect: its holder is the one sender that logs in, and    *)
(* the token is still the one this sender read.                            *)
OneLogin ==
    \A s \in Senders : gwPc[s] = "login" => gwMutex = s /\ gwPrev[s] = gwToken

(* The token is the newest one, and a login replaces a token older than    *)
(* the one in use, each once.                                              *)
ReplacedOnce ==
    /\ gwToken = gwIssued
    /\ \A i \in 1 .. Len(gwReplaced) : gwReplaced[i] < gwToken
    /\ \A i, j \in 1 .. Len(gwReplaced) : gwReplaced[i] = gwReplaced[j] => i = j

(* What a sender will use, or uses, for its second attempt is valid unless *)
(* the server forgot tokens during the request.                            *)
NewTokenIsValid ==
    \A s \in Senders : gwDisturbed[s] \/
        /\ gwPc[s] = "lock" /\ TokenChanged(s) => gwToken \in gwValid
        /\ gwPc[s] = "resend" => gwToken \in gwValid
        /\ gwPc[s] = "resent" => gwUsed[s] \in gwValid

(* A second attempt is refused only if the server forgot tokens.           *)
FailsOnlyDisturbed ==
    \A s \in Senders : gwResult[s] = "ErrUnauthorized:resent" => gwDisturbed[s]

(* The inductive invariant of GWClient.                                    *)
GWInv ==
    /\ GWTypeOK /\ GWMoreTypes /\ OneLogin /\ ReplacedOnce /\ NewTokenIsValid
    /\ FailsOnlyDisturbed

-----------------------------------------------------------------------------
(* The errors of a request or of a login are never taken for the failure   *)
(* of the second attempt.                                                  *)
LEMMA ErrorClasses ==
    /\ \A a \in TransportErrors \cup Statuses : ErrorOf(a) \in AnswerErrors
    /\ LoginErrors \subseteq AnswerErrors
  <1>1. ASSUME NEW a \in TransportErrors \cup Statuses
        PROVE  ErrorOf(a) \in AnswerErrors
    BY Zenon DEF ErrorOf, AnswerErrors
  <1>2. LoginErrors \subseteq AnswerErrors
    BY <1>1 DEF LoginErrors, AnswerErrors
  <1>3. QED
    BY <1>1, <1>2

(* Every step of a sender and of the server keeps the invariant.           *)
LEMMA GWStep == GWInv /\ [GWNext]_gwVars => GWInv'
  <1> SUFFICES ASSUME GWInv, [GWNext]_gwVars PROVE GWInv'
    OBVIOUS
  <1> USE GWAssumption DEF GWInv, GWTypeOK, GWMoreTypes, GWResults, AnswerErrors,
          gwServer, gwHistory, GWGoto
  <1>1. ASSUME NEW s \in Senders, SendRequest(s) PROVE GWInv'
    <2>1. GWTypeOK' /\ GWMoreTypes'
      BY <1>1 DEF SendRequest
    <2>2. OneLogin' /\ ReplacedOnce'
      BY <1>1 DEF SendRequest, OneLogin, ReplacedOnce
    <2>3. NewTokenIsValid'
      BY <1>1 DEF SendRequest, NewTokenIsValid, TokenChanged
    <2>4. FailsOnlyDisturbed'
      BY <1>1 DEF SendRequest, FailsOnlyDisturbed
    <2>5. QED
      BY <2>1, <2>2, <2>3, <2>4
  <1>2. ASSUME NEW s \in Senders, NEW a \in TransportErrors \cup Statuses, Answered(s, a)
        PROVE  GWInv'
    <2>1. GWTypeOK' /\ GWMoreTypes'
      BY <1>2, ErrorClasses, ZenonT(60) DEF Answered, GWReturn
    <2>2. OneLogin' /\ ReplacedOnce'
      BY <1>2, ErrorClasses DEF Answered, GWReturn, OneLogin, ReplacedOnce
    <2>3. NewTokenIsValid'
      BY <1>2, ErrorClasses DEF Answered, GWReturn, NewTokenIsValid, TokenChanged
    <2>4. FailsOnlyDisturbed'
      BY <1>2, ErrorClasses DEF Answered, GWReturn, FailsOnlyDisturbed
    <2>5. QED
      BY <2>1, <2>2, <2>3, <2>4
  <1>3. ASSUME NEW s \in Senders, ConnectRead(s) PROVE GWInv'
    BY <1>3 DEF ConnectRead, OneLogin, ReplacedOnce, NewTokenIsValid, TokenChanged,
          FailsOnlyDisturbed
  <1>4. ASSUME NEW s \in Senders, ConnectLock(s) PROVE GWInv'
    BY <1>4, SMTT(30) DEF ConnectLock, OneLogin, ReplacedOnce, NewTokenIsValid, TokenChanged,
          FailsOnlyDisturbed
  <1>5. ASSUME NEW s \in Senders, LoginOk(s) PROVE GWInv'
    <2>1. /\ gwPc[s] = "login" /\ gwPc' = [gwPc EXCEPT ![s] = "resend"]
          /\ gwIssued' = gwIssued + 1 /\ gwToken' = gwIssued' /\ gwMutex' = NoSender
          /\ gwReplaced' = Append(gwReplaced, gwPrev[s])
          /\ UNCHANGED <<gwUsed, gwPrev, gwResult>>
      BY <1>5 DEF LoginOk, TokenIssued
    <2>2. gwValid' \subseteq gwValid \cup {gwIssued'} /\ gwIssued' \in gwValid'
      BY <1>5 DEF LoginOk, TokenIssued
    <2>3. /\ gwDisturbed' \in [Senders -> BOOLEAN]
          /\ \A r \in Senders : gwDisturbed[r] => gwDisturbed'[r]
          /\ \A r \in Senders : gwPc[r] = "resent" => gwDisturbed'[r] \/ gwValid \subseteq gwValid'
      BY <1>5 DEF LoginOk, TokenIssued
    <2>4. GWTypeOK' /\ GWMoreTypes'
      <3>1. /\ 0 .. gwIssued \subseteq 0 .. gwIssued' /\ gwIssued' \in Nat
            /\ gwToken' \in 0 .. gwIssued' /\ gwPrev[s] \in Nat
            /\ gwValid' \subseteq 1 .. gwIssued'
        BY <2>1, <2>2
      <3>2. gwUsed' \in [Senders -> 0 .. gwIssued'] /\ gwPrev' \in [Senders -> 0 .. gwIssued']
        BY <2>1, <3>1
      <3>3. gwReplaced' \in Seq(Nat)
        BY <2>1, <3>1
      <3>4. gwPc' \in [Senders -> {"idle", "sent", "connect", "lock", "login", "resend", "resent"}]
        BY <2>1
      <3>5. QED
        BY <2>1, <2>3, <3>1, <3>2, <3>3, <3>4
    <2>5. OneLogin'
      BY <2>1 DEF OneLogin
    <2>6. ReplacedOnce'
      BY <2>1 DEF OneLogin, ReplacedOnce
    <2>7. NewTokenIsValid'
      <3> SUFFICES ASSUME NEW r \in Senders, ~gwDisturbed'[r], gwPc'[r] = "resent"
                   PROVE  gwUsed'[r] \in gwValid'
        BY <2>1, <2>2 DEF NewTokenIsValid
      <3>1. gwPc[r] = "resent" /\ ~gwDisturbed[r]
        BY <2>1, <2>3
      <3>2. QED
        BY <3>1, <2>1, <2>3 DEF NewTokenIsValid
    <2>8. FailsOnlyDisturbed'
      BY <2>1, <2>3 DEF FailsOnlyDisturbed
    <2>9. QED
      BY <2>4, <2>5, <2>6, <2>7, <2>8
  <1>6. ASSUME NEW s \in Senders, NEW e \in LoginErrors, LoginFails(s, e) PROVE GWInv'
    BY <1>6, ErrorClasses DEF LoginFails, GWReturn, OneLogin, ReplacedOnce, NewTokenIsValid, TokenChanged,
          FailsOnlyDisturbed
  <1>7. ASSUME NEW s \in Senders, Resend(s) PROVE GWInv'
    BY <1>7 DEF Resend, OneLogin, ReplacedOnce, NewTokenIsValid, TokenChanged,
          FailsOnlyDisturbed
  <1>8. ASSUME NEW s \in Senders, NEW a \in TransportErrors \cup Statuses, AnsweredAgain(s, a)
        PROVE  GWInv'
    <2>1. GWTypeOK' /\ GWMoreTypes'
      BY <1>8, ErrorClasses DEF AnsweredAgain, GWReturn, AnswersTo
    <2>2. OneLogin' /\ ReplacedOnce'
      BY <1>8, ErrorClasses DEF AnsweredAgain, GWReturn, AnswersTo, OneLogin, ReplacedOnce
    <2>3. NewTokenIsValid'
      BY <1>8, ErrorClasses DEF AnsweredAgain, GWReturn, AnswersTo, NewTokenIsValid, TokenChanged
    <2>4. FailsOnlyDisturbed'
      BY <1>8, ErrorClasses DEF AnsweredAgain, GWReturn, AnswersTo, FailsOnlyDisturbed,
          NewTokenIsValid, TransportErrors
    <2>5. QED
      BY <2>1, <2>2, <2>3, <2>4
  <1>9. CASE ServerForgets
    BY <1>9 DEF ServerForgets, OneLogin, ReplacedOnce, NewTokenIsValid, TokenChanged,
          FailsOnlyDisturbed
  <1>10. CASE UNCHANGED gwVars
    BY <1>10 DEF gwVars, OneLogin, ReplacedOnce, NewTokenIsValid, TokenChanged,
          FailsOnlyDisturbed
  <1>11. QED
    BY <1>1, <1>2, <1>3, <1>4, <1>5, <1>6, <1>7, <1>8, <1>9, <1>10 DEF GWNext, SenderStep

(* A login that another client overtook is not repeated, and a request is  *)
(* refused after its reconnect only if the server forgot its tokens while  *)
(* it was under way, or ended its session for another login after it was   *)
(* sent again (Connect of gwClient.go).                                    *)
THEOREM ReconnectSuffices == GWSpec => []ReconnectIsEnough
  <1>1. GWInit => GWInv
    BY GWAssumption DEF GWInit, GWInv, GWTypeOK, GWMoreTypes, GWResults,
          AnswerErrors, OneLogin, ReplacedOnce, NewTokenIsValid, TokenChanged,
          FailsOnlyDisturbed
  <1>2. GWInv => ReconnectIsEnough
    BY DEF GWInv, GWMoreTypes, ReplacedOnce, FailsOnlyDisturbed, ReconnectIsEnough
  <1>3. QED
    BY <1>1, <1>2, GWStep, PTL DEF GWSpec

-----------------------------------------------------------------------------
(* The way of a payload to the server *)

Subjects == {"tcg.downtimes", "tcg.events", "tcg.metrics"}
PayloadTypes == {"clearInDowntime", "setInDowntime", "events", "eventsAck", "eventsUnack",
                 "metrics", "inventory"}

(* The type of what an entrypoint takes. *)
TypeAt(e) ==
    CASE e = "/api/events" -> "events"
      [] e = "/api/events/ack" -> "eventsAck"
      [] e = "/api/events/unack" -> "eventsUnack"
      [] e = "/api/biz/clearindowntime" -> "clearInDowntime"
      [] e = "/api/biz/setindowntime" -> "setInDowntime"
      [] e = "/api/synchronizer" -> "inventory"
      [] OTHER -> "metrics"

(* The payloads on their way.                                              *)
PathPayloads == [op : Ops, size : Sizes, context : [ContextFields -> ContextValues]]

(* The headers of a message tell what its payload is: the type picks the   *)
(* client's operation, and the note asks for a context.                    *)
Labelled(m) ==
    /\ m.type = PayloadType(m.payload.op)
    /\ m.todo <=> Subject(m.payload.op) = "tcg.metrics" /\ TodoTracerCtx(m.payload)
StreamMessages ==
    {m \in [subject : Subjects, type : PayloadTypes, compressed : BOOLEAN, todo : BOOLEAN,
            format : {"json"}, payload : PathPayloads] : Labelled(m)}

(* What the server can read: the entrypoint takes what is in the request,  *)
(* and inventory and metrics are as their headers say.                     *)
Readable(r) ==
    /\ TypeAt(r.entrypoint) = PayloadType(r.payload.op)
    /\ Subject(r.payload.op) = "tcg.metrics" =>
         /\ r.gzipped <=> r.encoding = "gzip"
         /\ r.compressed \/ ~TodoTracerCtx(r.payload)
Entrypoints ==
    {"/api/events", "/api/events/ack", "/api/events/unack", "/api/biz/clearindowntime",
     "/api/biz/setindowntime", "/api/synchronizer", "/api/monitoring",
     "/api/monitoring?dynamic=true"}
WireRequests ==
    {r \in [entrypoint : Entrypoints, encoding : {"", "gzip"}, gzipped : BOOLEAN,
            compressed : BOOLEAN, format : {"json"}, payload : PathPayloads] : Readable(r)}

(* The inductive invariant: a message is labelled from when it is put, and *)
(* no configuration that comes between the put and the dispatch can make   *)
(* its request unreadable.                                                 *)
TpInv ==
    /\ tpAgent \in TpAgents /\ tpServer \in Limits /\ tpPanic \in BOOLEAN
    /\ tpReply \in {0, 200, 400, 500}
    /\ tpStream \in Seq(StreamMessages)
    /\ tpWire \in Seq(WireRequests)

(* Every operation has a type and a subject, and what goes under           *)
(* tcg.metrics is of a type the client encodes.                            *)
LEMMA TypesOfOps ==
    ASSUME NEW o \in Ops
    PROVE  /\ PayloadType(o) \in PayloadTypes
           /\ Subject(o) \in Subjects
           /\ Subject(o) = "tcg.metrics" => PayloadType(o) \in {"inventory", "metrics"}
  BY Zenon DEF Ops, PayloadType, PayloadTypes, Subject, Subjects

(* The client posts a payload to the entrypoint of its type, dynamic or    *)
(* not.                                                                    *)
LEMMA EntrypointTakesType ==
    ASSUME NEW t \in PayloadTypes
    PROVE  TypeAt(Entrypoint(t)) = t /\ Entrypoint(t) \in Entrypoints
  BY Zenon DEF PayloadTypes, TypeAt, Entrypoint, Entrypoints

(* A type in a header is never taken for a missing one.                    *)
LEMMA TypesTold == \A t \in PayloadTypes : t # "" /\ t # "nil"
  BY DEF PayloadTypes

(* The limit in force is one of the limits.                                *)
LEMMA LimitOfAgent ==
    ASSUME tpAgent \in TpAgents PROVE tpAgent.limit \in Limits
  BY DEF Limits

(* Put2Nats labels what it publishes by what is in the payload.            *)
LEMMA PutMessage ==
    ASSUME tpAgent \in TpAgents, NEW o \in Ops, NEW p \in PathPayloads, p.op = o
    PROVE  Put2Nats(o, p) \in Seq(StreamMessages)
  <1> DEFINE gzip == p.size[1] > tpAgent.limit
             todo == Subject(o) = "tcg.metrics" /\ TodoTracerCtx(p)
             msg == [subject |-> Subject(o), type |-> PayloadType(o), compressed |-> gzip,
                     todo |-> todo, format |-> "json", payload |-> p]
  <1>1. gzip \in BOOLEAN /\ todo \in BOOLEAN
    OBVIOUS
  <1>2. msg \in [subject : Subjects, type : PayloadTypes, compressed : BOOLEAN, todo : BOOLEAN,
            format : {"json"}, payload : PathPayloads]
    <2> HIDE DEF gzip, todo
    <2>1. QED
      BY <1>1, TypesOfOps
  <1>3. Labelled(msg)
    BY DEF Labelled
  <1>4. msg \in StreamMessages
    BY <1>2, <1>3 DEF StreamMessages
  <1>5. Put2Nats(o, p) = <<>> \/ Put2Nats(o, p) = <<msg>>
    BY DEF Put2Nats
  <1>6. QED
    <2> HIDE DEF msg
    <2>1. <<msg>> \in Seq(StreamMessages) /\ <<>> \in Seq(StreamMessages)
      BY <1>4
    <2>2. QED
      BY <1>5, <2>1

(* The contexts that the path makes.                                       *)
LEMMA ContextsTyped ==
    ASSUME tpAgent \in TpAgents
    PROVE  /\ NoContext \in [ContextFields -> ContextValues]
           /\ TypeToDo \in [ContextFields -> ContextValues]
           /\ MakeTracerContext \in [ContextFields -> ContextValues]
  BY DEF NoContext, TypeToDo, MakeTracerContext, ContextFields, ContextValues

(* The payloads the handlers are given.                                    *)
LEMMA PayloadsTyped ==
    ASSUME tpAgent \in TpAgents, NEW o \in Ops, NEW p \in Payloads(o)
    PROVE  p \in PathPayloads /\ p.op = o
  BY ContextsTyped DEF Payloads, PathPayloads

(* mixTracerContext keeps the operation of a payload.                      *)
LEMMA ContextMixed ==
    ASSUME tpAgent \in TpAgents, NEW p \in PathPayloads
    PROVE  mixTracerContext(p) \in PathPayloads /\ mixTracerContext(p).op = p.op
  BY ContextsTyped DEF mixTracerContext, WithContext, PathPayloads

(* A connector that is configured has no placeholder to fill in: nothing   *)
(* is left to do after fixTracerContext.                                   *)
LEMMA ContextFixed ==
    ASSUME tpAgent \in TpAgents, isConnectorConfigured, NEW p \in PathPayloads
    PROVE  /\ fixTracerContext(p) \in PathPayloads
           /\ fixTracerContext(p).op = p.op
           /\ ~TodoTracerCtx(fixTracerContext(p))
  <1> DEFINE fixed == [f \in ContextFields |-> IF p.context[f] = Todo THEN tpAgent[f]
                                                ELSE p.context[f]]
  <1>1. fixed \in [ContextFields -> ContextValues]
    BY DEF ContextFields, ContextValues, PathPayloads
  <1>2. \A f \in ContextFields : fixed[f] # Todo
    BY DEF ContextFields, isConnectorConfigured, isConfiguredAgentID, isConfiguredAppType
  <1>3. fixTracerContext(p) = [op |-> p.op, size |-> p.size, context |-> fixed]
    BY DEF fixTracerContext, WithContext
  <1> HIDE DEF fixed
  <1>4. QED
    BY <1>1, <1>2, <1>3 DEF PathPayloads, TodoTracerCtx

(* adaptClient makes a readable request of a message of the stream.        *)
LEMMA RequestReadable ==
    ASSUME tpAgent \in TpAgents, isConnectorConfigured, NEW m \in StreamMessages
    PROVE  adaptClient(m.type, m) \in WireRequests
  <1> DEFINE p == IF m.todo /\ ~m.compressed THEN fixTracerContext(m.payload) ELSE m.payload
             encodes == m.type \in {"inventory", "metrics"}
             gzip == m.compressed \/ (encodes /\ tpAgent.httpEncode)
             encoding == IF encodes /\ gzip THEN "gzip" ELSE ""
             r == adaptClient(m.type, m)
  <1>1. m.payload \in PathPayloads /\ m.payload.op \in Ops
    BY DEF StreamMessages, PathPayloads
  <1>2. p \in PathPayloads /\ p.op = m.payload.op
    BY <1>1, ContextFixed
  <1>3. Subject(p.op) = "tcg.metrics" => m.compressed \/ ~TodoTracerCtx(p)
    BY <1>1, <1>2, ContextFixed DEF StreamMessages, Labelled
  <1>4. Subject(p.op) = "tcg.metrics" => encodes
    BY <1>1, <1>2, TypesOfOps DEF StreamMessages, Labelled
  <1>5. /\ m.type = PayloadType(p.op)
        /\ TypeAt(Entrypoint(m.type)) = m.type /\ Entrypoint(m.type) \in Entrypoints
    BY <1>1, <1>2, EntrypointTakesType DEF StreamMessages, Labelled
  <1>6. gzip \in BOOLEAN /\ m.compressed \in BOOLEAN /\ m.format = "json"
    BY DEF StreamMessages
  <1>7. /\ encoding \in {"", "gzip"}
        /\ Subject(p.op) = "tcg.metrics" => (gzip <=> encoding = "gzip")
    BY <1>4
  <1>8. r = [entrypoint |-> Entrypoint(m.type), encoding |-> encoding, gzipped |-> gzip,
             compressed |-> m.compressed, format |-> m.format, payload |-> p]
    BY DEF adaptClient, GWRequest
  <1> HIDE DEF r, p, encodes, gzip, encoding
  <1>9. r \in [entrypoint : Entrypoints, encoding : {"", "gzip"}, gzipped : BOOLEAN,
               compressed : BOOLEAN, format : {"json"}, payload : PathPayloads]
    BY <1>2, <1>5, <1>6, <1>7, <1>8
  <1>10. /\ r.entrypoint = Entrypoint(m.type) /\ r.payload = p /\ r.encoding = encoding
         /\ r.gzipped = gzip /\ r.compressed = m.compressed
    BY <1>8
  <1>11. Readable(r)
    BY <1>3, <1>5, <1>7, <1>10, Zenon DEF Readable
  <1>12. QED
    BY <1>9, <1>11 DEF WireRequests, r

(* A nonempty set of naturals has a smallest element ...                   *)
LEMMA SmallestOf ==
    ASSUME NEW T, T \subseteq Nat, T # {}
    PROVE  \E x \in T : \A y \in T : x <= y
  <1>1. PICK x \in T : \A y \in T : ~(<<y, x>> \in OpToRel(<, Nat))
    BY NatLessThanWellFounded, WFMin
  <1>2. \A y \in T : ~(y < x)
    BY <1>1 DEF OpToRel
  <1>3. QED
    BY <1>2

(* ... which is what Min picks.                                            *)
LEMMA MinIsIn ==
    ASSUME NEW T, T \subseteq Nat, T # {}
    PROVE  Min(T) \in T
  BY SmallestOf DEF Min

(* What is left of the stream after a message is settled is a stream.      *)
LEMMA RemoveAtType ==
    ASSUME NEW S, NEW s \in Seq(S), NEW i \in 1 .. Len(s)
    PROVE  RemoveAt(s, i) \in Seq(S)
  <1>1. SubSeq(s, 1, i - 1) \in Seq(S) /\ SubSeq(s, i + 1, Len(s)) \in Seq(S)
    BY LenProperties, SubSeqProperties
  <1>2. QED
    BY <1>1, ConcatProperties DEF RemoveAt

(* A TransitOperation adds well labelled messages, or nothing.             *)
LEMMA OperationTyped ==
    ASSUME TpInv, NEW o \in Ops, NEW p \in PathPayloads, p.op = o, TransitOperation(o, p)
    PROVE  tpStream' \in Seq(StreamMessages) /\ tpReply' \in {200, 500}
  <1>1. Put2Nats(o, p) \in Seq(StreamMessages)
    BY PutMessage DEF TpInv
  <1>2. CASE SuppressedBy(o) \in tpAgent.suppress
    BY <1>2 DEF TransitOperation, TpInv
  <1>3. CASE SuppressedBy(o) \notin tpAgent.suppress
    <2>1. tpStream' = tpStream \o Put2Nats(o, p) /\ tpReply' \in {200, 500}
      BY <1>3 DEF TransitOperation
    <2>2. QED
      BY <1>1, <2>1, ConcatProperties DEF TpInv
  <1>4. QED
    BY <1>2, <1>3

(* So does a request to the API, whether its body can be read or not.      *)
LEMMA RequestTyped ==
    ASSUME TpInv, NEW o \in Ops, NEW p \in PathPayloads, p.op = o,
           (tpReply' = 400 /\ UNCHANGED tpStream) \/ TransitOperation(o, p),
           UNCHANGED <<tpAgent, tpServer, tpWire, tpPanic>>
    PROVE  TpInv'
  <1>1. CASE tpReply' = 400 /\ UNCHANGED tpStream
    BY <1>1 DEF TpInv
  <1>2. CASE TransitOperation(o, p)
    BY <1>2, OperationTyped DEF TpInv
  <1>3. QED
    BY <1>1, <1>2

(* Every step of the path keeps the invariant.                             *)
LEMMA StepTyped == TpInv /\ [TpNext]_tpVars => TpInv'
  <1> SUFFICES ASSUME TpInv, [TpNext]_tpVars PROVE TpInv'
    OBVIOUS
  <1>1. CASE Downtimes
    <2>1. PICK o \in {"downtime-clear", "downtime-set"} :
             \E p \in Payloads(o) : Handle(InDowntime, o, p)
      BY <1>1 DEF Downtimes
    <2>2. PICK p \in Payloads(o) : Handle(InDowntime, o, p)
      BY <2>1
    <2>3. o \in Ops /\ p \in PathPayloads /\ p.op = o
      BY PayloadsTyped DEF Ops, TpInv
    <2>4. QED
      BY <2>2, <2>3, RequestTyped DEF Handle, InDowntime
  <1>2. CASE Events
    <2>1. PICK o \in {"events", "events-ack", "events-unack"} :
             \E p \in Payloads(o) : Handle(SendEvents, o, p)
      BY <1>2 DEF Events
    <2>2. PICK p \in Payloads(o) : Handle(SendEvents, o, p)
      BY <2>1
    <2>3. o \in Ops /\ p \in PathPayloads /\ p.op = o
      BY PayloadsTyped DEF Ops, TpInv
    <2>4. QED
      BY <2>2, <2>3, RequestTyped DEF Handle, SendEvents
  <1>3. ASSUME NEW o \in {"metrics", "states", "inventory"}, NEW p \in Payloads(o),
               (tpReply' = 400 /\ UNCHANGED tpStream) \/ TransitOperation(o, mixTracerContext(p)),
               UNCHANGED <<tpAgent, tpServer, tpWire, tpPanic>>
        PROVE  TpInv'
    <2>1. o \in Ops /\ p \in PathPayloads /\ p.op = o
      BY PayloadsTyped DEF Ops, TpInv
    <2>2. mixTracerContext(p) \in PathPayloads /\ mixTracerContext(p).op = o
      BY <2>1, ContextMixed DEF TpInv
    <2>3. QED
      BY <1>3, <2>1, <2>2, RequestTyped
  <1>4. CASE Metrics
    BY <1>3, <1>4 DEF Metrics, Handle, SendMetrics
  <1>5. CASE States
    BY <1>3, <1>5 DEF States, Handle, SendStates
  <1>6. CASE Inventory
    BY <1>3, <1>6 DEF Inventory, Handle, SynchronizeInventory
  <1>7. ASSUME NEW p \in Payloads("inventory"), NEW size \in Sizes, SyncExt(p, size)
        PROVE  TpInv'
    <2> DEFINE states == [op |-> "states", size |-> size, context |-> MakeTracerContext]
               mixed == mixTracerContext(p)
    <2>1. p \in PathPayloads /\ p.op = "inventory" /\ "inventory" \in Ops /\ "states" \in Ops
      BY PayloadsTyped DEF Ops, TpInv
    <2>2. mixed \in PathPayloads /\ mixed.op = "inventory"
      BY <2>1, ContextMixed DEF TpInv
    <2>3. states \in PathPayloads /\ states.op = "states"
      BY <2>1, ContextsTyped DEF TpInv, PathPayloads
    <2> HIDE DEF states, mixed
    <2>4. Put2Nats("inventory", mixed) \in Seq(StreamMessages)
      BY <2>1, <2>2, PutMessage DEF TpInv
    <2>5. Put2Nats("states", states) \in Seq(StreamMessages)
      BY <2>1, <2>3, PutMessage DEF TpInv
    <2>6. PICK a \in {<<>>, Put2Nats("inventory", mixed)}, b \in {<<>>, Put2Nats("states", states)} :
             tpStream' = tpStream \o a \o b
      BY <1>7, Zenon DEF SyncExt, states, mixed
    <2>7. <<>> \in Seq(StreamMessages)
      OBVIOUS
    <2>8. a \in Seq(StreamMessages) /\ b \in Seq(StreamMessages)
      BY <2>4, <2>5, <2>6, <2>7, Zenon
    <2>9. tpStream' \in Seq(StreamMessages)
      BY <2>6, <2>8, ConcatProperties DEF TpInv
    <2>10. tpReply' \in {200, 500} /\ UNCHANGED <<tpAgent, tpServer, tpWire, tpPanic>>
      BY <1>7, Zenon DEF SyncExt
    <2>11. QED
      BY <2>9, <2>10 DEF TpInv
  <1>8. ASSUME NEW a \in TpAgents, Configure(a) PROVE TpInv'
    BY <1>8 DEF Configure, TpInv
  <1>9. CASE RestartServer
    BY <1>9, LimitOfAgent DEF RestartServer, TpInv
  <1>10. ASSUME NEW s \in Subjects, Dispatch(s) PROVE TpInv'
    <2> DEFINE I == {i \in 1 .. Len(tpStream) : tpStream[i].subject = s}
               at == Min(I)
               m == tpStream[at]
    <2>1. I # {} /\ SelectInSeq(tpStream, LAMBDA x : x.subject = s) = at
      BY <1>10 DEF Dispatch, SelectInSeq
    <2>2. at \in 1 .. Len(tpStream)
      BY <2>1, MinIsIn
    <2>3. m \in StreamMessages
      BY <2>2, ElementOfSeq DEF TpInv
    <2>4. Unmarshal(m) = "error" /\ m.type # ""
      BY <2>3, TypesTold DEF StreamMessages, Unmarshal
    <2>5. /\ isConnectorConfigured
          /\ tpStream' = RemoveAt(tpStream, at)
          /\ tpWire' = Append(tpWire, adaptClient(m.type, m))
          /\ UNCHANGED <<tpAgent, tpServer, tpReply, tpPanic>>
      BY <1>10, <2>1, <2>4, Zenon DEF Dispatch
    <2>6. tpStream' \in Seq(StreamMessages)
      BY <2>2, <2>5, RemoveAtType DEF TpInv
    <2>7. tpWire' \in Seq(WireRequests)
      BY <2>3, <2>5, RequestReadable, AppendProperties DEF TpInv
    <2>8. QED
      BY <2>5, <2>6, <2>7 DEF TpInv
  <1>11. CASE UNCHANGED tpVars
    BY <1>11 DEF tpVars, TpInv
  <1>12. QED
    BY <1>1, <1>2, <1>4, <1>5, <1>6, <1>7, <1>8, <1>9, <1>10, <1>11 DEF TpNext, Subjects

(* Whatever the agent's configurations, the lengths of payloads and the    *)
(* number of requests: what Groundwork gets says how it is encoded, has    *)
(* its context filled in unless it was compressed for the stream, and      *)
(* never arrives at the entrypoint of another operation.                   *)
THEOREM WireReadable == TpSpec => []WireIsReadable
  <1>1. TpInit => TpInv
    <2> SUFFICES ASSUME TpInit PROVE TpInv
      OBVIOUS
    <2>1. tpAgent \in TpAgents /\ tpServer \in Limits
      BY LimitOfAgent DEF TpInit
    <2>2. tpStream \in Seq(StreamMessages) /\ tpWire \in Seq(WireRequests)
      BY EmptySeq, Zenon DEF TpInit
    <2>3. tpPanic \in BOOLEAN /\ tpReply \in {0, 200, 400, 500}
      BY DEF TpInit
    <2>4. QED
      BY <2>1, <2>2, <2>3 DEF TpInv
  <1>2. TpInv => WireIsReadable
    <2> SUFFICES ASSUME TpInv PROVE WireIsReadable
      OBVIOUS
    <2>1. TpTypeOK
      BY ElementOfSeq DEF TpInv, TpTypeOK, StreamMessages, PathPayloads
    <2>2. \A i \in 1 .. Len(tpWire) : tpWire[i] \in WireRequests
      BY ElementOfSeq DEF TpInv
    <2>3. \A r \in WireRequests : Readable(r)
      BY DEF WireRequests
    <2>4. QED
      BY <2>1, <2>2, <2>3 DEF WireIsReadable, Readable
  <1>3. QED
    BY <1>1, <1>2, StepTyped, PTL DEF TpSpec
=============================================================================
