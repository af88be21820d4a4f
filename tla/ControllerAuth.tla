--------------------------- MODULE ControllerAuth ---------------------------
(***************************************************************************)
(* services/controller.go, checkAccess: requests to the private API are    *)
(* let in with the pin, or with credentials that the cache knows or that   *)
(* Groundwork (BASIC) or Dalek services (GWOS) accept.  A miss is looked   *)
(* at again under the mutex of its scheme.  Beside the requests the config *)
(* task replaces the GWOS client, flushes the cache and, if it starts the  *)
(* transport, replaces the BASIC client; POST /start and the reset of NATS *)
(* replace the BASIC client and flush nothing.                             *)
(*                                                                         *)
(* A key is the hash of the two strings of the credentials put together:   *)
(* BASIC and GWOS credentials can have the same one.                       *)
(***************************************************************************)
EXTENDS Integers, FiniteSets

CONSTANTS
    Requests,       \* goroutines of the HTTP server
    NoRequest,
    BasicKeys,      \* cache keys of BASIC credentials
    GwosKeys,       \* cache keys of GWOS credentials
    MaxConfigs,     \* bound: config tasks
    MaxChecks,      \* bound: requests that are not answered at once
    AcceptedBy(_, _) \* external: the keys of a scheme its server accepts

ASSUME AuthAssumption ==
    /\ NoRequest \notin Requests /\ MaxConfigs \in Nat /\ MaxChecks \in Nat

VARIABLES
    authCache,      \* key -> 0, or the configuration that validated it
    authVia,        \* history: key -> the scheme it was last validated for
    authConfig,     \* scheme -> configuration of its client, 0: none
    authTask,       \* config task: "idle", or what it does next
    authMutex,      \* scheme -> holder of muBASIC, muGWOS
    authReq,        \* request -> where it is, its key, scheme and configuration
    authAnswer,     \* request -> why it was let in or turned away, its key
    authChecks,
    authLate        \* history: keys whose answer may be that of a client replaced since

authVars == <<authCache, authVia, authConfig, authTask, authMutex, authReq, authAnswer,
              authChecks, authLate>>
Keys == BasicKeys \cup GwosKeys
Schemes == {"BASIC", "GWOS"}
KeysOf(s) == IF s = "BASIC" THEN BasicKeys ELSE GwosKeys

(* A request that is not looking its credentials up. *)
IdleReq == [pc |-> "idle", key |-> NoRequest, scheme |-> "BASIC", config |-> 0]

AuthInit ==
    /\ authCache = [k \in Keys |-> 0] /\ authVia = [k \in Keys |-> "BASIC"]
    /\ authConfig = [s \in Schemes |-> 0] /\ authTask = "idle"
    /\ authMutex = [s \in Schemes |-> NoRequest]
    /\ authReq = [r \in Requests |-> IdleReq]
    /\ authAnswer = [r \in Requests |-> [why |-> "none", key |-> NoRequest]]
    /\ authChecks = 0 /\ authLate = {}

Cached(k) == authCache[k] # 0

AnswerTo(r, why) ==
    /\ authReq' = [authReq EXCEPT ![r] = IdleReq]
    /\ authAnswer' = [authAnswer EXCEPT ![r] = [why |-> why, key |-> authReq[r].key]]

(* What is decided without credentials: an empty configuration and the pin *)
(* let everyone in, missing headers or a missing client no one.            *)
CheckAccessEarly(r) ==
    /\ authReq[r].pc = "idle"
    /\ \/ (\A s \in Schemes : authConfig[s] = 0) /\ AnswerTo(r, "empty config")
       \/ /\ \E s \in Schemes : authConfig[s] # 0
          /\ \E why \in {"pin", "misconfigured"} : AnswerTo(r, why)
    /\ UNCHANGED <<authCache, authVia, authConfig, authTask, authMutex, authChecks, authLate>>

(* The first look into the cache. *)
CheckAccess(r, s, k) ==
    /\ authReq[r].pc = "idle" /\ authConfig[s] # 0 /\ authChecks < MaxChecks
    /\ k \in KeysOf(s)
    /\ authChecks' = authChecks + 1
    /\ IF Cached(k)
       THEN AnswerTo(r, "cached")
       ELSE /\ authReq' = [authReq EXCEPT ![r] = [pc |-> "lock", key |-> k, scheme |-> s,
                                                  config |-> 0]]
            /\ authAnswer' = [authAnswer EXCEPT ![r] = [why |-> "none", key |-> k]]
    /\ UNCHANGED <<authCache, authVia, authConfig, authTask, authMutex, authLate>>

(* The second look, with the mutex; a miss asks the client of now. *)
LockAndLook(r) ==
    LET k == authReq[r].key  s == authReq[r].scheme IN
    /\ authReq[r].pc = "lock" /\ authMutex[s] = NoRequest
    /\ IF Cached(k)
       THEN AnswerTo(r, "cached") /\ UNCHANGED <<authMutex, authLate>>
       ELSE /\ authMutex' = [authMutex EXCEPT ![s] = r]
            /\ authReq' = [authReq EXCEPT ![r] = [pc |-> "validate", key |-> k, scheme |-> s,
                                                  config |-> authConfig[s]]]
            /\ authLate' = IF authTask = "transport" THEN authLate \cup {k} ELSE authLate
            /\ UNCHANGED authAnswer
    /\ UNCHANGED <<authCache, authVia, authConfig, authTask, authChecks>>

(* The answer of the server.  authCache.Add fails for a key that is there. *)
Validated(r) ==
    LET k == authReq[r].key  s == authReq[r].scheme  c == authReq[r].config
        accepted == k \in AcceptedBy(s, c)
    IN
    /\ authReq[r].pc = "validate"
    /\ authMutex' = [authMutex EXCEPT ![s] = NoRequest]
    /\ \/ /\ accepted /\ ~Cached(k)
          /\ authCache' = [authCache EXCEPT ![k] = c]
          /\ authVia' = [authVia EXCEPT ![k] = s]
          /\ AnswerTo(r, "validated")
       \/ accepted /\ Cached(k) /\ AnswerTo(r, "already exists") /\ UNCHANGED <<authCache, authVia>>
       \/ ~accepted /\ AnswerTo(r, "unauthorized") /\ UNCHANGED <<authCache, authVia>>
       \/ AnswerTo(r, "server failed") /\ UNCHANGED <<authCache, authVia>>
    /\ UNCHANGED <<authConfig, authTask, authChecks, authLate>>

(* The keys that a server is being asked about. *)
UnderWay == {authReq[r].key : r \in {q \in Requests : authReq[q].pc = "validate"}}

(* An entry lives for an hour. *)
CacheExpires(k) ==
    /\ Cached(k)
    /\ authCache' = [authCache EXCEPT ![k] = 0]
    /\ authLate' = authLate \ ({k} \ UnderWay)
    /\ UNCHANGED <<authVia, authConfig, authTask, authMutex, authReq, authAnswer, authChecks>>

(* The config task replaces dsClient ... *)
ConfigClient ==
    /\ authTask = "idle" /\ authConfig["GWOS"] < MaxConfigs
    /\ authConfig' = [authConfig EXCEPT !["GWOS"] = @ + 1]
    /\ authTask' = "flush"
    /\ UNCHANGED <<authCache, authVia, authMutex, authReq, authAnswer, authChecks, authLate>>

\* Mutant of ConfigFlush: the cache outlives the configuration.
ConfigKeepsCache ==
    /\ authTask = "flush" /\ authTask' = "transport"
    /\ authLate' = UnderWay
    /\ UNCHANGED <<authCache, authVia, authConfig, authMutex, authReq, authAnswer, authChecks>>

(* ... flushes the cache ... *)
ConfigFlush ==
    /\ authTask = "flush" /\ authTask' = "transport"
    /\ authCache' = [k \in Keys |-> 0]
    /\ authLate' = UnderWay
    /\ UNCHANGED <<authVia, authConfig, authMutex, authReq, authAnswer, authChecks>>

(* ... and starts the transport, which makes the gwClients, or does not. *)
ConfigTransport ==
    /\ authTask = "transport" /\ authTask' = "idle"
    /\ \/ authConfig' = [authConfig EXCEPT !["BASIC"] = authConfig["GWOS"]]
       \/ UNCHANGED authConfig
    /\ UNCHANGED <<authCache, authVia, authMutex, authReq, authAnswer, authChecks, authLate>>

(* The keys whose answer is, or will be, that of the BASIC client. *)
OfBasicClient ==
    {k \in Keys : Cached(k) /\ authVia[k] = "BASIC"} \cup
    {authReq[r].key : r \in {q \in Requests : authReq[q].pc = "validate" /\ authReq[q].scheme = "BASIC"}}

(* startTransport of POST /start or of the reset of NATS: the gwClients of *)
(* the configuration of now, and the cache as it is.                       *)
StartTransportTask ==
    /\ authTask = "idle" /\ authConfig["BASIC"] # authConfig["GWOS"]
    /\ authConfig' = [authConfig EXCEPT !["BASIC"] = authConfig["GWOS"]]
    /\ authLate' = authLate \cup OfBasicClient
    /\ UNCHANGED <<authCache, authVia, authTask, authMutex, authReq, authAnswer, authChecks>>

AuthNext ==
    \/ \E r \in Requests :
         \/ CheckAccessEarly(r) \/ LockAndLook(r) \/ Validated(r)
         \/ \E s \in Schemes, k \in Keys : CheckAccess(r, s, k)
    \/ \E k \in Keys : CacheExpires(k)
    \/ ConfigClient \/ ConfigFlush \/ ConfigTransport \/ StartTransportTask

AuthSpec == AuthInit /\ [][AuthNext]_authVars

(* Types of the cache and the requests. *)
AuthTypeOK ==
    /\ authCache \in [Keys -> 0..MaxConfigs] /\ authConfig \in [Schemes -> 0..MaxConfigs]
    /\ \A s \in DOMAIN authMutex : authMutex[s] \in Requests \cup {NoRequest}
    /\ \A r \in Requests : authReq[r].pc \in {"idle", "lock", "validate"}

(* Credentials that the server has just accepted are turned away only when *)
(* they share their key with credentials of the other scheme: two requests *)
(* with the same new credentials do not trip over each other in            *)
(* authCache.Add, two of different schemes have different mutexes.         *)
AcceptedIsLetIn ==
    \A r \in Requests :
        authAnswer[r].why = "already exists" => authAnswer[r].key \in BasicKeys \cap GwosKeys

(* Outside a config task the cache holds only what the server of the       *)
(* client in use accepted, but for keys that a server was being asked      *)
(* about when the task flushed the cache, or was asked about before the    *)
(* task ended, and for what the BASIC client had answered, or was about    *)
(* to, when a start of the transport replaced it (agent.go:634): these     *)
(* stay until they expire or the next flush.                               *)
CacheFollowsConfig ==
    authTask = "idle" => \A k \in Keys :
        Cached(k) => authCache[k] = authConfig[authVia[k]] \/ k \in authLate

(* The cache lets in those and only those the servers in use accepted, and *)
(* the exceptions are these two.                                           *)
AuthFollowsConfig == AuthTypeOK /\ AcceptedIsLetIn /\ CacheFollowsConfig
=============================================================================
