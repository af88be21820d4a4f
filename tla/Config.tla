------------------------------- MODULE Config -------------------------------
(***************************************************************************)
(* config/config.go: the configuration is merged of defaults, the file and *)
(* the environment when the process starts (GetConfig), and of defaults,   *)
(* the file, a pushed ConnectorDTO and the environment for every config    *)
(* task (LoadConnectorDTO), which also writes the file.  The process may   *)
(* die between any two steps, and while the file is being written.         *)
(***************************************************************************)
EXTENDS Integers, FiniteSets

CONSTANTS
    CfgEnvs,        \* environments: partial functions from options to values
    CfgDTOs,        \* pushed configurations: functions on PushedOptions
    MaxLoads,       \* bound: config tasks
    MaxBoots        \* bound: starts of the process

VARIABLES
    cfgFile,        \* options in tcg_config.yaml, a partial function
    cfgNew,         \* newCfg while a config task runs
    cfgLive,        \* cfg
    cfgPc,          \* "down", "up", or the next step of LoadConnectorDTO
    cfgEnv,         \* environment of the process
    cfgSaved,       \* history: the file holds what cfg was made of
    cfgBare,        \* history: cfg was made without the environment
    cfgLoads, cfgBoots

cfgVars == <<cfgFile, cfgNew, cfgLive, cfgPc, cfgEnv, cfgSaved, cfgBare, cfgLoads, cfgBoots>>

(* Options by where they come from: pushed and in the file, in the file    *)
(* only, from the environment only (yaml:"-"), computed.                   *)
PushedOptions == {"appType", "enabled", "password", "prefix"}
FileOptions == PushedOptions \cup {"natsStore"}
EnvOptions == FileOptions \cup {"natsMaxPayload", "gwEncode"}
Options == EnvOptions \cup {"isDynamicInventory", "httpEncode"}

defaults == [o \in Options |-> IF o \in {"natsStore", "natsMaxPayload"} THEN "default" ELSE ""]

(* A pushed configuration has all its options; a value tells whether it    *)
(* comes from the environment.                                             *)
ASSUME CfgAssumption ==
    /\ \A dto \in CfgDTOs : DOMAIN dto = PushedOptions
    /\ \A env \in CfgEnvs : \A o \in DOMAIN env \cap FileOptions :
         env[o] # defaults[o] /\ \A dto \in CfgDTOs : o \in PushedOptions => env[o] # dto[o]

Override(c, d) == [o \in DOMAIN c |-> IF o \in DOMAIN d THEN d[o] ELSE c[o]]
Only(c, os) == [o \in os |-> c[o]]

(* A password is written sealed with the key of the environment, if there  *)
(* is one, and cannot be read without it.                                  *)
SecKey == IF "secKey" \in DOMAIN cfgEnv THEN cfgEnv["secKey"] ELSE ""
MarshalYAML(c) == [Only(c, FileOptions) EXCEPT !["password"] = <<SecKey, @>>]
UnmarshalYAML(f) ==
    [o \in DOMAIN f |-> IF o # "password" THEN f[o]
                        ELSE IF f[o][1] \in {"", SecKey} THEN f[o][2] ELSE "sealed"]

applyEnv(c) == Override(c, cfgEnv)

(* The flags of the connections follow from others, whatever the           *)
(* environment says of them.                                               *)
PrepareConnections(c) == [c EXCEPT !["httpEncode"] = IF c["gwEncode"] = "force" THEN "on" ELSE "off"]

(* The file is there in full, in part after a crash, or not at all. *)
ReadFile == Override(defaults, UnmarshalYAML(cfgFile))

CfgInit ==
    /\ cfgEnv \in CfgEnvs
    /\ cfgFile \in {<<>>, MarshalYAML(defaults)}
    /\ cfgNew = defaults /\ cfgLive = PrepareConnections(applyEnv(ReadFile))
    /\ cfgPc = "down" /\ cfgSaved = TRUE /\ cfgBare = FALSE
    /\ cfgLoads = 0 /\ cfgBoots = 0

\* Mutant of GetConfig: the process starts on defaults and waits for a push.
GetConfigNoFile ==
    /\ cfgPc = "down" /\ cfgBoots < MaxBoots
    /\ cfgBoots' = cfgBoots + 1
    /\ cfgLive' = PrepareConnections(applyEnv(defaults))
    /\ cfgPc' = "up"
    /\ cfgBare' = FALSE
    /\ UNCHANGED <<cfgFile, cfgNew, cfgEnv, cfgSaved, cfgLoads>>

GetConfig ==
    /\ cfgPc = "down" /\ cfgBoots < MaxBoots
    /\ cfgBoots' = cfgBoots + 1
    /\ cfgLive' = PrepareConnections(applyEnv(ReadFile))
    /\ cfgPc' = "up"
    /\ cfgBare' = FALSE
    /\ UNCHANGED <<cfgFile, cfgNew, cfgEnv, cfgSaved, cfgLoads>>

(* Connectors of these types always send to the dynamic entrypoint. *)
loadDynamicInventoryFlag(c) ==
    [c EXCEPT !["isDynamicInventory"] = IF c["appType"] = "APM" THEN "yes" ELSE "no"]

loadConnector(c, dto) == Override(c, dto)

(* LoadConnectorDTO up to the file ... *)
LoadDTO(dto) ==
    /\ cfgPc = "up" /\ cfgLoads < MaxLoads
    /\ cfgLoads' = cfgLoads + 1
    /\ cfgNew' = loadDynamicInventoryFlag(loadConnector(ReadFile, dto))
    /\ cfgPc' = "write"
    /\ UNCHANGED <<cfgFile, cfgLive, cfgEnv, cfgSaved, cfgBare, cfgBoots>>

(* os.WriteFile truncates the file before it writes: what is there of it   *)
(* when it fails or the process ends.                                      *)
Torn(os) == [o \in os |-> MarshalYAML(cfgNew)[o]]

(* ... the file, if the password can be sealed (which asks the system for  *)
(* random bytes) and the file written ...                                  *)
WriteConfig ==
    /\ cfgPc = "write"
    /\ \/ cfgFile' = MarshalYAML(cfgNew) /\ cfgPc' = "saved" /\ cfgSaved' = FALSE
       \/ \E os \in SUBSET FileOptions : cfgFile' = Torn(os) /\ cfgPc' = "unsaved" /\ cfgSaved' = FALSE
       \/ cfgPc' = "unsaved" /\ UNCHANGED <<cfgFile, cfgSaved>>
       \/ SecKey # "" /\ cfgPc' = "unsealed" /\ UNCHANGED <<cfgFile, cfgSaved>>
    /\ UNCHANGED <<cfgNew, cfgLive, cfgEnv, cfgBare, cfgLoads, cfgBoots>>

(* ... and the rest, which makes the new configuration the current one:    *)
(* without the environment when the password could not be sealed.          *)
ApplyConfig ==
    /\ cfgPc \in {"saved", "unsaved", "unsealed"}
    /\ cfgLive' = PrepareConnections(IF cfgPc = "unsealed" THEN cfgNew ELSE applyEnv(cfgNew))
    /\ cfgPc' = "up" /\ cfgSaved' = (cfgPc = "saved") /\ cfgBare' = (cfgPc = "unsealed")
    /\ UNCHANGED <<cfgFile, cfgNew, cfgEnv, cfgLoads, cfgBoots>>

(* The process ends. *)
CfgCrash ==
    /\ cfgPc # "down" /\ cfgPc' = "down"
    /\ \/ UNCHANGED <<cfgFile, cfgSaved>>
       \/ /\ cfgPc = "write"
          /\ \E os \in SUBSET FileOptions : cfgFile' = Torn(os)
          /\ cfgSaved' = FALSE
    /\ cfgNew' = defaults
    /\ UNCHANGED <<cfgLive, cfgEnv, cfgBare, cfgLoads, cfgBoots>>

CfgNext ==
    \/ GetConfig \/ WriteConfig \/ ApplyConfig \/ CfgCrash
    \/ \E dto \in CfgDTOs : LoadDTO(dto)

CfgSpec == CfgInit /\ [][CfgNext]_cfgVars

(* Types of the configuration. *)
CfgTypeOK ==
    /\ DOMAIN cfgLive = Options /\ DOMAIN cfgNew = Options /\ DOMAIN cfgFile \subseteq FileOptions
    /\ cfgPc \in {"down", "up", "write", "saved", "unsaved", "unsealed"}

(* Every option that the environment gives is in force (README: any config *)
(* option can be overridden with env vars), unless sealing the password    *)
(* failed, and none of them gets into the file, where a password of the    *)
(* environment would stay for good.                                        *)
EnvInForceOnly ==
    /\ cfgPc \in {"up", "write"} /\ ~cfgBare =>
         \A o \in DOMAIN cfgEnv \cap EnvOptions : cfgLive[o] = cfgEnv[o]
    /\ \A o \in DOMAIN cfgFile \cap DOMAIN cfgEnv :
         (IF o = "password" THEN cfgFile[o][2] ELSE cfgFile[o]) # cfgEnv[o]

(* A process that starts again runs on the configuration of the one before *)
(* if that one had written its file, but for the dynamic inventory flag,   *)
(* which comes back with the next push only.                               *)
RestartKeepsConfig ==
    [][cfgPc = "down" /\ cfgPc' = "up" /\ cfgSaved =>
         \A o \in Options \ {"isDynamicInventory"} : cfgLive'[o] = cfgLive[o]]_cfgVars

(* A configuration survives: what is in force comes from the file and the  *)
(* environment, in this process and in the next.                           *)
ConfigSurvives == [](CfgTypeOK /\ EnvInForceOnly) /\ RestartKeepsConfig
=============================================================================
