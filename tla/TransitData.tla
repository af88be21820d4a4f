----------------------------- MODULE TransitData -----------------------------
(***************************************************************************)
(* sdk/transit: typed values, the status of a service from its metrics and *)
(* their thresholds, and the split of an extended inventory into inventory,*)
(* states and downtimes (filterExtInfo of services/transit.go).  Numbers   *)
(* are in hundredths, so that fractions and -1 are told apart.             *)
(***************************************************************************)
EXTENDS Integers, Sequences, SequencesExt

CONSTANT IntWidth       \* bits of an int64 in the model

Unit == 100
NoValue == [type |-> "nil", v |-> 0]

(* Doubles that are no finite number; a NaN compares false with all.       *)
Infinite == 1000000
NaN == 1000001
Finite(v) == v > -Infinite /\ v < Infinite

(* A Go value is its type and its content; a pointer is what it points to. *)
ValueTypes == "bool" :> "Boolean" @@ "float" :> "Double" @@ "int" :> "Integer"
              @@ "uint" :> "Integer" @@ "string" :> "String" @@ "time" :> "Time"

(* int64(v) of an unsigned value beyond the largest int64 is negative. *)
AsInt64(n) == IF n >= 2^(IntWidth - 1) THEN n - 2^IntWidth ELSE n

NewTypedValue(v) ==
    IF v.type \notin DOMAIN ValueTypes THEN NoValue
    ELSE [type |-> ValueTypes[v.type], v |-> IF v.type = "uint" THEN AsInt64(v.v) ELSE v.v]

MonitorStatusWeightService ==
    "OK" :> 0 @@ "PENDING" :> 10 @@ "UNKNOWN" :> 20 @@ "WARNING" :> 30 @@ "CRITICAL" :> 100
Worse(s, t) == IF MonitorStatusWeightService[t] > MonitorStatusWeightService[s] THEN t ELSE s

Numeric == {"Integer", "Double"}
Number(t) == IF t.type \in Numeric THEN t.v ELSE 0

(* Both thresholds given: the value counts upwards, or downwards when the  *)
(* warning is the larger of the two.                                       *)
Compare(v, w, c) ==
    IF w > c THEN IF v <= c THEN "CRITICAL" ELSE IF v <= w THEN "WARNING" ELSE "OK"
             ELSE IF v >= c THEN "CRITICAL" ELSE IF v >= w THEN "WARNING" ELSE "OK"

(* -1 stands for no threshold, and a threshold may be missing.  With one of*)
(* them missing an integer is compared with nothing but -1, a double with  *)
(* zero in its place; with one of them -1 an integer is compared all the   *)
(* same.                                                                   *)
CalculateStatus(value, warning, critical) ==
    LET v == value.v
        w == Number(warning)
        c == Number(critical)
        both == warning # NoValue /\ critical # NoValue
        none == -Unit
    IN  IF warning = NoValue /\ critical = NoValue THEN "OK"
        ELSE IF value.type \notin Numeric \/ v = NaN THEN "OK"
        ELSE IF warning = NoValue /\ c = none THEN IF v >= c THEN "CRITICAL" ELSE "OK"
        ELSE IF critical = NoValue /\ w = none THEN IF v >= w THEN "WARNING" ELSE "OK"
        ELSE IF value.type = "Integer"
             THEN IF ~both \/ (w = none /\ c = none) THEN "OK" ELSE Compare(v, w, c)
             ELSE IF both /\ (w = none \/ c = none) THEN "OK" ELSE Compare(v, w, c)

(* The last threshold of each sample type counts. *)
Threshold(metric, sample) ==
    LET of == SelectSeq(metric.thresholds, LAMBDA t : t.sample = sample)
    IN  IF of = <<>> THEN NoValue ELSE Last(of).value

(* The worst of the metrics; a threshold that is neither warning nor       *)
(* critical ends the calculation with OK.                                  *)
CalculateServiceStatus(metrics) ==
    IF metrics = <<>> THEN "UNKNOWN"
    ELSE IF \E m \in ToSet(metrics) : \E t \in ToSet(m.thresholds) : t.sample \notin {"Warning", "Critical"}
    THEN "OK"
    ELSE FoldLeft(LAMBDA s, m : Worse(s, CalculateStatus(m.value, Threshold(m, "Warning"),
                                                         Threshold(m, "Critical"))),
                  "OK", metrics)

CalculateResourceStatus(services) == "UP"

(* TracerContext.SetContext: only what is not empty replaces. *)
SetContext(p, c) == [f \in DOMAIN p |-> IF c[f] # "" THEN c[f] ELSE p[f]]

-----------------------------------------------------------------------------
(* Properties of an entity of the extended inventory, by where they go. *)
InventoryProps(isHost) == IF isHost THEN {"Alias", "Notes"} ELSE {"Notes"}
StateFields == {"MonitorStatus", "LastPluginOutput", "LastCheckTime", "NextCheckTime"}

(* A host or a service with properties ps: what stays in the inventory,    *)
(* the properties and the fields of its state, and its downtime.  A check  *)
(* time that is not given is now.                                          *)
filterEntity(isHost, ps) ==
    [inventory |-> ps \cap InventoryProps(isHost),
     state     |-> ps \ (StateFields \cup {"ScheduledDowntimeDepth"}),
     fields    |-> (ps \cap StateFields) \cup {"LastCheckTime"},
     downtime  |-> "ScheduledDowntimeDepth" \in ps]

(* A resource is its properties and those of its services.  Downtimes of   *)
(* services say EntityType HOST as well.                                   *)
filterExtInfo(resources) ==
    [i \in DOMAIN resources |->
        [host |-> filterEntity(TRUE, resources[i].props),
         services |-> [j \in DOMAIN resources[i].services |-> filterEntity(FALSE, resources[i].services[j])]]]
=============================================================================
