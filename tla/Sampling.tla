------------------------------ MODULE Sampling ------------------------------
(***************************************************************************)
(* connectors/connectors.go and groundworkFunctions.go: how a connector    *)
(* turns values into metrics, services and resources, how synthetic        *)
(* metrics are evaluated when a sample is sent, and the status texts.      *)
(***************************************************************************)
EXTENDS TransitData

CONSTANTS
    SampleBuilders,     \* MetricBuilders that a connector may fill in
    MaxServices,        \* bound: services of the resource
    MaxMetrics          \* bound: metrics of a service

VARIABLES
    smpServices,        \* services built for the resource
    smpBuilding,        \* metrics of the service being built
    smpSent,            \* what SendMetrics made of them
    smpAsked            \* services as they were when it was called

smpVars == <<smpServices, smpBuilding, smpSent, smpAsked>>

(* Results that are no metric: BuildMetric logs a threshold of an          *)
(* unsupported type and then uses the nil it got.                          *)
Failed == [name |-> "error"]
Panicked == [name |-> "panic"]

CreateThreshold(sample, value) == [sample |-> sample, value |-> NewTypedValue(value)]

CreateMetric(b) ==
    [name |-> b.name, value |-> NewTypedValue(b.value), thresholds |-> <<>>,
     compute |-> "", expression |-> b.expression]

(* Thresholds that the connector leaves out are not added. *)
Thresholds(b) ==
    (IF b.warning.type = "nil" THEN <<>> ELSE <<CreateThreshold("Warning", b.warning)>>)
    \o (IF b.critical.type = "nil" THEN <<>> ELSE <<CreateThreshold("Critical", b.critical)>>)

BuildMetric(b) ==
    IF NewTypedValue(b.value) = NoValue THEN Failed
    ELSE IF \E t \in ToSet(Thresholds(b)) : t.value = NoValue THEN Panicked
    ELSE [CreateMetric(b) EXCEPT !.compute = b.compute, !.thresholds = Thresholds(b)]

-----------------------------------------------------------------------------
(* Expressions over finite values.  Division by zero gives an infinite     *)
(* number or a NaN.                                                        *)
Divide(x, y) == IF y # 0 THEN (x * Unit) \div y ELSE IF x >= 0 THEN Infinite ELSE -Infinite
Times(x, y) == (x * y) \div Unit

MaxFloat(x, y) == IF x > y THEN x ELSE y
MinFloat(x, y) == IF x < y THEN x ELSE y

ToPercentage(x) == IF x >= Infinite THEN Infinite ELSE MaxFloat(0, x * 100) + 49
ToPercentageLimit(x) == MaxFloat(0, MinFloat(100 * Unit, x * 100)) + 49
DivideToPercentage(x, y) == IF y = 0 THEN 0 ELSE ToPercentage(Divide(x, y))

(* A factor of zero does not scale. *)
Scaled(x, factor) == IF factor = 0 THEN x ELSE Times(x, factor)
Usage(used, available, uf, af) ==
    IF Scaled(used, uf) = 0 THEN 0 ELSE Divide(Scaled(used, uf), Scaled(available, af))
ScalePercentageUnused(a) ==
    IF a[1] = 0 /\ a[2] = 0 THEN 0 ELSE ToPercentage(Unit - Usage(a[1], a[2], a[3], a[4]))
ScalePercentageUsed(a) ==
    IF a[1] = 0 /\ a[2] = 0 THEN 0 ELSE ToPercentage(Usage(a[1], a[2], a[3], a[4]))

expressionToArgsCountMap ==
    [f \in {"KB", "KB2", "toInt", "toDouble", "toPercentage", "toPercentageLimit"} |-> 1]
    @@ [f \in {"maxInt", "minInt", "percentageUsed", "percentageUnused", "divideToPercentage"} |-> 2]
    @@ [f \in {"scalePercentageUsed", "scalePercentageUnused"} |-> 4]

(* The other units of bytes divide like KB and KB2. *)
expressionToFuncMap(f, a) ==
    CASE f = "KB" -> a[1] \div 1024
      [] f = "KB2" -> a[1] \div 1000
      [] f = "maxInt" -> MaxFloat(a[1], a[2])
      [] f = "minInt" -> MinFloat(a[1], a[2])
      [] f = "toDouble" -> a[1]
      [] f = "toInt" -> IF a[1] >= 0 THEN Unit * (a[1] \div Unit) ELSE -Unit * ((-a[1]) \div Unit)
      [] f = "toPercentage" -> ToPercentage(a[1])
      [] f = "toPercentageLimit" -> ToPercentageLimit(a[1])
      [] f = "divideToPercentage" -> DivideToPercentage(a[1], a[2])
      [] f = "percentageUsed" -> ScalePercentageUsed(<<a[1], a[2], Unit, 0>>)
      [] f = "percentageUnused" -> ScalePercentageUnused(<<a[1], a[2], Unit, 0>>)
      [] f = "scalePercentageUsed" -> ScalePercentageUsed(a)
      [] f = "scalePercentageUnused" -> ScalePercentageUnused(a)

(* An expression is a name, a quotient of two expressions, or a function   *)
(* and its arguments.  The result is a number or an error.                 *)
Good(n) == [ok |-> TRUE, v |-> n, err |-> ""]
Bad(e) == [ok |-> FALSE, v |-> 0, err |-> e]

(* vars maps names to numbers, or to pointers to them: gval follows a      *)
(* pointer, the cast of an argument that is a plain name does not.         *)
RECURSIVE EvaluateGroundworkExpression(_, _)
Operand(e, vars) ==
    IF e.op # "var" THEN EvaluateGroundworkExpression(e, vars)
    ELSE IF e.name \in DOMAIN vars THEN Good(vars[e.name].v) ELSE Bad("undefined")
EvaluateGroundworkExpression(e, vars) ==
    IF e.op = "var"
    THEN IF e.name \notin DOMAIN vars THEN Bad("undefined")
         ELSE IF vars[e.name].pointer THEN Bad("panic") ELSE Good(vars[e.name].v)
    ELSE IF e.op = "/"
    THEN LET l == Operand(e.l, vars)  r == Operand(e.r, vars)
         IN  IF ~l.ok THEN l ELSE IF ~r.ok THEN r ELSE Good(Divide(l.v, r.v))
    ELSE LET as == [i \in DOMAIN e.args |-> EvaluateGroundworkExpression(e.args[i], vars)]
             bad == {i \in DOMAIN as : ~as[i].ok}
         IN  IF e.f \notin DOMAIN expressionToArgsCountMap THEN Bad("no function")
             ELSE IF bad # {} THEN as[Min(bad)]
             ELSE IF Len(as) # expressionToArgsCountMap[e.f] THEN Bad("arguments")
             ELSE Good(expressionToFuncMap(e.f, [i \in DOMAIN as |-> as[i].v]))

(* EvaluateExpression of the API: names come with their values, or from    *)
(* the cache of processes, where all of them have to be.                   *)
EvaluateExpression(e, params, cache, override) ==
    LET known == IF override THEN DOMAIN params ELSE DOMAIN params \cap DOMAIN cache
        value(n) == IF override THEN params[n] ELSE cache[n]
    IN  IF known # DOMAIN params THEN Bad("parameters")
        ELSE EvaluateGroundworkExpression(e, [n \in known |-> [v |-> value(n), pointer |-> FALSE]])

-----------------------------------------------------------------------------
CreateService(name, metrics) ==
    [name |-> name, metrics |-> metrics, status |-> CalculateServiceStatus(metrics), text |-> <<>>]

(* Names are the metrics that are measured, integers by value and doubles  *)
(* by pointer; the last one of a name counts.                              *)
Measured(services) ==
    SelectSeq(FlattenSeq([i \in DOMAIN services |-> services[i].metrics]),
              LAMBDA m : m.compute # "Synthetic" /\ m.value.type \in Numeric)
Vars(services) ==
    FoldLeft(LAMBDA vars, m : (m.name :> [v |-> m.value.v, pointer |-> m.value.type = "Double"]) @@ vars,
             <<>>, Measured(services))

Evaluated(service, vars) ==
    SelectSeq(service.metrics, LAMBDA m : m.compute = "Synthetic"
                                          /\ EvaluateGroundworkExpression(m.expression, vars).ok)

(* A service becomes the last of its synthetic metrics that could be       *)
(* evaluated, and nothing else: its other metrics and its text are gone.   *)
EvaluateExpression1(service, vars) ==
    LET done == Evaluated(service, vars)
        m == Last(done)
        v == EvaluateGroundworkExpression(m.expression, vars).v
    IN  IF done = <<>> THEN service
        ELSE CreateService(service.name,
                           <<[m EXCEPT !.compute = "", !.value = [type |-> "Double", v |-> v]]>>)

(* One name that stands for a double ends the whole evaluation. *)
Panics(services) ==
    \E s \in ToSet(services) : \E m \in ToSet(s.metrics) :
        m.compute = "Synthetic"
        /\ EvaluateGroundworkExpression(m.expression, Vars(services)).err = "panic"

\* Mutant of EvaluateExpressions: a service whose expression fails is left out.
EvaluateExpressionsGood(services) ==
    LET good == SelectSeq(services, LAMBDA s : \A m \in ToSet(s.metrics) : m.compute = "Synthetic" =>
                              EvaluateGroundworkExpression(m.expression, Vars(services)).ok)
    IN  [i \in DOMAIN good |-> EvaluateExpression1(good[i], Vars(services))]

EvaluateExpressions(services) ==
    [i \in DOMAIN services |-> EvaluateExpression1(services[i], Vars(services))]

-----------------------------------------------------------------------------
(* Texts.  A threshold is missing from a text when it reads -1, which a    *)
(* double does not; a value that is no number has none.                    *)
None(t) == t = NoValue \/ (t.type = "Integer" /\ t.v = -Unit)

(* What is said of one metric: the thresholds that it has reached. *)
addThresholdsToStatusText(m) ==
    LET w == Threshold(m, "Warning")
        c == Threshold(m, "Critical")
        reached(t) == ~None(t) /\ m.value.v # NaN /\ m.value.v >= t.v
    IN  IF m.thresholds = <<>> \/ m.value.type \notin Numeric
           \/ (~None(w) /\ w.type \notin Numeric) \/ (~None(c) /\ c.type \notin Numeric)
        THEN {}
        ELSE {t \in {"Warn", "Crit"} : reached(IF t = "Warn" THEN w ELSE c)}

addServiceStatusText(service) ==
    [service EXCEPT !.text = [i \in DOMAIN service.metrics |-> addThresholdsToStatusText(service.metrics[i])]]

buildHostStatusText(services) ==
    LET count(ss) == Len(SelectSeq(services, LAMBDA s : s.status \in ss))
    IN  [ok |-> count({"OK"}), warn |-> count({"WARNING"}), critical |-> count({"CRITICAL"}),
         other |-> Len(SelectSeq(services, LAMBDA s : s.status \notin {"OK", "WARNING", "CRITICAL"}))]

(* A resource takes its times from its first service and is always up. *)
CreateResource(services) ==
    [status |-> CalculateResourceStatus(services), services |-> services, text |-> buildHostStatusText(services)]

-----------------------------------------------------------------------------
SmpInit == smpServices = <<>> /\ smpBuilding = <<>> /\ smpSent = <<>> /\ smpAsked = <<>>

(* A connector fills in one more metric of a service ... *)
AddMetric(b) ==
    /\ smpSent = <<>> /\ Len(smpServices) < MaxServices /\ Len(smpBuilding) < MaxMetrics
    /\ BuildMetric(b) \notin {Failed, Panicked}
    /\ smpBuilding' = Append(smpBuilding, BuildMetric(b))
    /\ UNCHANGED <<smpServices, smpSent, smpAsked>>

(* ... and the service of them, without a text for BuildServiceForMetric   *)
(* (of one metric) and BuildServiceForMultiMetric ...                      *)
BuildService(made(_)) ==
    /\ smpSent = <<>> /\ Len(smpServices) < MaxServices
    /\ smpServices' = Append(smpServices, made(CreateService(Len(smpServices) + 1, smpBuilding)))
    /\ smpBuilding' = <<>>
    /\ UNCHANGED <<smpSent, smpAsked>>

Plain(service) == service
BuildServiceForMultiMetric == BuildService(Plain)

(* ... and with one for BuildServiceForMetrics and for                     *)
(* BuildServiceForMetricWithStatusText (of one metric).                    *)
BuildServiceForMetrics == BuildService(addServiceStatusText)

(* A metric that cannot be built ends the service, one that panics the     *)
(* whole handler, and StartPeriodic goes on.                               *)
BuildFails(b) ==
    /\ smpSent = <<>> /\ Len(smpServices) < MaxServices
    /\ BuildMetric(b) \in {Failed, Panicked}
    /\ smpBuilding' = <<>>
    /\ smpServices' = IF BuildMetric(b) = Panicked THEN <<>> ELSE smpServices
    /\ UNCHANGED <<smpSent, smpAsked>>

(* SendMetrics: the payload is one JSON text, or nothing: a double that is *)
(* not finite, evaluated or measured, has no such text.                    *)
SendSample ==
    /\ smpSent = <<>> /\ smpServices # <<>> /\ smpBuilding = <<>>
    /\ LET services == EvaluateExpressions(smpServices)
           fails == \E s \in ToSet(services) : \E m \in ToSet(s.metrics) :
                        m.value.type = "Double" /\ ~Finite(m.value.v)
       IN  smpSent' = IF Panics(smpServices) THEN <<"panic">>
                      ELSE IF fails THEN <<"error">> ELSE <<"sent", CreateResource(services)>>
    /\ smpAsked' = smpServices /\ smpServices' = <<>> /\ UNCHANGED smpBuilding

NextRound ==
    /\ smpSent # <<>> /\ smpSent' = <<>> /\ smpAsked' = <<>> /\ UNCHANGED <<smpServices, smpBuilding>>

SmpNext ==
    \/ \E b \in SampleBuilders : AddMetric(b) \/ BuildFails(b)
    \/ BuildServiceForMultiMetric \/ BuildServiceForMetrics \/ SendSample \/ NextRound

(* What a sent service shows agrees with its metrics: the worst metric     *)
(* decides (in any order), both thresholds given count in their own        *)
(* direction, integers and doubles alike, and when they count upwards the  *)
(* text, where the service was built with one, names the thresholds that   *)
(* the status is about.  A NaN is beyond no threshold.                     *)
StatusIsWorst ==
    \A s \in ToSet(smpServices) :
        LET thresholds(m) == <<Threshold(m, "Warning").v, Threshold(m, "Critical").v>>
            beyond(m, t) == IF thresholds(m)[1] > thresholds(m)[2] THEN m.value.v <= t ELSE m.value.v >= t
            plain == {i \in DOMAIN s.metrics : Len(s.metrics[i].thresholds) = 2
                                               /\ s.metrics[i].value.type \in Numeric /\ s.metrics[i].value.v # NaN
                                               /\ \A j \in 1..2 : thresholds(s.metrics[i])[j] >= 0}
        IN  /\ (\E i \in plain : beyond(s.metrics[i], thresholds(s.metrics[i])[2])) => s.status = "CRITICAL"
            /\ plain = DOMAIN s.metrics /\ plain # {} =>
                 /\ s.status = "OK" <=>
                      \A i \in plain : \A j \in 1..2 : ~beyond(s.metrics[i], thresholds(s.metrics[i])[j])
                 /\ s.text # <<>> /\ (\A i \in plain : thresholds(s.metrics[i])[1] <= thresholds(s.metrics[i])[2]) =>
                      (s.status # "OK" <=> \E i \in plain : s.text[i] # {})

(* A sample reaches the transit service with all of its services, in their *)
(* order, those without a synthetic metric as they were measured, and the  *)
(* host's text counts every one; it is lost only to a measured double that *)
(* is not finite, or to an expression that names a double by itself or     *)
(* divides by a zero; and one that measured such a double is lost unless   *)
(* the service of it was replaced by its synthetic metric.                 *)
SampleSentWhole ==
    smpSent # <<>> =>
        LET metrics == UNION {ToSet(s.metrics) : s \in ToSet(smpAsked)}
            synthetic == {m \in metrics : m.compute = "Synthetic"}
            doubles == {m.name : m \in {n \in metrics \ synthetic : n.value.type = "Double"}}
            zeros == {m.name : m \in {n \in metrics \ synthetic : n.value.v = 0}}
            plainNames(e) == IF e.op = "var" THEN {e.name} ELSE IF e.op = "/" THEN {}
                             ELSE {a.name : a \in {x \in ToSet(e.args) : x.op = "var"}}
            divisors(e) == IF e.op = "/" THEN {e.r.name} ELSE IF e.op = "var" THEN {} ELSE {e.args[2].name}
        IN  IF smpSent[1] # "sent"
            THEN \/ \E m \in metrics : m.value.type = "Double" /\ ~Finite(m.value.v)
                 \/ \E m \in synthetic : plainNames(m.expression) \cap doubles # {}
                                         \/ divisors(m.expression) \cap zeros # {}
            ELSE LET sent == smpSent[2].services
                     t == smpSent[2].text
                 IN  /\ \A s \in ToSet(smpAsked) :
                          (\E m \in ToSet(s.metrics) : m.value.type = "Double" /\ ~Finite(m.value.v))
                              => \E m \in ToSet(s.metrics) : m.compute = "Synthetic"
                     /\ Len(sent) = Len(smpAsked)
                     /\ \A i \in DOMAIN sent :
                          /\ sent[i].name = smpAsked[i].name
                          /\ (\A m \in ToSet(smpAsked[i].metrics) : m.compute # "Synthetic") => sent[i] = smpAsked[i]
                     /\ t.ok + t.warn + t.critical + t.other = Len(smpAsked)

(* A sample says what was measured, with the status that its values ask    *)
(* for, or its loss has one of the known causes.                           *)
SamplesFaithful == StatusIsWorst /\ SampleSentWhole
=============================================================================
