------------------------------- MODULE Mapping -------------------------------
(***************************************************************************)
(* Mappings of tags to names (sdk/mapping).  A mapping has tags, whether   *)
(* its regular expression compiles, whether it is compiled, and the        *)
(* expansion of its template for every content it matches.                 *)
(***************************************************************************)
EXTENDS Integers, Sequences, FiniteSets, SequencesExt, FiniteSetsExt

Mapped(value) == [ok |-> TRUE, value |-> value]
Unmapped == [ok |-> FALSE, value |-> ""]

Content(m, tags) == [i \in DOMAIN m.tags |-> tags[m.tags[i]]]
Tagged(m, tags) == ToSet(m.tags) \subseteq DOMAIN tags
Matches(m, tags) == Tagged(m, tags) /\ Content(m, tags) \in DOMAIN m.out
Expand(m, tags) == IF m.tags = <<>> THEN m.template ELSE m.out[Content(m, tags)]

(* All mappings in turn, the names joined; one that fails fails it. *)
Apply(p, tags) ==
    IF \A i \in DOMAIN p : p[i].tags = <<>> \/ Matches(p[i], tags)
    THEN Mapped([i \in DOMAIN p |-> Expand(p[i], tags)])
    ELSE Unmapped

(* The first mapping without tags or with a match. *)
ApplyOR(p, tags) ==
    LET fit == {i \in DOMAIN p : p[i].tags = <<>> \/ Matches(p[i], tags)}
    IN  CASE fit # {} -> Mapped(Expand(p[Min(fit)], tags))
          [] p = <<>> -> Mapped("")
          [] OTHER -> Unmapped

(* A matcher that is not compiled is a nil pointer. *)
ApplyPanics(p, tags) ==
    LET bad == {i \in DOMAIN p : p[i].tags # <<>> /\ ~Matches(p[i], tags)}
        reached == IF bad = {} THEN DOMAIN p ELSE 1..Min(bad)
    IN  \E i \in reached : p[i].tags # <<>> /\ Tagged(p[i], tags) /\ ~p[i].compiled

(* Compile stops at the first expression that is invalid. *)
Compiles(p) == \A i \in DOMAIN p : p[i].valid
Compile(p) ==
    LET n == IF Compiles(p) THEN Len(p) ELSE Min({i \in DOMAIN p : ~p[i].valid}) - 1
    IN  [i \in DOMAIN p |-> [p[i] EXCEPT !.compiled = @ \/ i <= n]]

MatchString(p, str) == p = <<>> \/ \E i \in DOMAIN p : <<str>> \in DOMAIN p[i].out
=============================================================================
