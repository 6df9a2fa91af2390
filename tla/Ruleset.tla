------------------------------ MODULE Ruleset ------------------------------
(***************************************************************************)
(* internal/ruleset: when two rulesets of a dynamic group are the same.     *)
(* ChurchTools hands a ruleset back with display labels, integers spelt as  *)
(* strings, timestamps and wrappings; the authored file has markers in the  *)
(* place of ids.  Everything is compared in one normal form.                *)
(*                                                                         *)
(* A JSON value is a record with a tag t.  What is inside a string matters  *)
(* only where the code looks: an integer written as a string, and free text.*)
(***************************************************************************)
EXTENDS Integers, Sequences

Null == [t |-> "null"]

\* A number keeps its spelling, the canonical one ("int") or another ("float": 1.0).
Number(n, spelt) == [t |-> "number", n |-> n, spelt |-> spelt]

\* A string: an integer in canonical spelling and range, or anything else.
IntString(n) == [t |-> "intString", n |-> n]
Text(s) == [t |-> "text", s |-> s]

Array(items) == [t |-> "array", items |-> items]

Object(fields) == [t |-> "object", fields |-> fields]

Empty == Object(<<>>)

\* A marker: an object with __ctRef, of which the code uses the refs key.
Ref(key) == [t |-> "ref", key |-> key]

IsObject(v) == v.t = "object"

Has(v, key) == IsObject(v) /\ key \in DOMAIN v.fields

ReadOnlyKeys == {"dynamicGroupUpdateStarted", "dynamicGroupUpdateFinished"}

---------------------------------------------------------------------------
(* dterm labels *)

\* Null, a string, or an object that has nothing but a title.
IsCosmeticLabel(label) ==
    \/ label.t \in {"null", "text", "intString"}
    \/ IsObject(label) /\ DOMAIN label.fields \subseteq {"title"}

\* Exactly {dterm: [label, expr]}.
IsLabelWrapper(v) ==
    /\ IsObject(v) /\ DOMAIN v.fields = {"dterm"}
    /\ v.fields["dterm"].t = "array"
    /\ Len(v.fields["dterm"].items) = 2

LabelOf(v) == v.fields["dterm"].items[1]

ExprOf(v) == v.fields["dterm"].items[2]

Labelled(label, expr) == Object([k \in {"dterm"} |-> Array(<<label, expr>>)])

RECURSIVE StripCosmeticLabels(_)
StripCosmeticLabels(v) ==
    CASE v.t = "array" -> Array([i \in DOMAIN v.items |-> StripCosmeticLabels(v.items[i])])
      [] IsLabelWrapper(v) ->
            LET expr == StripCosmeticLabels(ExprOf(v))
            IN  IF IsCosmeticLabel(LabelOf(v)) THEN expr ELSE Labelled(LabelOf(v), expr)
      [] IsObject(v) /\ ~IsLabelWrapper(v) ->
            Object([k \in DOMAIN v.fields |-> StripCosmeticLabels(v.fields[k])])
      [] OTHER -> v

\* Integers written as strings become numbers, but in a label that is kept.
RECURSIVE CoerceScalars(_)
CoerceScalars(v) ==
    CASE v.t = "array" -> Array([i \in DOMAIN v.items |-> CoerceScalars(v.items[i])])
      [] IsLabelWrapper(v) -> Labelled(LabelOf(v), CoerceScalars(ExprOf(v)))
      [] IsObject(v) /\ ~IsLabelWrapper(v) ->
            Object([k \in DOMAIN v.fields |-> CoerceScalars(v.fields[k])])
      [] v.t = "intString" -> Number(v.n, "int")
      [] OTHER -> v

---------------------------------------------------------------------------
(* Normal form, comparison, markers *)

\* An array stands for its first element; an empty one, a null and a null element for {}.
Unwrapped(v) ==
    LET first == IF v.t # "array" THEN v ELSE IF v.items = <<>> THEN Empty ELSE v.items[1]
    IN  IF first.t = "null" THEN Empty ELSE first

\* The ruleset inside [RuleSet] and inside the PUT envelope.  Normalize fails where that
\* is no object; ValidateConfig lets no such text through, and ChurchTools serves none.
Inner(v) ==
    LET rule == Unwrapped(v)
    IN  IF Has(rule, "dynamicGroupRuleSet")
           /\ rule.fields["dynamicGroupRuleSet"].t \in {"array", "object"}
        THEN Unwrapped(rule.fields["dynamicGroupRuleSet"])
        ELSE rule

\* Normalize: without the timestamps; only the query is rewritten.
Normalize(v) ==
    LET rule == Inner(v)
    IN  Object([k \in DOMAIN rule.fields \ ReadOnlyKeys |->
                   IF k = "query" THEN CoerceScalars(StripCosmeticLabels(rule.fields[k]))
                   ELSE rule.fields[k]])

\* CanonicalNumber: a number in its canonical spelling.
CanonicalNumber(v) == Number(v.n, "int")

\* What Canonical writes, read back.
RECURSIVE Canonical(_)
Canonical(v) ==
    CASE v.t = "array" -> Array([i \in DOMAIN v.items |-> Canonical(v.items[i])])
      [] IsObject(v) -> Object([k \in DOMAIN v.fields |-> Canonical(v.fields[k])])
      [] v.t = "number" -> CanonicalNumber(v)
      [] OTHER -> v

\* Equal: keys in any order, arrays in order, numbers by value.
RECURSIVE Equal(_, _)
Equal(v, w) ==
    /\ v.t = w.t
    /\ CASE v.t = "array" ->
               /\ Len(v.items) = Len(w.items)
               /\ \A i \in DOMAIN v.items : Equal(v.items[i], w.items[i])
         [] v.t = "object" ->
               /\ DOMAIN v.fields = DOMAIN w.fields
               /\ \A k \in DOMAIN v.fields : Equal(v.fields[k], w.fields[k])
         [] v.t = "number" -> v.n = w.n
         [] OTHER -> v = w

\* Markers: the refs keys a tree asks for.
RECURSIVE Markers(_)
Markers(v) ==
    CASE v.t = "array" -> UNION {Markers(v.items[i]) : i \in DOMAIN v.items}
      [] v.t = "object" -> UNION {Markers(v.fields[k]) : k \in DOMAIN v.fields}
      [] v.t = "ref" -> {v.key}
      [] OTHER -> {}

\* Resolve, for refs that have every marker: the ids in the markers' place.
RECURSIVE Resolve(_, _)
Resolve(v, refs) ==
    CASE v.t = "array" -> Array([i \in DOMAIN v.items |-> Resolve(v.items[i], refs)])
      [] v.t = "object" -> Object([k \in DOMAIN v.fields |-> Resolve(v.fields[k], refs)])
      [] v.t = "ref" -> Number(refs[v.key], "int")
      [] OTHER -> v

\* PutBody, of which ChurchTools stores the ruleset inside.
PutBody(v) == Object([k \in {"dynamicGroupRuleSet"} |-> Array(<<v>>)])

=============================================================================
