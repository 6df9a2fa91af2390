--------------------------- MODULE MCDynamicGroup ---------------------------
(* One group condition, on the group with id 1 or 2, in the spellings ChurchTools and a *)
(* ruleset file use: with a display label, with the id as a string or a float, with     *)
(* timestamps and wrapped in an array; and three rules that only look alike: wrapped in *)
(* a stereotype, with a leading zero, and with another process.                        *)
EXTENDS DynamicGroup, Ruleset, TLC

Rule(query) == Object([k \in {"query"} |-> Array(<<query>>)])

With(v, key, value) ==
    Object([k \in DOMAIN v.fields \cup {key} |-> IF k = key THEN value ELSE v.fields[k]])

Field(key, value) == Object([k \in {key} |-> value])

Plain(n) == Rule(Number(n, "int"))

Stereotyped == Rule(Labelled(Field("stereotype", Text("groupmembership")), Number(1, "int")))

LeadingZero == Rule(Text("01"))

OtherProcess == With(Plain(1), "process", IntString(1))

MCMeans ==
    [rule \in {Plain(1), Rule(Number(1, "float")), Rule(Labelled(Field("title", Text("x")), IntString(1))),
               Array(<<With(Plain(1), "dynamicGroupUpdateStarted", Text("noon"))>>)} |-> "one"]
    @@ [rule \in {Plain(2), Array(<<Rule(Labelled(Null, IntString(2)))>>)} |-> "two"]
    @@ [rule \in {Stereotyped} |-> "stereotyped"]
    @@ [rule \in {LeadingZero} |-> "zero"]
    @@ [rule \in {OtherProcess} |-> "process"]

MCLiveRules == DOMAIN MCMeans

\* The wrappings of one rule, and of none.
ASSUME WrappingsAssumption ==
    /\ \A v \in {Plain(1), Array(<<Plain(1)>>), PutBody(Plain(1)), Array(<<PutBody(Plain(1))>>)} :
          Equal(Normalize(v), Plain(1))
    /\ \A v \in {Null, Empty, Array(<<>>), Array(<<Null>>), PutBody(Null), PutBody(Empty),
                  Field("dynamicGroupRuleSet", Array(<<>>))} :
          Equal(Normalize(v), Empty)

Says(doc, refs, status, means) == [doc |-> doc, refs |-> refs, status |-> status, means |-> means]

Marked == Rule(Ref("group:g"))

To(n) == [k \in {"group:g"} |-> n]

MCConfigs ==
    {Says(Marked, To(1), "active", "one"),
     Says(Marked, To(2), "active", "two"),
     Says(Rule(Labelled(Text("group"), IntString(1))), <<>>, "manual", "one"),
     Says(PutBody(Marked), To(2), "manual", "two"),
     Says(Stereotyped, <<>>, "active", "stereotyped")}

=============================================================================
