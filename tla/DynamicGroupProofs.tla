------------------------- MODULE DynamicGroupProofs -------------------------
(***************************************************************************)
(* Theorems about churchtools_dynamic_group, for every set of rulesets,     *)
(* configurations and normal forms that satisfies the assumptions of        *)
(* DynamicGroup: no apply leaves a rule running that nobody configured, and *)
(* a plan over a fresh state says exactly whether the group differs.        *)
(***************************************************************************)
EXTENDS DynamicGroup, TLAPS

---------------------------------------------------------------------------
(* The inductive invariant *)

\* What terraform holds can be resolved with the refs it holds.
StateInv == state # NoState => MarkersOf(state.ruleset) \subseteq DOMAIN state.refs

\* A fresh state shows the rule and the status of the group.
FreshInv ==
    fresh /\ state # NoState /\ group # NoGroup =>
        IF group.rule = NoRule THEN state.status = "none"
        ELSE /\ state.status = group.status
             /\ SameForm(Resolved(state.ruleset, state.refs), NormalForm(group.rule))

\* The planned text is one for the wanted rule.
PlanInv ==
    job # NoJob =>
        /\ MarkersOf(job.plan) \subseteq DOMAIN config.refs
        /\ SameForm(Resolved(job.plan, config.refs), Wanted(config))

\* What is no longer to be written is as it should be, and meanwhile no state is fresh.
JobInv ==
    job # NoJob =>
        /\ ~fresh
        /\ "ruleset" \notin job.todo =>
              group # NoGroup /\ group.rule \in LiveRules /\ Means[group.rule] = config.means
        /\ "status" \notin job.todo => group # NoGroup /\ group.status = config.status

IInv == TypeOK /\ StateInv /\ FreshInv /\ PlanInv /\ JobInv

---------------------------------------------------------------------------
(* Texts and normal forms *)

\* A text that can be resolved has a normal form.
LEMMA ResolvedForm ==
    ASSUME NEW t \in Texts, NEW refs \in RefMaps, MarkersOf(t) \subseteq DOMAIN refs
    PROVE  Resolved(t, refs) \in Forms
<1> DEFINE p == <<t, refs>>
<1>1. p \in {q \in Texts \X RefMaps : MarkersOf(q[1]) \subseteq DOMAIN q[2]}
    OBVIOUS
<1>2. Resolved(t, refs) = Resolved(p[1], p[2])
    OBVIOUS
<1> QED
    BY <1>1, <1>2 DEF Forms

\* So has the wanted rule of a configuration.
LEMMA WantedForm ==
    ASSUME NEW c \in Configs
    PROVE  /\ c.doc \in Texts /\ c.refs \in RefMaps
           /\ MarkersOf(c.doc) \subseteq DOMAIN c.refs
           /\ Wanted(c) \in Forms
<1>1. c.doc \in Texts /\ c.refs \in RefMaps
    BY DEF Texts, Docs, RefMaps
<1>2. MarkersOf(c.doc) \subseteq DOMAIN c.refs
    BY ConfigsAssumption
<1> QED
    BY <1>1, <1>2, ResolvedForm DEF Wanted

\* A text without markers means the same whatever the refs.
LEMMA MarkerFree ==
    ASSUME NEW t \in Texts, NEW refs \in RefMaps, MarkersOf(t) = {}
    PROVE  Resolved(t, refs) = NormalForm(t) /\ NormalForm(t) \in Forms
<1>1. Resolved(t, refs) = NormalForm(t)
    BY MarkersAssumption DEF Resolved
<1> QED
    BY <1>1, ResolvedForm

\* The normal form of a live rule is the wanted one exactly when the rule does what the
\* configuration says.
LEMMA WantedMeans ==
    ASSUME NEW c \in Configs, NEW d \in LiveRules
    PROVE  SameForm(Wanted(c), NormalForm(d)) <=> Means[d] = c.means
<1> DEFINE w == Wanted(c)
           e == Stored(w)
<1>1. w \in Forms /\ SameForm(w, w)
    BY WantedForm, EqualAssumption
<1>2. e \in LiveRules /\ Means[e] = c.means /\ SameForm(NormalForm(e), w)
    BY <1>1, StoreAssumption
<1>3. NormalForm(e) \in Forms /\ NormalForm(d) \in Forms
    BY <1>2 DEF Forms
<1>4. SameForm(w, NormalForm(d)) <=> SameForm(NormalForm(e), NormalForm(d))
    <2> HIDE DEF w, e
    <2>1. SameForm(w, NormalForm(e))
        BY <1>1, <1>2, <1>3, EqualAssumption
    <2> QED
        BY <1>1, <1>2, <1>3, <2>1, EqualAssumption
<1>5. SameForm(NormalForm(e), NormalForm(d)) <=> Means[e] = Means[d]
    BY <1>2, MeansAssumption
<1> QED
    BY <1>2, <1>4, <1>5

\* What Read writes for a live rule can be resolved, to that rule.
LEMMA CanonicalText ==
    ASSUME NEW d \in LiveRules, NEW refs \in RefMaps
    PROVE  LET text == CanonicalForm(NormalForm(d))
           IN  /\ text \in Texts
               /\ MarkersOf(text) = {}
               /\ SameForm(Resolved(text, refs), NormalForm(d))
<1> DEFINE text == CanonicalForm(NormalForm(d))
<1>1. text \in Texts
    BY DEF Texts
<1>2. MarkersOf(text) = {} /\ SameForm(NormalForm(text), NormalForm(d))
    BY CanonicalAssumption
<1>3. Resolved(text, refs) = NormalForm(text)
    BY <1>1, <1>2, MarkerFree
<1> QED
    BY <1>1, <1>2, <1>3

\* ModifyPlan plans a text that resolves, with the refs configured, to the wanted rule.
LEMMA PlanIsWanted ==
    ASSUME TypeOK
    PROVE  /\ PlannedRuleset \in Texts
           /\ MarkersOf(PlannedRuleset) \subseteq DOMAIN config.refs
           /\ SameForm(Resolved(PlannedRuleset, config.refs), Wanted(config))
<1>1. config \in Configs
    BY DEF TypeOK
<1>2. Wanted(config) \in Forms /\ SameForm(Wanted(config), Wanted(config))
    BY <1>1, WantedForm, EqualAssumption
<1>3. CASE PlannedRuleset = config.doc
    BY <1>1, <1>2, <1>3, WantedForm DEF Wanted
<1>4. CASE /\ PlannedRuleset = state.ruleset /\ state # NoState
           /\ SameForm(Wanted(config), NormalForm(state.ruleset))
    <2>1. state.ruleset \in Texts
        BY <1>4 DEF TypeOK, State
    <2>2. config.refs \in RefMaps
        BY <1>1, WantedForm
    <2>3. MarkersOf(state.ruleset) = {}
        BY <1>1, <1>4, <2>1, MarkersAssumption
    <2>4. /\ Resolved(state.ruleset, config.refs) = NormalForm(state.ruleset)
          /\ NormalForm(state.ruleset) \in Forms
        BY <2>1, <2>2, <2>3, MarkerFree
    <2>5. SameForm(NormalForm(state.ruleset), Wanted(config))
        BY <1>2, <1>4, <2>4, EqualAssumption
    <2> QED
        BY <1>4, <2>1, <2>3, <2>4, <2>5
<1> QED
    BY <1>3, <1>4 DEF PlannedRuleset

\* Read shows a rule by a text that resolves, with the refs in state, to that rule.
LEMMA ShownIsLive ==
    ASSUME NEW t \in Texts, NEW refs \in RefMaps,
           group # NoGroup, group.rule \in LiveRules
    PROVE  /\ Shown(t, refs) \in Texts
           /\ MarkersOf(Shown(t, refs)) \subseteq DOMAIN refs
           /\ SameForm(Resolved(Shown(t, refs), refs), NormalForm(group.rule))
<1>1. LiveRule = NormalForm(group.rule)
    BY NoneAssumption DEF LiveRule
<1>2. CASE MarkersOf(t) \subseteq DOMAIN refs /\ SameForm(Resolved(t, refs), LiveRule)
    BY <1>1, <1>2 DEF Shown
<1>3. CASE ~(MarkersOf(t) \subseteq DOMAIN refs /\ SameForm(Resolved(t, refs), LiveRule))
    BY <1>1, <1>3, CanonicalText DEF Shown
<1> QED
    BY <1>2, <1>3

\* A PUT of the planned ruleset leaves a rule that does what the configuration says.
LEMMA PutIsWanted ==
    ASSUME TypeOK, PlanInv, job # NoJob,
           NEW rule \in LiveRules,
           Means[rule] = Means[Stored(Resolved(job.plan, config.refs))]
    PROVE  Means[rule] = config.means
<1>1. config \in Configs /\ job.plan \in Texts
    BY DEF TypeOK, Job
<1>2. config.refs \in RefMaps
    BY <1>1, WantedForm
<1>3. Resolved(job.plan, config.refs) \in Forms
    BY <1>1, <1>2, ResolvedForm DEF PlanInv
<1> QED
    BY <1>1, <1>3, StoreAssumption DEF PlanInv

---------------------------------------------------------------------------
(* Typing *)

\* A PUT leaves a group of the right type, and one that is there.
LEMMA WriteType ==
    ASSUME TypeOK, NEW step \in Steps, Write(step)
    PROVE  group \in Group /\ group' \in Group
<1>1. group \in Group /\ config \in Configs
    BY DEF TypeOK, Write
<1>2. config.status \in Statuses
    BY <1>1, ConfigsAssumption DEF Statuses
<1>3. CASE step = "ruleset"
    BY <1>1, <1>3 DEF Write, PutRuleset, Group
<1>4. CASE step = "status"
    BY <1>1, <1>2, <1>4 DEF Write, PutStatus, Group
<1> QED
    BY <1>1, <1>3, <1>4 DEF Steps

LEMMA TypeStep ==
    ASSUME TypeOK, [Next]_vars
    PROVE  TypeOK'
<1>0. config \in Configs /\ config.refs \in RefMaps /\ config.status \in Statuses
    BY ConfigsAssumption, WantedForm DEF TypeOK, Statuses
<1>1. CASE StartApply
    BY <1>1, PlanIsWanted DEF StartApply, TypeOK, Job, Todo
<1>2. ASSUME NEW step \in Steps, Due(step), Write(step),
             job' = [job EXCEPT !.todo = @ \ {step}],
             UNCHANGED <<config, state, fresh>>
      PROVE  TypeOK'
    BY <1>2, WriteType DEF Due, TypeOK, Job
<1>3. ASSUME NEW step \in Steps, UNCHANGED group \/ Write(step), job' = NoJob,
             UNCHANGED <<config, state, fresh>>
      PROVE  TypeOK'
    BY <1>3, WriteType DEF TypeOK
<1>4. CASE Applied
    <2>1. job.plan \in Texts
        BY <1>4 DEF Applied, TypeOK, Job
    <2> QED
        BY <1>0, <1>4, <2>1 DEF Applied, TypeOK, State
<1>5. CASE Refresh
    <2>1. state \in State
        BY <1>5 DEF Refresh, TypeOK
    <2>2. CASE group = NoGroup
        BY <1>5, <2>2 DEF Refresh, TypeOK
    <2>3. CASE group # NoGroup /\ group.rule = NoRule
        BY <1>5, <2>1, <2>3 DEF Refresh, TypeOK, State, Statuses, Texts
    <2>4. CASE group # NoGroup /\ group.rule # NoRule
        <3>1. group.rule \in LiveRules /\ group.status \in Statuses
            BY <2>4 DEF TypeOK, Group
        <3>2. state.ruleset \in Texts /\ state.refs \in RefMaps
            BY <2>1 DEF State
        <3>3. Shown(state.ruleset, state.refs) \in Texts
            BY <2>4, <3>1, <3>2, ShownIsLive
        <3> QED
            BY <1>5, <2>1, <2>4, <3>1, <3>3 DEF Refresh, TypeOK, State
    <2> QED
        BY <2>2, <2>3, <2>4
<1>6. CASE Import
    <2>1. group.rule \in LiveRules /\ group.status \in Statuses
        BY <1>6 DEF Import, TypeOK, Group
    <2>2. LiveRule = NormalForm(group.rule)
        BY <1>6 DEF Import, LiveRule
    <2>3. <<>> \in RefMaps
        BY DEF RefMaps
    <2> QED
        BY <1>6, <2>1, <2>2, <2>3, CanonicalText DEF Import, TypeOK, State
<1>7. CASE Delete
    BY <1>7 DEF Delete, TypeOK
<1>8. ASSUME NEW c \in Configs, Configure(c)
      PROVE  TypeOK'
    BY <1>8 DEF Configure, TypeOK
<1>9. ASSUME NEW rule \in LiveRules \cup {NoRule}, NEW status \in Statuses, AdminSaves(rule, status)
      PROVE  TypeOK'
    BY <1>9 DEF AdminSaves, TypeOK, Group
<1>10. CASE AdminDeletes
    BY <1>10 DEF AdminDeletes, TypeOK
<1>11. CASE UNCHANGED vars
    BY <1>11 DEF vars, TypeOK
<1> QED
    BY <1>1, <1>2, <1>3, <1>4, <1>5, <1>6, <1>7, <1>8, <1>9, <1>10, <1>11
    DEF Next, Put, PutFails

LEMMA TypeInit == Init => TypeOK
<1> SUFFICES ASSUME Init PROVE TypeOK
    OBVIOUS
<1>1. CASE group = [rule |-> NoRule, status |-> "none"]
    BY <1>1 DEF Init, TypeOK, Group, Statuses
<1>2. CASE group \in {NoGroup} \cup [rule : LiveRules, status : Statuses]
    BY <1>2 DEF Init, TypeOK, Group
<1> QED
    BY <1>1, <1>2 DEF Init

\* Every variable keeps its type: what terraform stores is an authored text or one that
\* Read writes for a live rule, never the rule as ChurchTools hands it back.
THEOREM DynamicGroupTyping == Spec => []TypeOK
<1> QED
    BY TypeInit, TypeStep, PTL DEF Spec

---------------------------------------------------------------------------
(* The invariant, for an apply during which no administrator edits the group *)

LEMMA InvInit == Init => IInv
<1> SUFFICES ASSUME Init PROVE IInv
    OBVIOUS
<1>1. TypeOK
    BY TypeInit
<1>2. state = NoState /\ job = NoJob
    BY DEF Init
<1> QED
    BY <1>1, <1>2 DEF IInv, StateInv, FreshInv, PlanInv, JobInv

\* The state Read leaves is the group's.
LEMMA RefreshStep ==
    ASSUME TypeOK, StateInv, Refresh
    PROVE  StateInv' /\ FreshInv'
<1>1. state \in State /\ UNCHANGED group
    BY DEF Refresh, TypeOK
<1>2. state.ruleset \in Texts /\ state.refs \in RefMaps
    BY <1>1 DEF State
<1>3. CASE group = NoGroup
    BY <1>1, <1>3 DEF Refresh, StateInv, FreshInv
<1>4. CASE group # NoGroup /\ group.rule = NoRule
    <2>1. state' = [state EXCEPT !.ruleset = EmptyRule, !.status = "none"]
        BY <1>4 DEF Refresh
    <2>2. MarkersOf(state'.ruleset) = {} /\ state'.status = "none"
        BY <1>1, <2>1, MarkersAssumption DEF State
    <2> QED
        BY <1>1, <1>4, <2>2 DEF StateInv, FreshInv
<1>5. CASE group # NoGroup /\ group.rule # NoRule
    <2> DEFINE text == Shown(state.ruleset, state.refs)
    <2>1. group.rule \in LiveRules
        BY <1>5 DEF TypeOK, Group
    <2>2. /\ MarkersOf(text) \subseteq DOMAIN state.refs
          /\ SameForm(Resolved(text, state.refs), NormalForm(group.rule))
        BY <1>2, <1>5, <2>1, ShownIsLive
    <2>3. state' = [state EXCEPT !.ruleset = text, !.status = group.status]
        BY <1>5 DEF Refresh
    <2> HIDE DEF text
    <2>4. state'.ruleset = text /\ state'.refs = state.refs /\ state'.status = group.status
        BY <1>1, <2>3 DEF State
    <2> QED
        BY <1>1, <1>5, <2>2, <2>4 DEF StateInv, FreshInv
<1> QED
    BY <1>3, <1>4, <1>5

\* So is the one ImportState leaves.
LEMMA ImportStep ==
    ASSUME TypeOK, Import
    PROVE  StateInv' /\ FreshInv'
<1> DEFINE text == CanonicalForm(NormalForm(group.rule))
<1>1. group.rule \in LiveRules /\ LiveRule = NormalForm(group.rule)
    BY DEF Import, TypeOK, Group, LiveRule
<1>2. <<>> \in RefMaps
    BY DEF RefMaps
<1>3. MarkersOf(text) = {} /\ SameForm(Resolved(text, <<>>), NormalForm(group.rule))
    BY <1>1, <1>2, CanonicalText
<1>4. /\ state' = [ruleset |-> text, refs |-> <<>>, status |-> group.status]
      /\ UNCHANGED group /\ group.rule # NoRule
    BY <1>1 DEF Import
<1> HIDE DEF text
<1> QED
    BY <1>3, <1>4 DEF StateInv, FreshInv

\* And the one a finished apply leaves, which has written all that differed.
LEMMA AppliedStep ==
    ASSUME TypeOK, PlanInv, JobInv, Applied
    PROVE  StateInv' /\ FreshInv'
<1>1. config \in Configs /\ job.plan \in Texts /\ config.refs \in RefMaps
    BY WantedForm DEF Applied, TypeOK, Job
<1>2. /\ group # NoGroup /\ group.rule \in LiveRules /\ group.rule # NoRule
      /\ Means[group.rule] = config.means /\ group.status = config.status
    BY NoneAssumption DEF Applied, JobInv
<1> DEFINE x == Resolved(job.plan, config.refs)
           y == Wanted(config)
           z == NormalForm(group.rule)
<1>3. x \in Forms /\ y \in Forms /\ z \in Forms
    <2>1. MarkersOf(job.plan) \subseteq DOMAIN config.refs
        BY DEF Applied, PlanInv
    <2> QED
        BY <1>1, <1>2, <2>1, ResolvedForm, WantedForm DEF Forms
<1>4. SameForm(x, y) /\ SameForm(y, z)
    BY <1>1, <1>2, WantedMeans DEF Applied, PlanInv
<1>5. SameForm(x, z)
    <2> HIDE DEF x, y, z
    <2> QED
        BY <1>3, <1>4, EqualAssumption
<1>6. /\ state' = [ruleset |-> job.plan, refs |-> config.refs, status |-> config.status]
      /\ UNCHANGED group
    BY DEF Applied
<1>7. MarkersOf(job.plan) \subseteq DOMAIN config.refs
    BY DEF Applied, PlanInv
<1> QED
    BY <1>2, <1>5, <1>6, <1>7 DEF StateInv, FreshInv

\* An apply starts with the plan for the wanted rule and all that differs to be written.
LEMMA StartStep ==
    ASSUME TypeOK, StartApply
    PROVE  PlanInv' /\ JobInv'
<1> DEFINE desired == Resolved(PlannedRuleset, config.refs)
<1>1. /\ job' = [plan |-> PlannedRuleset, todo |-> Todo(desired)]
      /\ fresh' = FALSE /\ UNCHANGED <<group, config>>
    BY DEF StartApply
<1>2. /\ PlannedRuleset \in Texts
      /\ MarkersOf(PlannedRuleset) \subseteq DOMAIN config.refs
      /\ SameForm(desired, Wanted(config))
    BY PlanIsWanted
<1>3. PlanInv'
    <2>1. Wanted(config)' = Wanted(config)
        BY <1>1 DEF Wanted, Resolved
    <2>2. Resolved(job.plan, config.refs)' = desired
        BY <1>1 DEF Resolved
    <2> QED
        BY <1>1, <1>2, <2>1, <2>2 DEF PlanInv
<1>4. ASSUME "ruleset" \notin Todo(desired)
      PROVE  group # NoGroup /\ group.rule \in LiveRules /\ Means[group.rule] = config.means
    <2>1. LiveRule # NoRule /\ SameForm(desired, LiveRule)
        BY <1>4 DEF Todo, Steps
    <2>2. group # NoGroup /\ group.rule \in LiveRules /\ LiveRule = NormalForm(group.rule)
        BY <2>1 DEF LiveRule, TypeOK, Group
    <2>3. config \in Configs /\ config.refs \in RefMaps
        BY WantedForm DEF TypeOK
    <2>4. desired \in Forms /\ Wanted(config) \in Forms /\ NormalForm(group.rule) \in Forms
        BY <1>2, <2>2, <2>3, ResolvedForm, WantedForm DEF Forms
    <2>5. SameForm(Wanted(config), NormalForm(group.rule))
        <3> HIDE DEF desired
        <3> QED
            BY <1>2, <2>1, <2>2, <2>4, EqualAssumption
    <2> QED
        BY <2>2, <2>3, <2>5, WantedMeans
<1>5. ASSUME "status" \notin Todo(desired)
      PROVE  group # NoGroup /\ group.status = config.status
    BY <1>5 DEF Todo, Steps
<1> HIDE DEF desired
<1>6. JobInv'
    BY <1>1, <1>4, <1>5 DEF JobInv
<1> QED
    BY <1>3, <1>6

\* A PUT that takes effect leaves its half of the group as configured.
LEMMA WriteEffect ==
    ASSUME TypeOK, PlanInv, job # NoJob, NEW step \in Steps, Write(step)
    PROVE  /\ group \in Group /\ group' \in Group
           /\ step = "ruleset" =>
                 /\ group'.rule \in LiveRules /\ Means[group'.rule] = config.means
                 /\ group'.status = group.status
           /\ step = "status" => group'.status = config.status /\ group'.rule = group.rule
<1>1. group \in Group /\ group' \in Group
    BY WriteType
<1>2. CASE step = "ruleset"
    <2>1. PICK rule \in LiveRules :
              /\ Means[rule] = Means[Stored(Resolved(job.plan, config.refs))]
              /\ group' = [group EXCEPT !.rule = rule]
        BY <1>2 DEF Write, PutRuleset
    <2>2. Means[rule] = config.means
        BY <2>1, PutIsWanted
    <2> QED
        BY <1>1, <1>2, <2>1, <2>2 DEF Group
<1>3. CASE step = "status"
    BY <1>1, <1>3 DEF Write, PutStatus, Group
<1> QED
    BY <1>1, <1>2, <1>3 DEF Steps

\* The rest of the apply, as its PUTs are done.
LEMMA PutStep ==
    ASSUME TypeOK, PlanInv, JobInv, Put
    PROVE  PlanInv' /\ JobInv'
<1>1. PICK step \in Steps : /\ Due(step) /\ Write(step)
                            /\ job' = [job EXCEPT !.todo = @ \ {step}]
                            /\ UNCHANGED <<config, state, fresh>>
    BY DEF Put
<1>2. job # NoJob /\ job \in Job /\ step \in job.todo
    BY <1>1 DEF Due, TypeOK
<1>3. job'.plan = job.plan /\ job'.todo = job.todo \ {step}
    BY <1>1, <1>2 DEF Job
<1>4. PlanInv'
    <2>1. /\ Wanted(config)' = Wanted(config)
          /\ Resolved(job.plan, config.refs)' = Resolved(job.plan, config.refs)
        BY <1>1, <1>3 DEF Wanted, Resolved
    <2> QED
        BY <1>1, <1>2, <1>3, <2>1 DEF PlanInv
<1>5. /\ group \in Group /\ group' \in Group
      /\ step = "ruleset" =>
            /\ group'.rule \in LiveRules /\ Means[group'.rule] = config.means
            /\ group'.status = group.status
      /\ step = "status" => group'.status = config.status /\ group'.rule = group.rule
    BY <1>1, <1>2, WriteEffect
<1>6. group' # NoGroup
    BY <1>5, NoneAssumption
<1>7. ~fresh'
    BY <1>1, <1>2 DEF JobInv
<1>8. ASSUME "ruleset" \notin job'.todo
      PROVE  group'.rule \in LiveRules /\ Means[group'.rule] = config'.means
    BY <1>1, <1>2, <1>3, <1>5, <1>8 DEF JobInv, Steps
<1>9. ASSUME "status" \notin job'.todo
      PROVE  group'.status = config'.status
    BY <1>1, <1>2, <1>3, <1>5, <1>9 DEF JobInv, Steps
<1>10. JobInv'
    BY <1>6, <1>7, <1>8, <1>9 DEF JobInv
<1> QED
    BY <1>4, <1>10

LEMMA InvStep ==
    ASSUME AdminsDuringApply = FALSE, IInv, [Next]_vars
    PROVE  IInv'
<1>0. TypeOK /\ StateInv /\ FreshInv /\ PlanInv /\ JobInv /\ TypeOK'
    BY TypeStep DEF IInv
<1>1. CASE StartApply
    <2>1. StateInv' /\ FreshInv'
        BY <1>0, <1>1 DEF StartApply, StateInv, FreshInv
    <2> QED
        BY <1>0, <1>1, <2>1, StartStep DEF IInv
<1>2. CASE Put
    <2>1. ~fresh' /\ UNCHANGED state
        BY <1>0, <1>2 DEF Put, Due, JobInv
    <2>2. StateInv' /\ FreshInv'
        BY <1>0, <2>1 DEF StateInv, FreshInv
    <2> QED
        BY <1>0, <1>2, <2>2, PutStep DEF IInv
<1>3. CASE PutFails
    <2>1. ~fresh' /\ UNCHANGED state /\ job' = NoJob
        BY <1>0, <1>3 DEF PutFails, Due, JobInv
    <2> QED
        BY <1>0, <2>1 DEF IInv, StateInv, FreshInv, PlanInv, JobInv
<1>4. CASE Applied
    <2>1. job' = NoJob
        BY <1>4 DEF Applied
    <2> QED
        BY <1>0, <1>4, <2>1, AppliedStep DEF IInv, PlanInv, JobInv
<1>5. CASE Refresh
    <2>1. job' = NoJob
        BY <1>5 DEF Refresh
    <2> QED
        BY <1>0, <1>5, <2>1, RefreshStep DEF IInv, PlanInv, JobInv
<1>6. CASE Import
    <2>1. job' = NoJob
        BY <1>6 DEF Import
    <2> QED
        BY <1>0, <1>6, <2>1, ImportStep DEF IInv, PlanInv, JobInv
<1>7. CASE Delete
    <2>1. job' = NoJob /\ state' = NoState
        BY <1>7 DEF Delete
    <2> QED
        BY <1>0, <2>1 DEF IInv, StateInv, FreshInv, PlanInv, JobInv
<1>8. ASSUME NEW c \in Configs, Configure(c)
      PROVE  IInv'
    <2>1. job' = NoJob /\ UNCHANGED <<group, state, fresh>>
        BY <1>8 DEF Configure
    <2>2. StateInv' /\ FreshInv'
        BY <1>0, <2>1 DEF StateInv, FreshInv, Resolved
    <2> QED
        BY <1>0, <2>1, <2>2 DEF IInv, PlanInv, JobInv
<1>9. ASSUME fresh' = FALSE, job = NoJob, UNCHANGED <<config, state, job>>
      PROVE  IInv'
    BY <1>0, <1>9 DEF IInv, StateInv, FreshInv, PlanInv, JobInv
<1>10. ASSUME NEW rule \in LiveRules \cup {NoRule}, NEW status \in Statuses, AdminSaves(rule, status)
       PROVE  IInv'
    BY <1>9, <1>10 DEF AdminSaves
<1>11. CASE AdminDeletes
    BY <1>9, <1>11 DEF AdminDeletes
<1>12. CASE UNCHANGED vars
    <2>1. UNCHANGED <<group, config, state, job, fresh>>
        BY <1>12 DEF vars
    <2> QED
        BY <1>0, <2>1 DEF IInv, StateInv, FreshInv, PlanInv, JobInv, Resolved, Wanted
<1> QED
    BY <1>1, <1>2, <1>3, <1>4, <1>5, <1>6, <1>7, <1>8, <1>10, <1>11, <1>12 DEF Next

\* While nobody else edits the group during an apply, a fresh state shows the group as it
\* is, and whatever an apply need no longer write is as configured (apply, Read).
THEOREM DynamicGroupInductive ==
    ASSUME AdminsDuringApply = FALSE
    PROVE  Spec => []IInv
<1> QED
    BY InvInit, InvStep, PTL DEF Spec

---------------------------------------------------------------------------
(* What follows *)

\* Wherever an apply stops, and whichever of its PUTs took effect without an answer, no
\* PUT leaves a rule running but the configured one: the order of the two PUTs (apply).
THEOREM NoPutRunsForeignRule ==
    ASSUME AdminsDuringApply = FALSE
    PROVE  Spec => NeverRunsIncompleteRule
<1> DEFINE Kept ==
               job' # job /\ group' # group /\ group'.status = "active" =>
                   /\ config.status = "active"
                   /\ group'.rule # NoRule /\ Means[group'.rule] = config.means
<1>1. ASSUME IInv, [Next]_vars
      PROVE  [Kept]_vars
    <2> SUFFICES ASSUME job' # job, group' # group, group'.status = "active"
                 PROVE  /\ config.status = "active"
                        /\ group'.rule # NoRule /\ Means[group'.rule] = config.means
        OBVIOUS
    <2>0. TypeOK /\ PlanInv /\ JobInv
        BY <1>1 DEF IInv
    <2>1. PICK step \in Steps : Due(step) /\ Write(step)
        BY <1>1 DEF Next, Put, PutFails, StartApply, Applied, Refresh, Import, Delete, Configure,
                    AdminSaves, AdminDeletes, vars
    <2>2. job # NoJob
        BY <2>1 DEF Due
    <2>3. /\ step = "ruleset" =>
                /\ group'.rule \in LiveRules /\ Means[group'.rule] = config.means
                /\ group'.status = group.status
          /\ step = "status" => group'.status = config.status /\ group'.rule = group.rule
        BY <2>0, <2>1, <2>2, WriteEffect
    <2>4. config.status \in {"active", "manual"}
        BY <2>0, ConfigsAssumption DEF TypeOK
    <2>5. CASE step = "ruleset"
        <3>1. CASE config.status = "manual"
            <4>1. "status" \notin job.todo
                BY <2>1, <2>5, <3>1 DEF Due, Last
            <4>2. group'.status = "manual"
                BY <2>0, <2>2, <2>3, <2>5, <3>1, <4>1 DEF JobInv
            <4> QED
                BY <4>2
        <3>2. CASE config.status = "active"
            BY <2>3, <2>5, <3>2, NoneAssumption
        <3> QED
            BY <2>4, <3>1, <3>2
    <2>6. CASE step = "status"
        <3>1. config.status = "active"
            BY <2>3, <2>6
        <3>2. "ruleset" \notin job.todo
            BY <2>1, <2>6, <3>1 DEF Due, Last
        <3>3. group.rule \in LiveRules /\ Means[group.rule] = config.means
            BY <2>0, <2>2, <3>2 DEF JobInv
        <3> QED
            BY <2>3, <2>6, <3>1, <3>3, NoneAssumption
    <2> QED
        BY <2>5, <2>6 DEF Steps
<1> QED
    BY <1>1, DynamicGroupInductive, PTL DEF Spec, NeverRunsIncompleteRule

\* Over a fresh state the plan is exact: an update when the group does not run the
\* configured rule, none when it does (ModifyPlan, Read).
LEMMA ExactPlan == IInv => PlanIsExact
<1> SUFFICES ASSUME IInv, fresh, state # NoState, group # NoGroup
             PROVE  /\ ~AsConfigured => Diff
                    /\ AsConfigured /\ config.refs = state.refs
                          /\ (config.doc = state.ruleset \/ MarkersOf(state.ruleset) = {}) => ~Diff
    BY DEF PlanIsExact
<1>0. /\ config \in Configs /\ config.status \in {"active", "manual"}
      /\ state.ruleset \in Texts /\ state.refs \in RefMaps
      /\ group.rule \in LiveRules \cup {NoRule}
      /\ MarkersOf(state.ruleset) \subseteq DOMAIN state.refs
    BY ConfigsAssumption DEF IInv, TypeOK, State, Group, StateInv
<1>1. CASE group.rule = NoRule
    <2>1. state.status = "none"
        BY <1>1 DEF IInv, FreshInv
    <2> QED
        BY <1>0, <1>1, <2>1 DEF Diff, AsConfigured
<1>2. CASE group.rule \in LiveRules
    <2> DEFINE w == Wanted(config)
               s == Resolved(state.ruleset, state.refs)
               n == NormalForm(state.ruleset)
               g == NormalForm(group.rule)
    <2>1. group.rule # NoRule /\ state.status = group.status /\ SameForm(s, g)
        BY <1>2, NoneAssumption DEF IInv, FreshInv
    <2>2. w \in Forms /\ s \in Forms /\ g \in Forms
        BY <1>0, <1>2, WantedForm, ResolvedForm DEF Forms
    <2>3. SameForm(w, g) <=> Means[group.rule] = config.means
        BY <1>0, <1>2, WantedMeans
    <2>4. MarkersOf(state.ruleset) = {} => s = n
        BY <1>0, MarkerFree
    <2>5. SameForm(w, n) => s = n
        BY <1>0, <2>4, MarkersAssumption
    <2>6. config.doc = state.ruleset /\ config.refs = state.refs => w = s
        BY DEF Wanted
    <2>7. PlannedRuleset = IF SameForm(w, n) THEN state.ruleset ELSE config.doc
        BY DEF PlannedRuleset
    <2> HIDE DEF w, s, n, g
    <2>8. SameForm(w, s) <=> SameForm(w, g)
        BY <2>1, <2>2, EqualAssumption
    <2>9. ASSUME ~Diff PROVE AsConfigured
        <3>1. config.refs = state.refs /\ config.status = state.status
            BY <2>9 DEF Diff
        <3>2. config.doc = state.ruleset \/ PlannedRuleset = state.ruleset
            BY <2>9 DEF Diff
        <3>3. CASE config.doc = state.ruleset
            BY <2>1, <2>3, <2>6, <3>1, <3>3 DEF AsConfigured
        <3>4. CASE config.doc # state.ruleset
            <4>1. SameForm(w, n)
                BY <2>7, <3>2, <3>4
            <4> QED
                BY <2>1, <2>3, <2>5, <2>8, <3>1, <4>1 DEF AsConfigured
        <3> QED
            BY <3>3, <3>4
    <2>10. ASSUME AsConfigured, config.refs = state.refs,
                  config.doc = state.ruleset \/ MarkersOf(state.ruleset) = {}
           PROVE  ~Diff
        <3>1. config.status = state.status /\ SameForm(w, g)
            BY <2>1, <2>3, <2>10 DEF AsConfigured
        <3>2. config.doc = state.ruleset \/ PlannedRuleset = state.ruleset
            BY <2>4, <2>7, <2>8, <2>10, <3>1
        <3> QED
            BY <2>10, <3>1, <3>2 DEF Diff
    <2> QED
        BY <2>9, <2>10
<1> QED
    BY <1>0, <1>1, <1>2

\* The same as a theorem of the specification.
THEOREM PlansAreExact ==
    ASSUME AdminsDuringApply = FALSE
    PROVE  Spec => []PlanIsExact
<1> QED
    BY DynamicGroupInductive, ExactPlan, PTL

=============================================================================
