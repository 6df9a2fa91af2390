---------------------------- MODULE DynamicGroup ----------------------------
(***************************************************************************)
(* churchtools_dynamic_group: the rule of one group and whether it runs     *)
(* (resource_dynamic_group.go over internal/ruleset).  An apply reads both  *)
(* and writes what differs in two PUTs, whose order depends on the status   *)
(* that is wanted; either may fail, applied or not, and nothing is read     *)
(* back.  Terraform's state keeps the authored text as long as it means     *)
(* what ChurchTools holds.                                                  *)
(*                                                                         *)
(* The operations of internal/ruleset are parameters: module Ruleset has    *)
(* them, MCDynamicGroup puts them in, and the assumptions say what the      *)
(* resource relies on in them.                                              *)
(***************************************************************************)

CONSTANTS
    LiveRules,          \* the rulesets ChurchTools may hold, as it hands them back
    Means,              \* what each of them does: equal for rulesets that run alike
    Configs,            \* the configurations: [doc, refs, status, means]
    AdminsDuringApply,  \* may administrators edit while an apply runs?
    NoRule, NoGroup, NoState, NoJob

\* internal/ruleset
CONSTANTS
    EmptyRule,          \* {}
    NormalForm(_),      \* Normalize
    CanonicalForm(_),   \* Canonical, read back
    SameForm(_, _),     \* Equal
    MarkersOf(_),       \* Markers
    WithIds(_, _),      \* Resolve
    Envelope(_)         \* PutBody

VARIABLES
    group,      \* [rule, status] of the group in ChurchTools, or NoGroup
    config,     \* the configuration
    state,      \* terraform's state [ruleset, refs, status], or NoState
    job,        \* the running apply, or NoJob
    fresh       \* does the state show the group as it is?

vars == <<group, config, state, job, fresh>>

Statuses == {"none", "active", "manual"}

Steps == {"ruleset", "status"}

Docs == {c.doc : c \in Configs}

RefMaps == {c.refs : c \in Configs} \cup {<<>>}

\* What a ruleset attribute may hold: an authored file, or what Read writes there.
Texts == Docs \cup {EmptyRule} \cup {CanonicalForm(NormalForm(d)) : d \in LiveRules}

Group == [rule : LiveRules \cup {NoRule}, status : Statuses]

State == [ruleset : Texts, refs : RefMaps, status : Statuses]

Job == [plan : Texts,           \* the planned ruleset
        todo : SUBSET Steps]    \* the PUTs it has yet to send

TypeOK ==
    /\ group \in Group \cup {NoGroup}
    /\ config \in Configs
    /\ state \in State \cup {NoState}
    /\ job \in Job \cup {NoJob}
    /\ fresh \in BOOLEAN

---------------------------------------------------------------------------
(* What is assumed of the parameters *)

\* resolveRuleset, for refs that have every marker of the text.
Resolved(ruleset, refs) == NormalForm(WithIds(ruleset, refs))

Wanted(c) == Resolved(c.doc, c.refs)

\* The ruleset ChurchTools stores for a PUT of this one.
Stored(ruleset) == CanonicalForm(NormalForm(Envelope(ruleset)))

\* The normal forms the resource compares.
Forms ==
    {NormalForm(d) : d \in LiveRules}
        \cup {Resolved(p[1], p[2]) :
                  p \in {q \in Texts \X RefMaps : MarkersOf(q[1]) \subseteq DOMAIN q[2]}}

ASSUME NoneAssumption ==
    NoRule \notin LiveRules /\ NoGroup \notin Group /\ NoState \notin State /\ NoJob \notin Job

ASSUME SwitchAssumption == AdminsDuringApply \in BOOLEAN

\* ValidateConfig: the markers and the refs entries are the same.
ASSUME ConfigsAssumption ==
    \A c \in Configs : MarkersOf(c.doc) = DOMAIN c.refs /\ c.status \in {"active", "manual"}

ASSUME EqualAssumption ==
    /\ \A x \in Forms : SameForm(x, x)
    /\ \A x, y \in Forms : SameForm(x, y) => SameForm(y, x)
    /\ \A x, y, z \in Forms : SameForm(x, y) /\ SameForm(y, z) => SameForm(x, z)

\* The normal form tells apart the rules that run differently, and no others.
ASSUME MeansAssumption ==
    /\ DOMAIN Means = LiveRules
    /\ \A d, e \in LiveRules : SameForm(NormalForm(d), NormalForm(e)) <=> Means[d] = Means[e]

\* What Read writes for a live rule is that rule, with ids in the place of markers.
ASSUME CanonicalAssumption ==
    \A d \in LiveRules :
        LET text == CanonicalForm(NormalForm(d))
        IN  MarkersOf(text) = {} /\ SameForm(NormalForm(text), NormalForm(d))

\* A ruleset equal to the wanted one is stored as one that does what the file says.
ASSUME StoreAssumption ==
    \A c \in Configs : \A x \in Forms :
        SameForm(x, Wanted(c)) =>
            /\ Stored(x) \in LiveRules
            /\ Means[Stored(x)] = c.means
            /\ SameForm(NormalForm(Stored(x)), x)

\* Without markers refs do not matter, and nothing Normalize drops holds a marker.
ASSUME MarkersAssumption ==
    /\ MarkersOf(EmptyRule) = {}
    /\ \A t \in Texts, refs \in RefMaps : MarkersOf(t) = {} => WithIds(t, refs) = t
    /\ \A c \in Configs, t \in Texts : SameForm(Wanted(c), NormalForm(t)) => MarkersOf(t) = {}

---------------------------------------------------------------------------
Init ==
    /\ group \in {NoGroup, [rule |-> NoRule, status |-> "none"]}
                 \cup [rule : LiveRules, status : Statuses]
    /\ config \in Configs
    /\ state = NoState
    /\ job = NoJob
    /\ fresh = FALSE

---------------------------------------------------------------------------
(* The plan *)

\* ModifyPlan: the state's text, if the configured one means the same.
PlannedRuleset ==
    IF state # NoState /\ SameForm(Wanted(config), NormalForm(state.ruleset))
    THEN state.ruleset
    ELSE config.doc

\* Does terraform plan an update?
Diff ==
    \/ config.doc # state.ruleset /\ PlannedRuleset # state.ruleset
    \/ config.refs # state.refs
    \/ config.status # state.status

---------------------------------------------------------------------------
(* apply *)

\* The status is written last, whatever is wanted.
AlwaysStatusLast(status) == "status"

\* A rule is switched off before it changes, and complete before it runs.
Last(status) == IF status = "manual" THEN "ruleset" ELSE "status"

\* The rule as ChurchTools hands it back.
RawRule == IF group = NoGroup \/ group.rule = NoRule THEN NoRule ELSE group.rule

\* GetDynamicGroup, and what it makes of the rule.
LiveRule == IF group = NoGroup \/ group.rule = NoRule THEN NoRule ELSE NormalForm(group.rule)

\* What the apply has to write, with what it has just read.
Todo(desired) ==
    {step \in Steps :
        \/ step = "ruleset" /\ (LiveRule = NoRule \/ ~SameForm(desired, LiveRule))
        \/ step = "status" /\ (group = NoGroup \/ group.status # config.status)}

\* Create leaves a group alone that has another rule already.
CreateRefused(desired) == LiveRule # NoRule /\ ~SameForm(desired, LiveRule)

\* The two GETs, taken as one step: an edit between them is left out.  A GET that fails
\* ends the apply before it has changed anything.
StartApply ==
    LET desired == Resolved(PlannedRuleset, config.refs)
    IN  /\ job = NoJob
        /\ IF state = NoState THEN ~CreateRefused(desired) ELSE Diff
        /\ job' = [plan |-> PlannedRuleset, todo |-> Todo(desired)]
        /\ fresh' = FALSE
        /\ UNCHANGED <<group, config, state>>

\* ChurchTools stores the ruleset, and may hand it back decorated.
PutRuleset ==
    \E rule \in LiveRules :
        /\ Means[rule] = Means[Stored(Resolved(job.plan, config.refs))]
        /\ group' = [group EXCEPT !.rule = rule]

PutStatus == group' = [group EXCEPT !.status = config.status]

Write(step) ==
    /\ group # NoGroup
    /\ (step = "ruleset" /\ PutRuleset) \/ (step = "status" /\ PutStatus)

\* The next PUT of the apply.
Due(step) ==
    /\ job # NoJob /\ step \in job.todo
    /\ step = Last(config.status) => job.todo = {step}

Put ==
    \E step \in Steps :
        /\ Due(step)
        /\ Write(step)
        /\ job' = [job EXCEPT !.todo = @ \ {step}]
        /\ UNCHANGED <<config, state, fresh>>

\* A failed PUT ends the apply; the state stays as it was.
PutFails ==
    \E step \in Steps :
        /\ Due(step)
        /\ UNCHANGED group \/ Write(step)
        /\ job' = NoJob
        /\ UNCHANGED <<config, state, fresh>>

Applied ==
    /\ job # NoJob /\ job.todo = {}
    /\ state' = [ruleset |-> job.plan, refs |-> config.refs, status |-> config.status]
    /\ job' = NoJob
    /\ fresh' = TRUE
    /\ UNCHANGED <<group, config>>

---------------------------------------------------------------------------
(* Terraform's other calls, and the rest of the world *)

\* The authored text stays in state, whatever ChurchTools holds.
ShownAsAuthored(ruleset, refs) ==
    IF MarkersOf(ruleset) \subseteq DOMAIN refs THEN ruleset ELSE CanonicalForm(LiveRule)

\* The authored text stays in state while it resolves to what ChurchTools holds.
Shown(ruleset, refs) ==
    IF MarkersOf(ruleset) \subseteq DOMAIN refs /\ SameForm(Resolved(ruleset, refs), LiveRule)
    THEN ruleset
    ELSE CanonicalForm(LiveRule)

\* Read: a group without a rule is a plain one, a group that is gone leaves the state.
Refresh ==
    /\ job = NoJob
    /\ state # NoState
    /\ state' = IF group = NoGroup THEN NoState
                ELSE IF group.rule = NoRule
                     THEN [state EXCEPT !.ruleset = EmptyRule, !.status = "none"]
                     ELSE [state EXCEPT !.ruleset = Shown(state.ruleset, state.refs),
                                        !.status = group.status]
    /\ fresh' = TRUE
    /\ UNCHANGED <<group, config, job>>

\* ImportState takes only a group that has a rule; the Read after it shows the rule.
Import ==
    /\ job = NoJob
    /\ state = NoState
    /\ group # NoGroup /\ group.rule # NoRule
    /\ state' = [ruleset |-> CanonicalForm(LiveRule), refs |-> <<>>, status |-> group.status]
    /\ fresh' = TRUE
    /\ UNCHANGED <<group, config, job>>

\* Delete un-manages: the rule keeps running.
Delete ==
    /\ job = NoJob
    /\ state # NoState
    /\ state' = NoState
    /\ fresh' = FALSE
    /\ UNCHANGED <<group, config, job>>

Configure(c) ==
    /\ job = NoJob
    /\ config # c
    /\ config' = c
    /\ UNCHANGED <<group, state, job, fresh>>

AdminSaves(rule, status) ==
    /\ job = NoJob \/ AdminsDuringApply
    /\ group \notin {NoGroup, [rule |-> rule, status |-> status]}
    /\ rule = NoRule => status = "none"
    /\ group' = [rule |-> rule, status |-> status]
    /\ fresh' = FALSE
    /\ UNCHANGED <<config, state, job>>

AdminDeletes ==
    /\ job = NoJob \/ AdminsDuringApply
    /\ group # NoGroup
    /\ group' = NoGroup
    /\ fresh' = FALSE
    /\ UNCHANGED <<config, state, job>>

Next ==
    \/ StartApply \/ Put \/ PutFails \/ Applied
    \/ Refresh \/ Import \/ Delete
    \/ \E c \in Configs : Configure(c)
    \/ \E rule \in LiveRules \cup {NoRule}, status \in Statuses : AdminSaves(rule, status)
    \/ AdminDeletes

Spec == Init /\ [][Next]_vars

---------------------------------------------------------------------------
(* Properties *)

\* No PUT of an apply, carried out though it failed or not, leaves a rule running but the
\* configured one: "a rule that changes in the same apply is never evaluated live on its
\* way to being switched off", and "the rule is complete before it starts running".  (What
\* ran before the apply goes on running until the first of its PUTs is carried out.)
NeverRunsIncompleteRule ==
    [][job' # job /\ group' # group /\ group'.status = "active" =>
          /\ config.status = "active"
          /\ group'.rule # NoRule /\ Means[group'.rule] = config.means]_vars

AsConfigured ==
    /\ group.rule # NoRule /\ Means[group.rule] = config.means
    /\ group.status = config.status

\* From a state that is up to date, terraform plans an update whenever the group does not
\* run the configured rule, and, but for changed refs or another text with markers, only
\* then: "keeps drift real instead of spurious" (Normalize, ModifyPlan, Read).
PlanIsExact ==
    fresh /\ state # NoState /\ group # NoGroup =>
        /\ ~AsConfigured => Diff
        /\ AsConfigured /\ config.refs = state.refs
              /\ (config.doc = state.ruleset \/ MarkersOf(state.ruleset) = {}) => ~Diff

=============================================================================
