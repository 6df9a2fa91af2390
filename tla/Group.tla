------------------------------- MODULE Group -------------------------------
(***************************************************************************)
(* churchtools_group: one group over its life, with the migration that a    *)
(* change of its group type is (resource_group.go, group_type_migration.go).*)
(* Terraform creates, imports, refreshes, updates and un-manages the group; *)
(* people join and leave it and administrators edit it in the UI meanwhile; *)
(* any request may fail, a failed write may have been applied, ChurchTools  *)
(* may accept a field and ignore it, and the provider may be killed.        *)
(*                                                                         *)
(* The settings are abstracted to Fields with a few Values.  Name stands    *)
(* for the four plain settings but the type (name, status, campus);         *)
(* Optional are the ones a configuration may leave out, and NotPosted those *)
(* of them that POST ignores (inform_leader).                               *)
(***************************************************************************)
EXTENDS Naturals, FiniteSets

CONSTANTS
    Types, Roles, RoleType, Slug, Kind, DefaultRoles,   \* /group/roles
    People,             \* who may be a member of the group
    Fields, Name, Optional, NotPosted, Values,
    MembersDuringApply, \* may memberships change while an Update runs?
    Unset, Null,        \* not configured; no value in state
    NoGroup, NoState, NoJob, NoRole, NoMapping

ASSUME RolesAssumption ==
    /\ RoleType \in [Roles -> Types]
    /\ DefaultRoles \subseteq Roles

ASSUME FieldsAssumption ==
    /\ Name \in Fields \ Optional
    /\ NotPosted \subseteq Optional /\ Optional \subseteq Fields

ASSUME SwitchAssumption == MembersDuringApply \in BOOLEAN

VARIABLES
    group,      \* the group in ChurchTools: [type, fields], or NoGroup
    role,       \* the role each person holds in it, or NoRole
    config,     \* the configuration: [type, fields]
    state,      \* terraform's state: [type, fields], or NoState
    tainted,    \* did its Create end in an error? terraform replaces it then
    job,        \* the running Create or Update, or NoJob
    outcome     \* how the last Create or Update ended

vars == <<group, role, config, state, tainted, job, outcome>>

Configs == {c \in [type : Types, fields : [Fields -> Values \cup {Unset}]] :
                \A f \in Fields \ Optional : c.fields[f] # Unset}

Mapping == UNION {[s -> Roles] : s \in SUBSET Roles}

Job == [step : {"migrate", "patch", "recover", "verify",        \* Update
                "read", "inform", "reread"},                    \* Create
        body : SUBSET Fields,                   \* what the PATCH sends
        mapping : Mapping \cup {NoMapping},     \* the roleMapping, when the type changes
        seen : [Fields -> Values \cup {Null}]]  \* what the first GET of a Create showed

Groups == [type : Types, fields : [Fields -> Values]]

StateRecords == [type : Types, fields : [Fields -> Values \cup {Null}]]

\* The markers of what is absent are none of the things that may be there.
ASSUME AbsenceAssumption ==
    /\ NoGroup \notin Groups
    /\ NoState \notin StateRecords
    /\ NoJob \notin Job
    /\ NoRole \notin Roles

TypeOK ==
    /\ group \in Groups \cup {NoGroup}
    /\ role \in [People -> Roles \cup {NoRole}]
    /\ \A p \in People : role[p] # NoRole => group # NoGroup /\ RoleType[role[p]] = group.type
    /\ config \in Configs
    /\ state \in StateRecords \cup {NoState}
    /\ tainted \in BOOLEAN
    /\ outcome \in {"none", "success", "error", "killed"}
    /\ job \in Job \cup {NoJob}

Unseen == [f \in Fields |-> Null]

Init ==
    /\ group = NoGroup
    /\ role = [p \in People |-> NoRole]
    /\ config \in Configs
    /\ state = NoState
    /\ tainted = FALSE
    /\ job = NoJob
    /\ outcome = "none"

---------------------------------------------------------------------------
(* The role mapping of a migration *)

RolesOf(t) == {r \in Roles : RoleType[r] = t}

SameNamed(s, targets) == {t \in targets : Slug[t] = Slug[s]}

\* defaultTargetRole; "the first" of several is up to the order of the listing.
DefaultTargets(s, targets) ==
    LET default == targets \cap DefaultRoles
        sameKind == {t \in targets : Kind[t] = Kind[s]}
    IN  IF default # {} THEN default ELSE IF sameKind # {} THEN sameKind ELSE targets

\* A deriveRoleMapping that does not look at the members.
AnyoneMoves(s, occupied) == TRUE

\* Only a role nobody holds goes to a role of another name.
MayBeGuessed(s, occupied) == s \notin occupied

\* deriveRoleMapping: every role of the old type has its place, or there is no mapping.
Mappings(from, to, occupied) ==
    LET targets == RolesOf(to)
    IN  {m \in [RolesOf(from) -> targets] : \A s \in RolesOf(from) :
            IF Cardinality(SameNamed(s, targets)) = 1 THEN m[s] \in SameNamed(s, targets)
            ELSE MayBeGuessed(s, occupied) /\ m[s] \in DefaultTargets(s, targets)}

Occupied == {role[p] : p \in People} \ {NoRole}

\* planGroupTypeMigration, for what the provider takes the old type to be: a member
\* in a role that type does not have stops it.
MigrationPlans(from, to) ==
    IF Occupied \subseteq RolesOf(from) THEN Mappings(from, to, Occupied) ELSE {}

---------------------------------------------------------------------------
(* Update *)

Managed(f) == config.fields[f] # Unset

\* A PATCH that sends every setting the configuration names.
EverythingManaged == {f \in Fields : Managed(f)}

\* PATCH only what changed.
Changed == {f \in Fields : Managed(f) /\ config.fields[f] # state.fields[f]}

Fails == /\ job' = NoJob
         /\ outcome' = "error"

Continue(step) == job' = [job EXCEPT !.step = step]

AfterMigration(body) == IF body = {} THEN "verify" ELSE "patch"

StartUpdate ==
    /\ job = NoJob
    /\ state # NoState /\ ~tainted
    /\ \/ /\ config.type # state.type
          /\ \E m \in MigrationPlans(state.type, config.type) :
                job' = [step |-> "migrate", body |-> Changed, mapping |-> m, seen |-> Unseen]
       \/ /\ config.type = state.type /\ Changed # {}
          /\ job' = [step |-> "patch", body |-> Changed, mapping |-> NoMapping, seen |-> Unseen]
    /\ outcome' = "none"
    /\ UNCHANGED <<group, role, config, state, tainted>>

TypeChanged == job.mapping # NoMapping

\* ChurchTools migrates the group if the mapping gives every role of its current type a
\* role of the new one; members move along the mapping.
Migrated ==
    /\ group # NoGroup
    /\ \A r \in RolesOf(group.type) :
          r \in DOMAIN job.mapping /\ RoleType[job.mapping[r]] = config.type
    /\ group' = [group EXCEPT !.type = config.type]
    /\ role' = [p \in People |->
                   IF role[p] \in DOMAIN job.mapping THEN job.mapping[role[p]] ELSE role[p]]

Migrate ==
    /\ job # NoJob /\ job.step = "migrate"
    /\ Migrated
    /\ Continue(AfterMigration(job.body))
    /\ UNCHANGED <<config, state, tainted, outcome>>

\* POST .../grouptype fails; it may have been carried out.
MigrateFails ==
    /\ job # NoJob /\ job.step = "migrate"
    /\ Migrated \/ UNCHANGED <<group, role>>
    /\ Fails
    /\ UNCHANGED <<config, state, tainted>>

\* ChurchTools stores some of the fields it was sent.
Stored(body) ==
    /\ group # NoGroup
    /\ \E kept \in SUBSET body :
          group' = [group EXCEPT !.fields =
                       [f \in Fields |-> IF f \in kept THEN config.fields[f] ELSE @[f]]]

Patch ==
    /\ job # NoJob /\ job.step = "patch"
    /\ Stored(job.body)
    /\ Continue("verify")
    /\ UNCHANGED <<role, config, state, tainted, outcome>>

\* After a migration one more GET looks for what to record.
PatchFails ==
    /\ job # NoJob /\ job.step = "patch"
    /\ Stored(job.body) \/ UNCHANGED group
    /\ IF TypeChanged THEN Continue("recover") /\ UNCHANGED outcome ELSE Fails
    /\ UNCHANGED <<role, config, state, tainted>>

Recover ==
    /\ job # NoJob /\ job.step = "recover"
    /\ state' = IF group # NoGroup THEN group ELSE state
    /\ Fails
    /\ UNCHANGED <<group, role, config, tainted>>

RecoverFails ==
    /\ job # NoJob /\ job.step = "recover"
    /\ Fails
    /\ UNCHANGED <<group, role, config, state, tainted>>

\* A read-back that trusts the replies of POST and PATCH.
Trusted == TRUE

\* What the read-back checks: the type and every managed setting.
AsConfigured ==
    /\ group.type = config.type
    /\ \A f \in Fields : Managed(f) => group.fields[f] = config.fields[f]

\* The read-back.  When ChurchTools ignored something, the state moves only after a
\* migration.
Verify ==
    /\ job # NoJob /\ job.step = "verify"
    /\ group # NoGroup
    /\ state' = IF AsConfigured \/ TypeChanged THEN group ELSE state
    /\ outcome' = IF AsConfigured THEN "success" ELSE "error"
    /\ job' = NoJob
    /\ UNCHANGED <<group, role, config, tainted>>

VerifyFails ==
    /\ job # NoJob /\ job.step = "verify"
    /\ state' = IF TypeChanged THEN [state EXCEPT !.type = config.type] ELSE state
    /\ Fails
    /\ UNCHANGED <<group, role, config, tainted>>

---------------------------------------------------------------------------
(* Create *)

\* POST stores the posted settings, though ChurchTools may ignore the visibility; it
\* is refused while a group has the name.  (A group of another name is left behind.)
Posted ==
    /\ group # NoGroup => group.fields[Name] # config.fields[Name]
    /\ \E fields \in [Fields -> Values] :
          /\ \A f \in Fields \ Optional : fields[f] = config.fields[f]
          /\ group' = [type |-> config.type, fields |-> fields]
    /\ role' = [p \in People |-> NoRole]

Post ==
    /\ job = NoJob
    /\ state = NoState
    /\ Posted
    /\ job' = [step |-> "read", body |-> {}, mapping |-> NoMapping, seen |-> Unseen]
    /\ outcome' = "none"
    /\ UNCHANGED <<config, state, tainted>>

\* POST fails, or its answer has no id, and the group exists nevertheless.
PostFails ==
    /\ job = NoJob
    /\ state = NoState
    /\ Posted
    /\ outcome' = "error"
    /\ UNCHANGED <<config, state, tainted, job>>

\* A Create that records the plan with what is still unknown in it.
RecordPlan(optional) == state' = config

\* A Create that returns before it records.
RecordNothing(optional) == UNCHANGED state

\* What Create records: the plan, with the optional settings as given.
Record(optional) ==
    state' = [type |-> config.type,
              fields |-> [f \in Fields |-> IF f \in Optional THEN optional[f]
                                           ELSE config.fields[f]]]

\* Terraform taints what a Create records together with an error.
CreateEnds(success) ==
    /\ outcome' = IF success THEN "success" ELSE "error"
    /\ tainted' = ~success
    /\ job' = NoJob

\* The GET after the POST shows what PATCH still has to set.
ToInform(fields) == {f \in NotPosted : Managed(f) /\ fields[f] # config.fields[f]}

VisibilityStands(fields) ==
    \A f \in Optional \ NotPosted : Managed(f) => fields[f] = config.fields[f]

ReadCreated ==
    /\ job # NoJob /\ job.step = "read"
    /\ group # NoGroup
    /\ IF ToInform(group.fields) # {}
       THEN /\ job' = [job EXCEPT !.step = "inform", !.body = ToInform(group.fields),
                                  !.seen = group.fields]
            /\ UNCHANGED <<state, tainted, outcome>>
       ELSE /\ Record(group.fields)
            /\ CreateEnds(VisibilityStands(group.fields))
    /\ UNCHANGED <<group, role, config>>

\* The GET fails: no error when nothing but a computed value is missing.
ReadCreatedFails ==
    /\ job # NoJob /\ job.step = "read"
    /\ Record([f \in Optional |-> IF f \in NotPosted \/ ~Managed(f) THEN Null
                                  ELSE config.fields[f]])
    /\ CreateEnds(\A f \in NotPosted : ~Managed(f))
    /\ UNCHANGED <<group, role, config>>

Inform ==
    /\ job # NoJob /\ job.step = "inform"
    /\ Stored(job.body)
    /\ Continue("reread")
    /\ UNCHANGED <<role, config, state, tainted, outcome>>

InformFails ==
    /\ job # NoJob /\ job.step = "inform"
    /\ Stored(job.body) \/ UNCHANGED group
    /\ Record(job.seen)
    /\ CreateEnds(FALSE)
    /\ UNCHANGED <<role, config>>

\* inform_leader as the second GET shows it, the visibility as the first did.
Reread ==
    LET fields == [f \in Fields |-> IF f \in NotPosted THEN group.fields[f] ELSE job.seen[f]]
    IN  /\ job # NoJob /\ job.step = "reread"
        /\ group # NoGroup
        /\ Record(fields)
        /\ CreateEnds(ToInform(fields) = {} /\ VisibilityStands(fields))
        /\ UNCHANGED <<group, role, config>>

RereadFails ==
    /\ job # NoJob /\ job.step = "reread"
    /\ Record([f \in Optional |-> IF f \in job.body THEN config.fields[f] ELSE job.seen[f]])
    /\ CreateEnds(FALSE)
    /\ UNCHANGED <<group, role, config>>

---------------------------------------------------------------------------
(* Terraform's other calls, and the rest of the world *)

CreateSteps == {"read", "inform", "reread"}

\* A killed provider leaves the state file as it was; a created group is lost to it.
Killed ==
    /\ job # NoJob
    /\ job' = NoJob
    /\ outcome' = "killed"
    /\ UNCHANGED <<group, role, config, state, tainted>>

Idle == job = NoJob /\ UNCHANGED <<job, outcome>>

\* Read, which drops a group that is gone; and ImportState with the Read after it.
Refresh ==
    /\ Idle
    /\ state # NoState
    /\ state' = IF group = NoGroup THEN NoState ELSE group
    /\ tainted' = (tainted /\ group # NoGroup)
    /\ UNCHANGED <<group, role, config>>

Import ==
    /\ Idle
    /\ state = NoState /\ group # NoGroup
    /\ state' = group
    /\ UNCHANGED <<group, role, config, tainted>>

\* Delete un-manages; so does the first half of a tainted group's replacement.
Delete ==
    /\ Idle
    /\ state # NoState
    /\ state' = NoState
    /\ tainted' = FALSE
    /\ UNCHANGED <<group, role, config>>

Configure(c) ==
    /\ Idle
    /\ config # c
    /\ config' = c
    /\ UNCHANGED <<group, role, state, tainted>>

MembersMayMove == job = NoJob \/ MembersDuringApply

MemberMoves(p, r) ==
    /\ MembersMayMove
    /\ group # NoGroup
    /\ r # role[p]
    /\ r \in RolesOf(group.type) \cup {NoRole}
    /\ role' = [role EXCEPT ![p] = r]
    /\ UNCHANGED <<group, config, state, tainted, job, outcome>>

AdminEdits(f, v) ==
    /\ group # NoGroup
    /\ group.fields[f] # v
    /\ group' = [group EXCEPT !.fields[f] = v]
    /\ UNCHANGED <<role, config, state, tainted, job, outcome>>

AdminMigrates(t) ==
    /\ MembersMayMove
    /\ group # NoGroup
    /\ group.type # t
    /\ group' = [group EXCEPT !.type = t]
    /\ \E m \in [People -> RolesOf(t) \cup {NoRole}] :
          /\ \A p \in People : (m[p] = NoRole) = (role[p] = NoRole)
          /\ role' = m
    /\ UNCHANGED <<config, state, tainted, job, outcome>>

AdminDeletes ==
    /\ group # NoGroup
    /\ group' = NoGroup
    /\ role' = [p \in People |-> NoRole]
    /\ UNCHANGED <<config, state, tainted, job, outcome>>

Update ==
    \/ StartUpdate \/ Migrate \/ MigrateFails \/ Patch \/ PatchFails
    \/ Recover \/ RecoverFails \/ Verify \/ VerifyFails

Create ==
    \/ Post \/ PostFails \/ ReadCreated \/ ReadCreatedFails
    \/ Inform \/ InformFails \/ Reread \/ RereadFails

Others ==
    \/ \E p \in People, r \in Roles \cup {NoRole} : MemberMoves(p, r)
    \/ \E f \in Fields, v \in Values : AdminEdits(f, v)
    \/ \E t \in Types : AdminMigrates(t)
    \/ AdminDeletes

Next ==
    \/ Update \/ Create
    \/ Refresh \/ Import \/ Delete \/ Killed
    \/ \E c \in Configs : Configure(c)
    \/ Others

Spec == Init /\ [][Next]_vars

---------------------------------------------------------------------------
(* Properties *)

Updating == job # NoJob /\ job.step \notin CreateSteps

\* An Update writes only what its plan changes: a setting the plan leaves as it is,
\* and one the configuration leaves out, keeps whatever it was set to in the UI
\* since the last refresh ("PATCH only what changed").
UpdateLeavesTheRestAlone ==
    [][Updating /\ job' # job =>
          \A f \in Fields :
              group # NoGroup /\ group' # NoGroup /\ group'.fields[f] # group.fields[f] =>
                  Managed(f) /\ config.fields[f] # state.fields[f]]_vars

\* A migration takes nobody's role away: every member ends up in the role of the same
\* name, also when the state's type was stale (deriveRoleMapping: "only where nobody
\* can lose his role").
MembersKeepTheirRole ==
    [][Updating /\ job' # job =>
          \A p \in People : role[p] # NoRole =>
              role'[p] # NoRole /\ Slug[role'[p]] = Slug[role[p]]]_vars

\* An Update that reports success has read back what the configuration asks for, and
\* the state is that group, whatever ChurchTools ignored or answered.
UpdateSuccessIsTrue ==
    [][Updating /\ outcome' = "success" =>
          /\ state' = group
          /\ group.type = config.type
          /\ \A f \in Fields : Managed(f) => group.fields[f] = config.fields[f]]_vars

\* Once ChurchTools has answered the POST, no failing request makes a Create lose the
\* group: it is in state when the Create returns.
CreatedGroupIsRecorded ==
    [][job # NoJob /\ job.step \in CreateSteps /\ job' = NoJob /\ outcome' # "killed" =>
          state' # NoState]_vars

\* "Once the migration POST succeeded ... every later error path must record that,
\* not the stale state" (Update).
MigrationIsRecorded ==
    [][Updating /\ TypeChanged /\ job.step # "migrate" /\ job' = NoJob /\ outcome' # "killed" =>
          state'.type = config.type \/ state' = group]_vars

\* "Every write is read back, so a key CT ignores is a loud error, not silent drift":
\* when a Create reports success, the group has every optional setting the
\* configuration names.
CreateSuccessIsTrue ==
    [][job # NoJob /\ job.step = "read" /\ outcome' = "success" =>
          \A f \in Fields \ {Name} : Managed(f) => group.fields[f] = config.fields[f]]_vars

=============================================================================
