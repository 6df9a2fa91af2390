----------------------------- MODULE GroupProofs -----------------------------
(***************************************************************************)
(* Proofs about Group, for any types, roles, settings and members.           *)
(***************************************************************************)
EXTENDS Group, TLAPS

---------------------------------------------------------------------------
(* The inductive invariant *)

\* Every member ends up in the role of the same name when the mapping is carried out.
MappingInv ==
    job # NoJob /\ job.step = "migrate" =>
        /\ state # NoState
        /\ job.mapping \in [RolesOf(state.type) -> RolesOf(config.type)]
        /\ ~MembersDuringApply =>
              \A p \in People : role[p] # NoRole => Slug[job.mapping[role[p]]] = Slug[role[p]]

\* A running Update sends what its plan changes, and nothing has succeeded before it has.
BodyInv ==
    job # NoJob =>
        /\ outcome = "none"
        /\ job.step \notin CreateSteps => state # NoState /\ job.body \subseteq Changed
        /\ \A f \in job.body : Managed(f)
        /\ job.step \in {"inform", "reread"} => job.seen \in [Fields -> Values]

IInv == TypeOK /\ MappingInv /\ BodyInv

\* Nothing runs in the beginning, and nobody is a member.
LEMMA InitInv == Init => IInv
<1> SUFFICES ASSUME Init PROVE IInv
  OBVIOUS
<1> QED BY DEF Init, IInv, TypeOK, MappingInv, BodyInv

---------------------------------------------------------------------------
(* The steps keep the types *)

\* A managed setting is a value.
LEMMA ConfigFacts ==
    ASSUME TypeOK
    PROVE  /\ config.type \in Types
           /\ config.fields \in [Fields -> Values \cup {Unset}]
           /\ \A f \in Fields : Managed(f) => config.fields[f] \in Values
           /\ \A f \in Fields \ Optional : config.fields[f] \in Values
<1>1. config \in Configs
  BY DEF TypeOK
<1>2. /\ config \in [type : Types, fields : [Fields -> Values \cup {Unset}]]
      /\ \A f \in Fields \ Optional : config.fields[f] # Unset
  BY <1>1 DEF Configs
<1> QED BY <1>2 DEF Managed

\* A mapping the plan allows maps roles to roles of the new type.
LEMMA MappingFacts ==
    ASSUME NEW from \in Types, NEW to \in Types, NEW m \in MigrationPlans(from, to)
    PROVE  /\ m \in Mapping
           /\ m \in [RolesOf(from) -> RolesOf(to)]
           /\ \A s \in Occupied : s \in RolesOf(from) /\ Slug[m[s]] = Slug[s]
<1>1. Occupied \subseteq RolesOf(from) /\ m \in Mappings(from, to, Occupied)
  BY DEF MigrationPlans
<1>2. m \in [RolesOf(from) -> RolesOf(to)]
  BY <1>1 DEF Mappings
<1>3. m \in [RolesOf(from) -> Roles] /\ RolesOf(from) \in SUBSET Roles
  BY <1>2 DEF RolesOf
<1>4. m \in Mapping
  BY <1>3 DEF Mapping
<1>5. ASSUME NEW s \in Occupied PROVE Slug[m[s]] = Slug[s]
  <2>1. s \in RolesOf(from)
    BY <1>1
  <2>2. m[s] \in SameNamed(s, RolesOf(to))
    BY <1>1, <2>1 DEF Mappings, MayBeGuessed
  <2> QED BY <2>2 DEF SameNamed
<1> QED BY <1>1, <1>2, <1>4, <1>5

\* What ChurchTools stores of what it was sent makes a group.
LEMMA StoredFacts ==
    ASSUME TypeOK, NEW body \in SUBSET Fields, \A f \in body : Managed(f), Stored(body)
    PROVE  /\ group # NoGroup /\ group' \in Groups
           /\ group'.type = group.type
           /\ \A f \in Fields \ body : group'.fields[f] = group.fields[f]
<1>1. group \in Groups
  BY DEF TypeOK, Stored
<1>2. PICK kept \in SUBSET body :
          group' = [group EXCEPT !.fields =
                       [f \in Fields |-> IF f \in kept THEN config.fields[f] ELSE @[f]]]
  BY DEF Stored
<1> DEFINE after == [f \in Fields |-> IF f \in kept THEN config.fields[f] ELSE group.fields[f]]
<1>3. after \in [Fields -> Values]
  BY <1>1, ConfigFacts DEF Groups
<1>4. group' = [type |-> group.type, fields |-> after]
  BY <1>1, <1>2 DEF Groups
<1>5. group.type \in Types
  BY <1>1 DEF Groups
<1> HIDE DEF after
<1>6. group' \in Groups /\ group'.type = group.type /\ group'.fields = after
  BY <1>3, <1>4, <1>5 DEF Groups
<1>7. group # NoGroup
  BY DEF Stored
<1> QED BY <1>6, <1>7 DEF after

\* A migration that is carried out moves every member along the mapping.
LEMMA MigratedFacts ==
    ASSUME IInv, job # NoJob, job.step = "migrate", Migrated
    PROVE  /\ group # NoGroup
           /\ group' \in Groups /\ group' # NoGroup
           /\ group'.fields = group.fields
           /\ role' \in [People -> Roles \cup {NoRole}]
           /\ \A p \in People : role'[p] # NoRole => RoleType[role'[p]] = group'.type
           /\ \A p \in People : role[p] # NoRole =>
                 role'[p] # NoRole /\ role'[p] = job.mapping[role[p]]
<1> USE DEF IInv
<1>1. group # NoGroup /\ group \in Groups /\ config.type \in Types
  BY ConfigFacts DEF TypeOK, Migrated
<1>2. group' \in Groups /\ group'.type = config.type /\ group'.fields = group.fields
  BY <1>1 DEF Migrated, Groups
<1>3. DOMAIN job.mapping \subseteq Roles
  BY DEF MappingInv, RolesOf
<1>4. ASSUME NEW p \in People, role[p] # NoRole
      PROVE  /\ role'[p] = job.mapping[role[p]]
             /\ role'[p] \in RolesOf(config.type)
  <2>1. role[p] \in RolesOf(group.type)
    BY <1>4 DEF TypeOK, RolesOf
  <2>2. role[p] \in DOMAIN job.mapping /\ RoleType[job.mapping[role[p]]] = config.type
    BY <2>1 DEF Migrated
  <2>3. job.mapping[role[p]] \in Roles
    BY <2>2 DEF MappingInv, RolesOf
  <2> QED BY <2>2, <2>3 DEF Migrated, RolesOf
<1>5. ASSUME NEW p \in People, role[p] = NoRole PROVE role'[p] = NoRole
  BY <1>3, <1>5, AbsenceAssumption DEF Migrated
<1>6. ASSUME NEW p \in People PROVE role'[p] \in Roles \cup {NoRole}
  BY <1>4, <1>5 DEF RolesOf
<1>7. role' \in [People -> Roles \cup {NoRole}]
  BY <1>6 DEF Migrated
<1> QED BY <1>1, <1>2, <1>4, <1>5, <1>7, AbsenceAssumption DEF RolesOf

\* A group is a value the state may have.
LEMMA GroupIsRecord ==
    ASSUME NEW g \in Groups
    PROVE  g \in StateRecords /\ g # NoState
<1> QED BY AbsenceAssumption DEF Groups, StateRecords

\* What a Create records is a state.
LEMMA RecordFacts ==
    ASSUME TypeOK, NEW optional,
           \A f \in Optional : optional[f] \in Values \cup {Null},
           Record(optional)
    PROVE  state' \in StateRecords /\ state' # NoState
<1> DEFINE fields == [f \in Fields |-> IF f \in Optional THEN optional[f] ELSE config.fields[f]]
<1>1. fields \in [Fields -> Values \cup {Null}]
  BY ConfigFacts
<1>2. state' = [type |-> config.type, fields |-> fields]
  BY DEF Record
<1> HIDE DEF fields
<1> QED BY <1>1, <1>2, ConfigFacts, AbsenceAssumption DEF StateRecords

\* The steps of a job: the next job is the running one with a step and a body replaced.
LEMMA ContinueFacts ==
    ASSUME TypeOK, job # NoJob,
           NEW step \in {"patch", "recover", "verify", "reread"}, Continue(step)
    PROVE  /\ job' \in Job /\ job' # NoJob
           /\ job'.step = step
           /\ job'.body = job.body /\ job'.mapping = job.mapping /\ job'.seen = job.seen
<1> QED BY AbsenceAssumption DEF TypeOK, Continue, Job

---------------------------------------------------------------------------
(* The actions keep the invariant *)

\* What an Update plans to send, and where it plans to move the members.
LEMMA StartUpdateInv == IInv /\ StartUpdate => IInv'
<1> SUFFICES ASSUME IInv, StartUpdate PROVE IInv'
  OBVIOUS
<1> USE DEF IInv
<1>1. state \in StateRecords /\ state # NoState /\ state.type \in Types /\ Changed \in SUBSET Fields
  BY DEF TypeOK, StartUpdate, StateRecords, Changed
<1>2. CASE /\ config.type # state.type
           /\ \E m \in MigrationPlans(state.type, config.type) :
                job' = [step |-> "migrate", body |-> Changed, mapping |-> m, seen |-> Unseen]
  <2>1. PICK m \in MigrationPlans(state.type, config.type) :
           job' = [step |-> "migrate", body |-> Changed, mapping |-> m, seen |-> Unseen]
    BY <1>2
  <2>2. /\ m \in Mapping /\ m \in [RolesOf(state.type) -> RolesOf(config.type)]
        /\ \A s \in Occupied : Slug[m[s]] = Slug[s]
    BY <1>1, ConfigFacts, MappingFacts
  <2>3. job' \in Job
    BY <1>1, <2>1, <2>2 DEF Job, Unseen
  <2>4. TypeOK'
    BY <2>3 DEF TypeOK, StartUpdate
  <2>5. MappingInv'
    BY <1>1, <2>1, <2>2 DEF MappingInv, StartUpdate, Occupied, RolesOf
  <2>6. BodyInv'
    BY <1>1, <2>1 DEF BodyInv, StartUpdate, Changed, Managed, CreateSteps
  <2> QED BY <2>4, <2>5, <2>6
<1>3. CASE /\ config.type = state.type /\ Changed # {}
           /\ job' = [step |-> "patch", body |-> Changed, mapping |-> NoMapping, seen |-> Unseen]
  <2>1. job' \in Job
    BY <1>1, <1>3 DEF Job, Unseen
  <2>2. TypeOK'
    BY <2>1 DEF TypeOK, StartUpdate
  <2>3. MappingInv'
    BY <1>3 DEF MappingInv
  <2>4. BodyInv'
    BY <1>1, <1>3 DEF BodyInv, StartUpdate, Changed, Managed, CreateSteps
  <2> QED BY <2>2, <2>3, <2>4
<1> QED BY <1>2, <1>3 DEF StartUpdate

\* A step that ends the job need only keep the types.
LEMMA JobEnds ==
    ASSUME TypeOK', job' = NoJob
    PROVE  IInv'
<1> QED BY DEF IInv, MappingInv, BodyInv

\* The requests of an Update, and their failures.
LEMMA UpdateStepInv ==
    ASSUME IInv,
           Migrate \/ MigrateFails \/ Patch \/ PatchFails \/ Recover \/ RecoverFails
           \/ Verify \/ VerifyFails
    PROVE  IInv'
<1> USE DEF IInv
<1>0. /\ job # NoJob => job \in Job /\ job.body \in SUBSET Fields
      /\ group # NoGroup => group \in Groups
  BY DEF TypeOK, Job
<1>1. CASE Migrate
  <2>1. /\ job' \in Job /\ job'.step \in {"patch", "verify"}
        /\ job'.body = job.body /\ job' # NoJob
    BY <1>1, ContinueFacts DEF Migrate, AfterMigration
  <2>2. TypeOK'
    BY <1>1, <2>1, MigratedFacts DEF TypeOK, Migrate
  <2>3. MappingInv'
    BY <2>1 DEF MappingInv
  <2>4. BodyInv'
    BY <1>1, <2>1 DEF BodyInv, Migrate, Changed, Managed, CreateSteps
  <2> QED BY <2>2, <2>3, <2>4
<1>2. CASE MigrateFails
  <2>1. ASSUME Migrated PROVE TypeOK'
    BY <1>2, <2>1, MigratedFacts DEF TypeOK, MigrateFails, Fails
  <2>2. ASSUME UNCHANGED <<group, role>> PROVE TypeOK'
    BY <1>2, <2>2 DEF TypeOK, MigrateFails, Fails
  <2>3. TypeOK'
    BY <1>2, <2>1, <2>2 DEF MigrateFails
  <2> QED BY <1>2, <2>3, JobEnds DEF MigrateFails, Fails
<1>3. CASE Patch
  <2>1. /\ job' \in Job /\ job'.step = "verify"
        /\ job'.body = job.body /\ job' # NoJob
    BY <1>3, ContinueFacts DEF Patch
  <2>2. /\ group # NoGroup /\ group' \in Groups /\ group' # NoGroup
        /\ group'.type = group.type
    BY <1>0, <1>3, StoredFacts, AbsenceAssumption DEF Patch, BodyInv
  <2>3. TypeOK'
    BY <1>3, <2>1, <2>2 DEF TypeOK, Patch
  <2>4. MappingInv'
    BY <2>1 DEF MappingInv
  <2>5. BodyInv'
    BY <1>3, <2>1 DEF BodyInv, Patch, Changed, Managed, CreateSteps
  <2> QED BY <2>3, <2>4, <2>5
<1>4. CASE PatchFails
  <2>1. \/ group' = group
        \/ /\ group # NoGroup /\ group' \in Groups /\ group' # NoGroup
           /\ group'.type = group.type
    BY <1>0, <1>4, StoredFacts, AbsenceAssumption DEF PatchFails, BodyInv
  <2>2. CASE job' = NoJob
    <3>1. outcome' = "error"
      BY <1>4, <2>2, ContinueFacts DEF PatchFails, Fails
    <3>2. TypeOK'
      BY <1>4, <2>1, <2>2, <3>1 DEF TypeOK, PatchFails
    <3> QED BY <2>2, <3>2, JobEnds
  <2>3. CASE job' # NoJob
    <3>1. Continue("recover") /\ outcome' = outcome /\ job # NoJob
      BY <1>4, <2>3 DEF PatchFails, Fails
    <3>2. job' \in Job /\ job'.step = "recover" /\ job'.body = job.body
      BY <3>1, ContinueFacts
    <3>3. TypeOK'
      BY <1>4, <2>1, <3>1, <3>2 DEF TypeOK, PatchFails
    <3>4. MappingInv'
      BY <3>2 DEF MappingInv
    <3>5. BodyInv'
      BY <1>4, <3>1, <3>2 DEF BodyInv, PatchFails, Changed, Managed, CreateSteps
    <3> QED BY <3>3, <3>4, <3>5
  <2> QED BY <2>2, <2>3
<1>5. CASE Recover
  <2>1. TypeOK'
    BY <1>0, <1>5, GroupIsRecord DEF TypeOK, Recover, Fails
  <2> QED BY <1>5, <2>1, JobEnds DEF Recover, Fails
<1>6. CASE RecoverFails
  <2>1. TypeOK'
    BY <1>6 DEF TypeOK, RecoverFails, Fails
  <2> QED BY <1>6, <2>1, JobEnds DEF RecoverFails, Fails
<1>7. CASE Verify
  <2>1. TypeOK'
    BY <1>0, <1>7, GroupIsRecord DEF TypeOK, Verify
  <2> QED BY <1>7, <2>1, JobEnds DEF Verify
<1>8. CASE VerifyFails
  <2>1. state \in StateRecords /\ config.type \in Types
    BY <1>8, ConfigFacts DEF TypeOK, VerifyFails, BodyInv, CreateSteps
  <2>2. state' \in StateRecords
    BY <1>8, <2>1 DEF VerifyFails, StateRecords
  <2>3. TypeOK'
    BY <1>8, <2>2 DEF TypeOK, VerifyFails, Fails
  <2> QED BY <1>8, <2>3, JobEnds DEF VerifyFails, Fails
<1> QED BY <1>1, <1>2, <1>3, <1>4, <1>5, <1>6, <1>7, <1>8

\* A POST makes a group nobody is a member of.
LEMMA PostedFacts ==
    ASSUME TypeOK, Posted
    PROVE  /\ group' \in Groups /\ group' # NoGroup
           /\ role' = [p \in People |-> NoRole]
<1> QED BY ConfigFacts, AbsenceAssumption DEF Posted, Groups

\* Every way a Create has of returning after its POST records a group.
LEMMA ReturnRecords ==
    ASSUME IInv, job' = NoJob,
           ReadCreated \/ ReadCreatedFails \/ InformFails \/ Reread \/ RereadFails
    PROVE  state' \in StateRecords /\ state' # NoState
<1> USE DEF IInv
<1>0. /\ group # NoGroup => group.fields \in [Fields -> Values]
      /\ job # NoJob => job \in Job /\ job.body \in SUBSET Fields
      /\ NotPosted \subseteq Optional /\ Optional \subseteq Fields
  BY FieldsAssumption DEF TypeOK, Job, Groups
<1>1. CASE ReadCreated
  <2>1. CASE ToInform(group.fields) # {}
    <3>1. /\ job' = [job EXCEPT !.step = "inform", !.body = ToInform(group.fields),
                                !.seen = group.fields]
          /\ job # NoJob /\ group # NoGroup
      BY <1>1, <2>1 DEF ReadCreated
    <3>2. job' \in Job
      BY <1>0, <3>1 DEF Job, ToInform
    <3> QED BY <3>2, AbsenceAssumption
  <2>2. CASE ToInform(group.fields) = {}
    BY <1>0, <1>1, <2>2, RecordFacts DEF ReadCreated
  <2> QED BY <2>1, <2>2
<1>2. CASE ReadCreatedFails
  <2> DEFINE shown == [f \in Optional |-> IF f \in NotPosted \/ ~Managed(f) THEN Null
                                          ELSE config.fields[f]]
  <2>1. \A f \in Optional : shown[f] \in Values \cup {Null}
    BY <1>0, ConfigFacts
  <2>2. Record(shown)
    BY <1>2 DEF ReadCreatedFails
  <2> HIDE DEF shown
  <2> QED BY <2>1, <2>2, RecordFacts
<1>3. CASE InformFails
  BY <1>0, <1>3, RecordFacts DEF InformFails, BodyInv
<1>4. CASE Reread
  <2> DEFINE fields == [f \in Fields |-> IF f \in NotPosted THEN group.fields[f] ELSE job.seen[f]]
  <2>1. \A f \in Optional : fields[f] \in Values \cup {Null}
    BY <1>0, <1>4 DEF BodyInv, Reread
  <2>2. Record(fields)
    BY <1>4 DEF Reread
  <2> HIDE DEF fields
  <2> QED BY <2>1, <2>2, RecordFacts
<1>5. CASE RereadFails
  <2> DEFINE fields == [f \in Optional |-> IF f \in job.body THEN config.fields[f] ELSE job.seen[f]]
  <2>1. \A f \in Optional : fields[f] \in Values \cup {Null}
    BY <1>0, <1>5, ConfigFacts DEF BodyInv, RereadFails
  <2>2. Record(fields)
    BY <1>5 DEF RereadFails
  <2> HIDE DEF fields
  <2> QED BY <2>1, <2>2, RecordFacts
<1> QED BY <1>1, <1>2, <1>3, <1>4, <1>5

\* The requests of a Create, and their failures.
LEMMA CreateInv ==
    ASSUME IInv, Create
    PROVE  IInv'
<1> USE DEF IInv
<1>0. /\ job # NoJob => job \in Job /\ job.body \in SUBSET Fields
      /\ group # NoGroup => group \in Groups /\ group.fields \in [Fields -> Values]
      /\ NotPosted \subseteq Optional /\ Optional \subseteq Fields
  BY FieldsAssumption DEF TypeOK, Job, Groups
<1>1. CASE Post
  <2>1. job' \in Job /\ job'.step = "read" /\ job'.body = {} /\ job' # NoJob
    BY <1>1, AbsenceAssumption DEF Post, Job, Unseen
  <2>2. TypeOK'
    BY <1>1, <2>1, PostedFacts DEF TypeOK, Post
  <2>3. MappingInv'
    BY <2>1 DEF MappingInv
  <2>4. BodyInv'
    BY <1>1, <2>1 DEF BodyInv, Post, CreateSteps
  <2> QED BY <2>2, <2>3, <2>4
<1>2. CASE PostFails
  <2>1. TypeOK'
    BY <1>2, PostedFacts DEF TypeOK, PostFails
  <2> QED BY <1>2, <2>1, JobEnds DEF PostFails
<1>3. CASE ReadCreated
  <2>1. CASE ToInform(group.fields) # {}
    <3>1. /\ job' = [job EXCEPT !.step = "inform", !.body = ToInform(group.fields),
                                !.seen = group.fields]
          /\ UNCHANGED <<group, role, config, state, tainted, outcome>>
          /\ job # NoJob /\ group # NoGroup
      BY <1>3, <2>1 DEF ReadCreated
    <3>2. ToInform(group.fields) \in SUBSET Fields
      BY <1>0 DEF ToInform
    <3>3. /\ job' \in Job /\ job'.step = "inform" /\ job'.body = ToInform(group.fields)
          /\ job'.seen = group.fields
      BY <1>0, <3>1, <3>2 DEF Job
    <3>4. TypeOK'
      BY <3>1, <3>3 DEF TypeOK
    <3>5. MappingInv'
      BY <3>3 DEF MappingInv
    <3>6. BodyInv'
      BY <1>0, <3>1, <3>3 DEF BodyInv, ToInform, Managed, CreateSteps
    <3> QED BY <3>4, <3>5, <3>6
  <2>2. CASE ToInform(group.fields) = {}
    <3>1. /\ Record(group.fields)
          /\ CreateEnds(VisibilityStands(group.fields))
          /\ UNCHANGED <<group, role, config>>
          /\ group # NoGroup
      BY <1>3, <2>2 DEF ReadCreated
    <3>2. state' \in StateRecords
      BY <1>3, <3>1, ReturnRecords DEF CreateEnds
    <3>3. TypeOK'
      BY <3>1, <3>2 DEF TypeOK, CreateEnds, VisibilityStands
    <3> QED BY <3>1, <3>3, JobEnds DEF CreateEnds
  <2> QED BY <2>1, <2>2
<1>4. CASE ReadCreatedFails
  <2>1. state' \in StateRecords
    BY <1>4, ReturnRecords DEF ReadCreatedFails, CreateEnds
  <2>2. TypeOK'
    BY <1>4, <2>1 DEF TypeOK, ReadCreatedFails, CreateEnds
  <2> QED BY <1>4, <2>2, JobEnds DEF ReadCreatedFails, CreateEnds
<1>5. CASE Inform
  <2>1. /\ job' \in Job /\ job'.step = "reread" /\ job' # NoJob
        /\ job'.body = job.body /\ job'.seen = job.seen
    BY <1>5, ContinueFacts DEF Inform
  <2>2. /\ group # NoGroup /\ group' \in Groups /\ group' # NoGroup
        /\ group'.type = group.type
    BY <1>0, <1>5, StoredFacts, AbsenceAssumption DEF Inform, BodyInv
  <2>3. TypeOK'
    BY <1>5, <2>1, <2>2 DEF TypeOK, Inform
  <2>4. MappingInv'
    BY <2>1 DEF MappingInv
  <2>5. BodyInv'
    BY <1>5, <2>1 DEF BodyInv, Inform, Managed, CreateSteps
  <2> QED BY <2>3, <2>4, <2>5
<1>6. CASE InformFails
  <2>1. \/ group' = group
        \/ /\ group # NoGroup /\ group' \in Groups /\ group' # NoGroup
           /\ group'.type = group.type
    BY <1>0, <1>6, StoredFacts, AbsenceAssumption DEF InformFails, BodyInv
  <2>2. state' \in StateRecords
    BY <1>6, ReturnRecords DEF InformFails, CreateEnds
  <2>3. TypeOK'
    BY <1>6, <2>1, <2>2 DEF TypeOK, InformFails, CreateEnds
  <2> QED BY <1>6, <2>3, JobEnds DEF InformFails, CreateEnds
<1>7. CASE Reread
  <2>1. state' \in StateRecords
    BY <1>7, ReturnRecords DEF Reread, CreateEnds
  <2>2. TypeOK'
    BY <1>7, <2>1 DEF TypeOK, Reread, CreateEnds, VisibilityStands
  <2> QED BY <1>7, <2>2, JobEnds DEF Reread, CreateEnds
<1>8. CASE RereadFails
  <2>1. state' \in StateRecords
    BY <1>8, ReturnRecords DEF RereadFails, CreateEnds
  <2>2. TypeOK'
    BY <1>8, <2>1 DEF TypeOK, RereadFails, CreateEnds
  <2> QED BY <1>8, <2>2, JobEnds DEF RereadFails, CreateEnds
<1> QED BY <1>1, <1>2, <1>3, <1>4, <1>5, <1>6, <1>7, <1>8 DEF Create

\* Terraform's other calls come when nothing runs; a killed provider runs nothing.
LEMMA TerraformInv ==
    ASSUME IInv,
           Refresh \/ Import \/ Delete \/ Killed \/ \E c \in Configs : Configure(c)
    PROVE  IInv'
<1> USE DEF IInv
<1>0. group # NoGroup => group \in StateRecords
  BY GroupIsRecord DEF TypeOK
<1>1. job' = NoJob
  BY DEF Refresh, Import, Delete, Killed, Configure, Idle
<1>2. TypeOK'
  BY <1>0 DEF TypeOK, Refresh, Import, Delete, Killed, Configure, Idle
<1> QED BY <1>1, <1>2, JobEnds

\* Members and administrators, at any time the switch allows.
LEMMA OthersInv ==
    ASSUME IInv, Others
    PROVE  IInv'
<1> USE DEF IInv
<1>1. BodyInv'
  BY DEF BodyInv, Others, MemberMoves, AdminEdits, AdminMigrates, AdminDeletes,
         Changed, Managed
<1>2. ASSUME NEW p \in People, NEW r \in Roles \cup {NoRole}, MemberMoves(p, r)
      PROVE  TypeOK' /\ MappingInv'
  BY <1>2, AbsenceAssumption DEF TypeOK, MappingInv, MemberMoves, MembersMayMove, RolesOf
<1>3. ASSUME NEW f \in Fields, NEW v \in Values, AdminEdits(f, v)
      PROVE  TypeOK' /\ MappingInv'
  <2>1. /\ group' \in Groups /\ group' # NoGroup /\ group'.type = group.type
    BY <1>3, AbsenceAssumption DEF TypeOK, AdminEdits, Groups
  <2> QED BY <1>3, <2>1 DEF TypeOK, MappingInv, AdminEdits
<1>4. ASSUME NEW t \in Types, AdminMigrates(t)
      PROVE  TypeOK' /\ MappingInv'
  <2>1. /\ group' \in Groups /\ group' # NoGroup /\ group'.type = t
    BY <1>4, AbsenceAssumption DEF TypeOK, AdminMigrates, Groups
  <2>2. role' \in [People -> RolesOf(t) \cup {NoRole}]
    BY <1>4 DEF AdminMigrates
  <2>3. TypeOK'
    BY <1>4, <2>1, <2>2 DEF TypeOK, AdminMigrates, RolesOf
  <2>4. MappingInv'
    BY <1>4 DEF MappingInv, AdminMigrates, MembersMayMove
  <2> QED BY <2>3, <2>4
<1>5. ASSUME AdminDeletes PROVE TypeOK' /\ MappingInv'
  <2>1. TypeOK'
    BY <1>5 DEF TypeOK, AdminDeletes
  <2>2. MappingInv'
    BY <1>5 DEF MappingInv, AdminDeletes
  <2> QED BY <2>1, <2>2
<1> QED BY <1>1, <1>2, <1>3, <1>4, <1>5 DEF Others

\* Every step keeps the invariant.
LEMMA StepInv == IInv /\ [Next]_vars => IInv'
<1> SUFFICES ASSUME IInv, [Next]_vars PROVE IInv'
  OBVIOUS
<1>1. CASE UNCHANGED vars
  BY <1>1 DEF vars, IInv, TypeOK, MappingInv, BodyInv, Changed, Managed
<1> QED BY <1>1, StartUpdateInv, UpdateStepInv, CreateInv, TerraformInv, OthersInv
        DEF Next, Update

\* The inductive invariant holds in every reachable state of the group.
THEOREM Invariance == Spec => []IInv
<1> QED BY InitInv, StepInv, PTL DEF Spec

---------------------------------------------------------------------------
(* The theorems *)

\* Every reachable state is well typed: nobody is in a role another type owns, and a
\* state in the file is a group.
THEOREM GroupTyping == Spec => []TypeOK
<1>1. IInv => TypeOK
  BY DEF IInv
<1> QED BY <1>1, Invariance, PTL

\* The steps that move a running Update on.
LEMMA UpdateSteps ==
    ASSUME IInv, [Next]_vars, Updating, job' # job
    PROVE  \/ Migrate \/ MigrateFails \/ Patch \/ PatchFails \/ Recover
           \/ RecoverFails \/ Verify \/ VerifyFails \/ Killed
<1> USE DEF Updating, CreateSteps
<1>1. ~StartUpdate /\ ~Refresh /\ ~Import /\ ~Delete /\ \A c \in Configs : ~Configure(c)
  BY DEF StartUpdate, Refresh, Import, Delete, Configure, Idle
<1>2. ~Create
  BY DEF Create, Post, PostFails, ReadCreated, ReadCreatedFails, Inform, InformFails,
         Reread, RereadFails
<1>3. ~Others
  BY DEF Others, MemberMoves, AdminEdits, AdminMigrates, AdminDeletes
<1>4. ~UNCHANGED vars
  BY DEF vars
<1> QED BY <1>1, <1>2, <1>3, <1>4 DEF Next, Update

\* An Update writes only the settings its plan changes, however stale the state it
\* planned from, and whoever edits the group meanwhile.
THEOREM RestIsLeftAlone == Spec => UpdateLeavesTheRestAlone
<1>1. ASSUME IInv, [Next]_vars, Updating, job' # job, group # NoGroup, group' # NoGroup,
             NEW f \in Fields, group'.fields[f] # group.fields[f]
      PROVE  Managed(f) /\ config.fields[f] # state.fields[f]
  <2> USE <1>1 DEF IInv
  <2>0. /\ job # NoJob /\ job.body \in SUBSET Fields /\ job.body \subseteq Changed
        /\ \A g \in job.body : Managed(g)
    BY DEF Updating, BodyInv, TypeOK, Job
  <2>1. CASE Migrate \/ MigrateFails
    BY <2>1, MigratedFacts DEF Migrate, MigrateFails
  <2>2. CASE Patch \/ PatchFails
    BY <2>0, <2>2, StoredFacts DEF Patch, PatchFails, Changed
  <2>3. CASE Recover \/ RecoverFails \/ Verify \/ VerifyFails \/ Killed
    BY <2>3 DEF Recover, RecoverFails, Verify, VerifyFails, Killed
  <2> QED BY <2>1, <2>2, <2>3, UpdateSteps
<1>2. IInv /\ [Next]_vars =>
         (Updating /\ job' # job =>
             \A f \in Fields :
                 group # NoGroup /\ group' # NoGroup /\ group'.fields[f] # group.fields[f] =>
                     Managed(f) /\ config.fields[f] # state.fields[f])
  BY <1>1
<1> QED BY <1>2, Invariance, PTL DEF Spec, UpdateLeavesTheRestAlone

\* While memberships rest during an apply, no migration moves a member into a role of
\* another name, whatever the mapping had to guess for the roles nobody holds.
THEOREM MembersAreKept ==
    ASSUME MembersDuringApply = FALSE
    PROVE  Spec => MembersKeepTheirRole
<1>1. ASSUME IInv, [Next]_vars, Updating, job' # job, NEW p \in People, role[p] # NoRole
      PROVE  role'[p] # NoRole /\ Slug[role'[p]] = Slug[role[p]]
  <2> USE <1>1 DEF IInv
  <2>1. CASE Migrated /\ job # NoJob /\ job.step = "migrate"
    BY <2>1, MigratedFacts DEF MappingInv
  <2>2. CASE UNCHANGED role
    BY <2>2
  <2> QED BY <2>1, <2>2, UpdateSteps
          DEF Migrate, MigrateFails, Patch, PatchFails, Recover, RecoverFails, Verify,
              VerifyFails, Killed
<1>2. IInv /\ [Next]_vars =>
         (Updating /\ job' # job =>
             \A p \in People : role[p] # NoRole =>
                 role'[p] # NoRole /\ Slug[role'[p]] = Slug[role[p]])
  BY <1>1
<1> QED BY <1>2, Invariance, PTL DEF Spec, MembersKeepTheirRole

\* A successful Update has the group in state as the configuration asks for it.
THEOREM UpdateSuccessIsReadBack == Spec => UpdateSuccessIsTrue
<1>1. ASSUME IInv, [Next]_vars, Updating, outcome' = "success"
      PROVE  /\ state' = group
             /\ group.type = config.type
             /\ \A f \in Fields : Managed(f) => group.fields[f] = config.fields[f]
  <2> USE <1>1 DEF IInv
  <2>1. outcome = "none"
    BY DEF BodyInv, Updating
  <2>2. ~Create
    BY DEF Updating, CreateSteps, Create, Post, PostFails, ReadCreated,
           ReadCreatedFails, Inform, InformFails, Reread, RereadFails
  <2>3. Verify
    BY <2>1, <2>2
       DEF Updating, Next, vars, Update, StartUpdate, Migrate, MigrateFails, Patch,
           PatchFails, Recover, RecoverFails, VerifyFails, Fails, Refresh, Import,
           Delete, Killed, Configure, Idle, Others, MemberMoves, AdminEdits,
           AdminMigrates, AdminDeletes
  <2> QED BY <2>3 DEF Verify, AsConfigured
<1> QED BY <1>1, Invariance, PTL DEF Spec, UpdateSuccessIsTrue

\* Every way a Create has of returning puts the group its POST made into the state.
THEOREM CreateRecords == Spec => CreatedGroupIsRecorded
<1>1. ASSUME IInv, [Next]_vars, job # NoJob, job.step \in CreateSteps, job' = NoJob,
             outcome' # "killed"
      PROVE  state' # NoState
  <2> USE <1>1 DEF IInv
  <2>1. Create
    BY DEF Next, vars, CreateSteps, Update, StartUpdate, Migrate, MigrateFails, Patch,
           PatchFails, Recover, RecoverFails, Verify, VerifyFails, Refresh, Import,
           Delete, Killed, Configure, Idle, Others, MemberMoves, AdminEdits,
           AdminMigrates, AdminDeletes
  <2>2. ~Inform
    BY ContinueFacts DEF Inform
  <2> QED BY <2>1, <2>2, ReturnRecords DEF Create, Post, PostFails
<1> QED BY <1>1, Invariance, PTL DEF Spec, CreatedGroupIsRecorded
=============================================================================
