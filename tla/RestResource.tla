---------------------------- MODULE RestResource ----------------------------
(***************************************************************************)
(* The master data with a REST collection of its own: campus, contact label, *)
(* growth path, database field, group role, and seven more.  Each resource  *)
(* file implements the same five calls; they differ in what PUT re-sends for *)
(* an attribute the configuration leaves out, in whether a write is read    *)
(* back, and in whether writes to the collection take turns.  That is the   *)
(* `kind' of a behaviour; the calls of one apply run in parallel.           *)
(*                                                                         *)
(* Name stands for the required attributes, Extra for the optional ones,    *)
(* Flag for is_default, which ChurchTools lets one row of a collection have. *)
(***************************************************************************)
EXTENDS Naturals, FiniteSets

CONSTANTS
    Resources,              \* the resource blocks, each with its row
    Kinds,                  \* the kinds of resource a behaviour may be about
    Configs,                \* what a block may say: [attribute -> value or Unset]
    AdminsDuringApply,      \* may administrators write while an apply runs?
    Gone, NoState, NoJob,   \* no row; no terraform state; no call running
    Unset, Null             \* not configured; no value in state

Attributes == {"name", "extra", "flag"}

Values == {0, 1}

\* What ChurchTools stores, and a Create sends, for an attribute left out.
Default == 0

ASSUME SwitchAssumption == AdminsDuringApply \in BOOLEAN

ASSUME ConfigsAssumption ==
    \A c \in Configs : /\ c \in [Attributes -> Values \cup {Unset}]
                       /\ c["name"] # Unset

ASSUME UnsetAssumption == Unset \notin Values

ASSUME NullAssumption ==
    \A attrs \in SUBSET Attributes :
        Gone \notin [attrs -> Values] /\ NoState \notin [attrs -> Values \cup {Null}]

---------------------------------------------------------------------------
(* The kinds.                                                               *)
(*   attrs     the attributes                                               *)
(*   kept      of those left out, the ones PUT sends as a GET before it shows *)
(*             them; the others are sent as the state has them              *)
(*   readsFirst is there a GET before every PUT, kept attributes or not?     *)
(*   replied   of those left out, the ones POST leaves out too; the state    *)
(*             takes them from its reply                                    *)
(*   verifies  what the read-back of a write compares                       *)
(*   records   is a created row put into state though the read-back failed? *)
(*   creatable can the provider create one?                                 *)
(*   locked    do writes to the collection take turns?                      *)

\* Every attribute is required.
Campus == [attrs |-> {"name"}, kept |-> {}, readsFirst |-> FALSE, replied |-> {},
           verifies |-> "nothing", records |-> FALSE, creatable |-> TRUE, locked |-> FALSE]

PersonStatus == Campus

\* The rest a group type needs is sent by Create only.
GroupType == Campus

\* sort_key may be left out.
CommentViewer == [Campus EXCEPT !.attrs = {"name", "extra"}]

TargetGroup == CommentViewer

AgeGroup == CommentViewer

\* The extra is the description; sort_key is a comment viewer's.
GroupCategory == [CommentViewer EXCEPT !.replied = {"extra"}]

\* the name, sort_key, export_title and include_in_export
RelationshipType == CommentViewer

\* is_default is asked of ChurchTools, sort_key is not.
ContactLabel == [Campus EXCEPT !.attrs = Attributes, !.kept = {"flag"}, !.locked = TRUE]

\* Everything is compared; an unproven Create is not recorded.
GrowPath == [CommentViewer EXCEPT !.verifies = "all"]

\* is_new_person_field is the name here, is_active the extra.
DbField == [CommentViewer EXCEPT !.kept = {"extra"}, !.readsFirst = TRUE,
                                 !.verifies = "all", !.creatable = FALSE]

RoleDefinition == [Campus EXCEPT !.attrs = Attributes, !.kept = {"extra", "flag"},
                                 !.readsFirst = TRUE, !.verifies = "managed", !.records = TRUE]

AllKinds == {Campus, PersonStatus, GroupType, CommentViewer, TargetGroup, AgeGroup,
             GroupCategory, RelationshipType, ContactLabel, GrowPath, DbField,
             RoleDefinition}

ASSUME KindsAssumption == Kinds \subseteq AllKinds

---------------------------------------------------------------------------
VARIABLES
    kind,       \* the kind of all the resources
    live,       \* the row of each block in ChurchTools, or Gone
    config,     \* what each block says
    state,      \* terraform's state of each, or NoState
    tainted,    \* did the Create end in an error? terraform replaces it then
    job,        \* the running Create or Update of each, or NoJob
    succeeded   \* did the last one, with nothing outside interfering since?

vars == <<kind, live, config, state, tainted, job, succeeded>>

Rows == [kind.attrs -> Values]

Job == [step : {"read", "write", "verify", "created"}, body : Rows]

TypeOK ==
    /\ kind \in Kinds
    /\ live \in [Resources -> Rows \cup {Gone}]
    /\ config \in [Resources -> Configs]
    /\ state \in [Resources -> [kind.attrs -> Values \cup {Null}] \cup {NoState}]
    /\ tainted \in [Resources -> BOOLEAN]
    /\ job \in [Resources -> Job \cup {NoJob}]
    /\ succeeded \in [Resources -> BOOLEAN]
    /\ \A r \in Resources : tainted[r] => state[r] # NoState
    /\ kind.locked => Cardinality({r \in Resources : job[r] # NoJob}) <= 1

AtMostOneDefault(rows) ==
    "flag" \in kind.attrs =>
        \A r, q \in Resources :
            rows[r] # Gone /\ rows[q] # Gone /\ rows[r]["flag"] = 1 /\ rows[q]["flag"] = 1 => r = q

Init ==
    /\ kind \in Kinds
    /\ live \in [Resources -> Rows \cup {Gone}]
    /\ AtMostOneDefault(live)
    /\ config \in [Resources -> Configs]
    /\ state = [r \in Resources |-> NoState]
    /\ tainted = [r \in Resources |-> FALSE]
    /\ job = [r \in Resources |-> NoJob]
    /\ succeeded = [r \in Resources |-> FALSE]

Idle == \A r \in Resources : job[r] = NoJob

---------------------------------------------------------------------------
(* ChurchTools *)

\* A row that becomes the default takes the flag from every other row.
Put(r, row) ==
    [q \in Resources |->
        IF q = r THEN row
        ELSE IF "flag" \in kind.attrs /\ row["flag"] = 1 /\ live[q] # Gone
             THEN [live[q] EXCEPT !["flag"] = 0]
             ELSE live[q]]

\* Where the code reads back, ChurchTools may keep some of its old values.
Stored(old, body) ==
    IF kind.verifies = "nothing" THEN {body}
    ELSE {row \in Rows : \A a \in kind.attrs : row[a] \in {old[a], body[a]}}

Wrote(r) ==
    /\ live[r] # Gone
    /\ \E row \in Stored(live[r], job[r].body) : live' = Put(r, row)

---------------------------------------------------------------------------
(* Update *)

Configured(r, a) == config[r][a] # Unset

Differs(r) == \E a \in kind.attrs : Configured(r, a) /\ config[r][a] # state[r][a]

\* Parallel writes to a collection whose writes need to take turns.
LockIgnored(r) == TRUE

\* The mutex of contact labels, from before the GET to after the PUT.
LockFree(r) == kind.locked => \A q \in Resources : job[q] = NoJob

\* A full body with the state's values for what the configuration leaves out.
OverlayOnState(r, row) ==
    [a \in kind.attrs |-> IF Configured(r, a) THEN config[r][a] ELSE state[r][a]]

\* A full body: what is configured, the row's values for what is kept, and the
\* state's (UseStateForUnknown) for the rest.
Overlay(r, row) ==
    [a \in kind.attrs |-> IF Configured(r, a) THEN config[r][a]
                          ELSE IF a \in kind.kept THEN row[a] ELSE state[r][a]]

Goes(r, step, body) == job' = [job EXCEPT ![r] = [step |-> step, body |-> body]]

Ends(r, success) ==
    /\ job' = [job EXCEPT ![r] = NoJob]
    /\ succeeded' = [succeeded EXCEPT ![r] = success]

\* The GET comes first where a kept attribute is left out, and always where the kind
\* says so.
StartUpdate(r) ==
    /\ job[r] = NoJob /\ LockFree(r)
    /\ state[r] # NoState /\ ~tainted[r]
    /\ Differs(r)
    /\ IF kind.readsFirst \/ \E a \in kind.kept : ~Configured(r, a)
       THEN Goes(r, "read", [a \in kind.attrs |-> Default])
       ELSE Goes(r, "write", Overlay(r, state[r]))
    /\ succeeded' = [succeeded EXCEPT ![r] = FALSE]
    /\ UNCHANGED <<kind, live, config, state, tainted>>

ReadLive(r) ==
    /\ job[r] # NoJob /\ job[r].step = "read"
    /\ live[r] # Gone
    /\ Goes(r, "write", Overlay(r, live[r]))
    /\ UNCHANGED <<kind, live, config, state, tainted, succeeded>>

\* The PUT, whose success ends the Update where nothing is read back.
Write(r) ==
    /\ job[r] # NoJob /\ job[r].step = "write"
    /\ Wrote(r)
    /\ IF kind.verifies = "nothing"
       THEN /\ state' = [state EXCEPT ![r] = job[r].body]
            /\ Ends(r, TRUE)
       ELSE /\ Goes(r, "verify", job[r].body)
            /\ UNCHANGED <<state, succeeded>>
    /\ UNCHANGED <<kind, config, tainted>>

WriteFails(r) ==
    /\ job[r] # NoJob /\ job[r].step = "write"
    /\ Wrote(r) \/ UNCHANGED live
    /\ Ends(r, FALSE)
    /\ UNCHANGED <<kind, config, state, tainted>>

\* A read-back that is only there to fill in computed values.
AnyRow(r, row) == TRUE

Compared(r) == IF kind.verifies = "all" THEN kind.attrs
               ELSE {a \in kind.attrs : Configured(r, a)}

\* What the read-back of a write compares.
AsSent(r, row) == \A a \in Compared(r) : row[a] = job[r].body[a]

\* An Update that was not stored as sent leaves the state alone.
Verify(r) ==
    /\ job[r] # NoJob /\ job[r].step = "verify"
    /\ live[r] # Gone
    /\ state' = IF AsSent(r, live[r]) THEN [state EXCEPT ![r] = live[r]] ELSE state
    /\ Ends(r, AsSent(r, live[r]))
    /\ UNCHANGED <<kind, live, config, tainted>>

\* A GET of an Update fails.
ReadFails(r) ==
    /\ job[r] # NoJob /\ job[r].step \in {"read", "verify"}
    /\ Ends(r, FALSE)
    /\ UNCHANGED <<kind, live, config, state, tainted>>

---------------------------------------------------------------------------
(* Create *)

\* Bodies with what the plan still has unknown.
UnknownSent(r) == {[a \in kind.attrs |-> config[r][a]]}

\* What a POST asks for; what it leaves out is up to ChurchTools.
NewRows(r) ==
    {row \in Rows : \A a \in kind.attrs :
        IF Configured(r, a) THEN row[a] = config[r][a] ELSE a \in kind.replied \/ row[a] = Default}

\* A block without state has its row created, whatever row a former block of it left
\* behind; nothing here looks for that one.
MayCreate(r) ==
    /\ job[r] = NoJob /\ LockFree(r)
    /\ state[r] = NoState
    /\ kind.creatable

Posted(r, new) ==
    \E row \in Stored([a \in kind.attrs |-> Default], new) : live' = Put(r, row)

Post(r) ==
    /\ MayCreate(r)
    /\ \E new \in NewRows(r) :
          /\ Posted(r, new)
          /\ IF kind.verifies = "nothing"
             THEN /\ state' = [state EXCEPT ![r] = new]
                  /\ Ends(r, TRUE)
             ELSE /\ Goes(r, "created", new)
                  /\ succeeded' = [succeeded EXCEPT ![r] = FALSE]
                  /\ UNCHANGED state
    /\ UNCHANGED <<kind, config, tainted>>

\* POST fails, or its answer has no id, and the row may exist nevertheless.
PostFails(r) ==
    /\ MayCreate(r)
    /\ (\E new \in NewRows(r) : Posted(r, new)) \/ UNCHANGED live
    /\ Ends(r, FALSE)
    /\ UNCHANGED <<kind, config, state, tainted>>

\* Together with an error, terraform taints what a Create records.
Records(r, row, success) ==
    /\ state' = IF success \/ kind.records THEN [state EXCEPT ![r] = row] ELSE state
    /\ tainted' = [tainted EXCEPT ![r] = ~success /\ kind.records]
    /\ Ends(r, success)

ReadCreated(r) ==
    /\ job[r] # NoJob /\ job[r].step = "created"
    /\ live[r] # Gone
    /\ Records(r, live[r], AsSent(r, live[r]))
    /\ UNCHANGED <<kind, live, config>>

\* The plan is all there is to record, with null for what it left unknown.
ReadCreatedFails(r) ==
    /\ job[r] # NoJob /\ job[r].step = "created"
    /\ Records(r, [a \in kind.attrs |-> IF Configured(r, a) THEN config[r][a] ELSE Null], FALSE)
    /\ UNCHANGED <<kind, live, config>>

---------------------------------------------------------------------------
(* Terraform's other calls, and the rest of the world *)

\* Read, which drops a row that is gone.
Refresh(r) ==
    /\ Idle
    /\ state[r] # NoState
    /\ state' = [state EXCEPT ![r] = IF live[r] = Gone THEN NoState ELSE live[r]]
    /\ tainted' = [tainted EXCEPT ![r] = @ /\ live[r] # Gone]
    /\ UNCHANGED <<kind, live, config, job, succeeded>>

\* ImportState, and the Read after it.
Import(r) ==
    /\ Idle
    /\ state[r] = NoState /\ live[r] # Gone
    /\ state' = [state EXCEPT ![r] = live[r]]
    /\ UNCHANGED <<kind, live, config, tainted, job, succeeded>>

\* Delete un-manages; so does the first half of a tainted row's replacement.
Delete(r) ==
    /\ job[r] = NoJob
    /\ state[r] # NoState
    /\ state' = [state EXCEPT ![r] = NoState]
    /\ tainted' = [tainted EXCEPT ![r] = FALSE]
    /\ succeeded' = [succeeded EXCEPT ![r] = FALSE]
    /\ UNCHANGED <<kind, live, config, job>>

Interfered == succeeded' = [r \in Resources |-> FALSE]

Configure(r, c) ==
    /\ Idle
    /\ config[r] # c
    /\ config' = [config EXCEPT ![r] = c]
    /\ Interfered
    /\ UNCHANGED <<kind, live, state, tainted, job>>

AdminSaves(r, row) ==
    /\ Idle \/ AdminsDuringApply
    /\ row # live[r]
    /\ live' = Put(r, row)
    /\ Interfered
    /\ UNCHANGED <<kind, config, state, tainted, job>>

AdminDeletes(r) ==
    /\ Idle \/ AdminsDuringApply
    /\ live[r] # Gone
    /\ live' = [live EXCEPT ![r] = Gone]
    /\ Interfered
    /\ UNCHANGED <<kind, config, state, tainted, job>>

Update(r) ==
    StartUpdate(r) \/ ReadLive(r) \/ Write(r) \/ WriteFails(r) \/ Verify(r) \/ ReadFails(r)

Create(r) == Post(r) \/ PostFails(r) \/ ReadCreated(r) \/ ReadCreatedFails(r)

Others(r) ==
    \/ Refresh(r) \/ Import(r) \/ Delete(r) \/ AdminDeletes(r)
    \/ \E c \in Configs : Configure(r, c)
    \/ \E row \in Rows : AdminSaves(r, row)

Next == \E r \in Resources : Update(r) \/ Create(r) \/ Others(r)

Spec == Init /\ [][Next]_vars

---------------------------------------------------------------------------
(* Properties *)

\* A label that an apply made the default is the default until somebody outside changes
\* a label or the configuration, whatever other labels are created or updated next to it
\* ("run in parallel, that read and PUT can straddle another label's PUT and take the
\* default straight back", contactLabelWrites).
DefaultStands ==
    kind.locked =>
        \A r \in Resources :
            /\ succeeded[r] /\ config[r]["flag"] = 1
            /\ \A q \in Resources \ {r} : config[q]["flag"] # 1
            => live[r] # Gone /\ live[r]["flag"] = 1

\* An Update never undoes, in an attribute the configuration leaves out and the code
\* asks ChurchTools for, what administrators set since the state was read ("Omitted
\* means: keep what the instance holds now", db_field).  For the default flag that needs
\* the collection's writes to take turns.
UnmanagedStands ==
    [][\A r \in Resources :
          /\ job[r] # NoJob /\ job[r].step # "created"
          /\ live[r] # Gone /\ live'[r] # Gone
          /\ job'[r] # job[r]
          => \A a \in kind.kept \ (IF kind.locked THEN {} ELSE {"flag"}) :
                ~Configured(r, a) => live'[r][a] = live[r][a]]_vars

\* Where a write is read back, an apply that reports success has what the configuration
\* asks for in ChurchTools and the row itself in state ("A 200 is not proof the write
\* landed", db_field).
SuccessMeansStored ==
    [][\A r \in Resources :
          /\ kind.verifies # "nothing"
          /\ job[r] # NoJob /\ succeeded'[r]
          => /\ state'[r] = live'[r]
             /\ \A a \in kind.attrs : Configured(r, a) => live'[r][a] = config[r][a]]_vars

=============================================================================
