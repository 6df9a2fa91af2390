------------------------------- MODULE Grants -------------------------------
(***************************************************************************)
(* One grants resource (group_role, group_type_role or person status) over  *)
(* its life: the operator edits the configuration, terraform imports,       *)
(* refreshes, applies and destroys, and administrators edit the same        *)
(* permission domain in the ChurchTools UI meanwhile.  The flow is          *)
(* grantsService in internal/provider/grants_common.go, the decisions are   *)
(* GrantsEngine.                                                            *)
(*                                                                         *)
(* An apply is a sequence of requests: read the live rows, plan, DELETE     *)
(* selection rows key by key, DELETE null rows, PUT, read back, verify.     *)
(* Reading and planning make one step (nothing is written in between, so    *)
(* an edit that falls between them acts like one after the plan); every     *)
(* write is a step of its own that may fail, applied or not.                *)
(***************************************************************************)
EXTENDS GrantsEngine

CONSTANTS
    Configs,        \* the configurations the operator may write: [rows, preserve]
    EditsDuringApply,   \* may administrators edit while an apply runs?
    NoState, NoJob      \* no terraform state; no apply running

ASSUME ConfigsAssumption ==
    \A c \in Configs : /\ c = [rows |-> c.rows, preserve |-> c.preserve]
                       /\ c.rows \subseteq {r \in Rows : r.right \in Catalog}
                       /\ c.preserve \subseteq Dims

ASSUME SwitchAssumption == EditsDuringApply \in BOOLEAN

VARIABLES
    live,       \* the rows ChurchTools stores for the domain
    config,     \* the resource's configuration
    state,      \* what terraform holds of the resource, or NoState
    job,        \* the running apply, or NoJob
    declared,   \* every row some applied or attempted configuration declared
    fresh       \* did a refresh read this state, with no edit or apply since?

vars == <<live, config, state, job, declared, fresh>>

Resource == [rows : SUBSET Rows, preserve : SUBSET Dims]

Job == [op : {"create", "update"},
        prior : SUBSET Rows,        \* the rows this apply may revoke
        desired : SUBSET Rows,      \* the declared rows it does not skip
        revoke : SUBSET Rows,       \* deletes still to send
        ignored : SUBSET Rows,      \* deletes the host answered and did not carry out
        grant : SUBSET Rows]        \* puts still to send

ASSUME NoneAssumption == NoState \notin Resource /\ NoJob \notin Job

TypeOK ==
    /\ live \in [Rows -> Standing]
    /\ config \in Configs
    /\ state \in Resource \cup {NoState}
    /\ job \in Job \cup {NoJob}
    /\ job # NoJob => /\ job.revoke \subseteq RemovedRows(job.prior, job.desired)
                      /\ job.ignored \subseteq RemovedRows(job.prior, job.desired)
                      /\ job.grant \subseteq job.desired
    /\ declared \subseteq Rows
    /\ fresh \in BOOLEAN

Init ==
    /\ live \in [Rows -> Standing]
    /\ \A r \in Rows : r.right \notin Offered => live[r] = "none"
    /\ config \in Configs
    /\ state = NoState
    /\ job = NoJob
    /\ declared = {}
    /\ fresh = FALSE

---------------------------------------------------------------------------
(* ChurchTools, as the client and its tests describe it *)

\* DELETE: the named selections of the key, or every row of it when none is named.
AfterDelete(k, ids) ==
    [r \in Rows |-> IF KeyOf(r) = k /\ (ids = {} \/ r.data \in ids)
                    THEN "none" ELSE live[r]]

\* PUT adds the named selections, or the null row; next to a live "alle" the
\* selections are ignored, and so is a right the host does not offer.
AfterPut(k, ids) ==
    LET allStands == \E a \in Rows : KeyOf(a) = k /\ a.data = All /\ IsGrant(live, a)
        stored == IF ids = {} THEN {NoData} ELSE ids
    IN  IF k.right \notin Offered \/ (ids # {} /\ allStands) THEN live
        ELSE [r \in Rows |-> IF KeyOf(r) = k /\ r.data \in stored /\ live[r] # "system"
                             THEN "grant" ELSE live[r]]

\* Somebody changes a row in the UI, or ChurchTools restores its baseline.
ForeignEdit(r, to) ==
    /\ job = NoJob \/ EditsDuringApply
    /\ r.right \in Offered
    /\ to # live[r]
    /\ live' = [live EXCEPT ![r] = to]
    /\ fresh' = FALSE
    /\ UNCHANGED <<config, state, job, declared>>

---------------------------------------------------------------------------
(* The operator and terraform *)

\* The configuration is edited between two runs.
Configure(c) ==
    /\ job = NoJob
    /\ config # c
    /\ config' = c
    /\ UNCHANGED <<live, state, job, declared, fresh>>

\* Read: what FilterLive keeps, and the declared rows the host does not offer.
ReadRows(rows, preserve, readable) ==
    Managed(live, rows, preserve) \cup Unoffered(AbsentRows(rows, live), readable)

Refresh(readable) ==
    /\ job = NoJob
    /\ state # NoState
    /\ state' = [state EXCEPT !.rows = ReadRows(state.rows, state.preserve, readable)]
    /\ fresh' = TRUE
    /\ UNCHANGED <<live, config, job, declared>>

\* Read, when ChurchTools answers 404: the domain is gone and leaves the state.  What a
\* later create finds under its id is up to others.
RefreshGone ==
    /\ job = NoJob
    /\ state # NoState
    /\ state' = NoState
    /\ fresh' = FALSE
    /\ UNCHANGED <<live, config, job, declared>>

\* ImportState, with the dimensions of the id's suffix, and the Read after it.
Import(preserve) ==
    /\ job = NoJob
    /\ state = NoState
    /\ state' = [rows |-> ReadRows({}, preserve, FALSE), preserve |-> preserve]
    /\ fresh' = TRUE
    /\ UNCHANGED <<live, config, job, declared>>

\* Delete only takes the resource out of the state.
Destroy ==
    /\ job = NoJob
    /\ state # NoState
    /\ state' = NoState
    /\ fresh' = FALSE
    /\ UNCHANGED <<live, config, job, declared>>

---------------------------------------------------------------------------
(* An apply *)

\* apply, up to the plan of its writes.  When PlanWrites refuses, nothing has been
\* written and nothing changes.
StartApply(op, prior, readable) ==
    LET desired == config.rows \ Unoffered(AbsentRows(config.rows, live), readable)
    IN  /\ job = NoJob
        /\ ~PlanRefused(prior, desired, live)
        /\ job' = [op |-> op, prior |-> prior, desired |-> desired,
                   revoke |-> ToRevoke(prior, desired, live), ignored |-> {},
                   grant |-> ToGrant(desired, live)]
        /\ declared' = declared \cup config.rows
        /\ UNCHANGED <<live, config, state, fresh>>

\* create revokes nothing: its prior is empty.
Create(readable) ==
    /\ state = NoState
    /\ StartApply("create", {}, readable)

\* update: with no difference between plan and state terraform does not call it.
Update(readable) ==
    /\ state # NoState
    /\ state # config
    /\ StartApply("update",
                  Revocable(state.rows, config.rows, state.preserve, config.preserve),
                  readable)

Selections(rows, k) == {r \in rows : KeyOf(r) = k /\ HasData(r)}

NullRows(rows, k) == {r \in rows : KeyOf(r) = k /\ ~HasData(r)}

DataOf(rows) == {r.data : r \in rows}

\* ChurchTools may answer a write 204 and store nothing.
DeleteSelections(k, stored) ==
    LET batch == Selections(job.revoke, k)
    IN  /\ job # NoJob
        /\ batch # {}
        /\ live' = IF stored THEN AfterDelete(k, DataOf(batch)) ELSE live
        /\ job' = [job EXCEPT !.revoke = @ \ batch,
                              !.ignored = IF stored THEN @ ELSE @ \cup batch]
        /\ UNCHANGED <<config, state, declared, fresh>>

\* The wide deletes come after every selection's.
DeleteNullRow(k, stored) ==
    LET batch == NullRows(job.revoke, k)
    IN  /\ job # NoJob
        /\ batch # {}
        /\ \A r \in job.revoke : ~HasData(r)
        /\ live' = IF stored THEN AfterDelete(k, {}) ELSE live
        /\ job' = [job EXCEPT !.revoke = @ \ batch,
                              !.ignored = IF stored THEN @ ELSE @ \cup batch]
        /\ UNCHANGED <<config, state, declared, fresh>>

\* Puts before deletes.
DeletedLater == TRUE

\* Deletes first.
Deleted == job.revoke = {}

PutSelections(k, stored) ==
    LET batch == Selections(job.grant, k)
    IN  /\ job # NoJob
        /\ Deleted
        /\ batch # {}
        /\ live' = IF stored THEN AfterPut(k, DataOf(batch)) ELSE live
        /\ job' = [job EXCEPT !.grant = @ \ batch]
        /\ UNCHANGED <<config, state, declared, fresh>>

PutNullRow(k, stored) ==
    LET batch == NullRows(job.grant, k)
    IN  /\ job # NoJob
        /\ Deleted
        /\ batch # {}
        /\ \A r \in job.grant : ~HasData(r)
        /\ live' = IF stored THEN AfterPut(k, {}) ELSE live
        /\ job' = [job EXCEPT !.grant = @ \ batch]
        /\ UNCHANGED <<config, state, declared, fresh>>

\* The read-back.  A verified apply puts the plan into state.
Verify ==
    /\ job # NoJob
    /\ job.revoke = {} /\ job.grant = {}
    /\ Verified(job.desired, RemovedRows(job.prior, job.desired), live)
    /\ state' = config
    /\ job' = NoJob
    /\ fresh' = FALSE
    /\ UNCHANGED <<live, config, declared>>

\* A write, the read-back or its check fails: the apply ends there, what it wrote
\* stays written, and terraform keeps the state it had.
ApplyFails ==
    /\ job # NoJob
    /\ job' = NoJob
    /\ fresh' = FALSE
    /\ UNCHANGED <<live, config, state, declared>>

---------------------------------------------------------------------------

Write ==
    \E k \in Keys, stored \in BOOLEAN :
        \/ DeleteSelections(k, stored)
        \/ DeleteNullRow(k, stored)
        \/ PutSelections(k, stored)
        \/ PutNullRow(k, stored)

Terraform ==
    \/ \E readable \in BOOLEAN : Refresh(readable) \/ Create(readable) \/ Update(readable)
    \/ \E preserve \in SUBSET Dims : Import(preserve)
    \/ RefreshGone
    \/ Destroy
    \/ Write
    \/ Verify
    \/ ApplyFails

Next ==
    \/ \E c \in Configs : Configure(c)
    \/ \E r \in Rows, to \in Standing : ForeignEdit(r, to)
    \/ Terraform

Spec == Init /\ [][Next]_vars

---------------------------------------------------------------------------
(* Properties *)

\* The rows the provider's step at hand takes away, or adds.
Revoked(r) == job' # job /\ live[r] # "none" /\ live'[r] = "none"
Granted(r) == job' # job /\ live[r] = "none" /\ live'[r] # "none"

\* An apply takes away only a grant the plan showed as a removal: never a deny, a
\* baseline row, or a row the state does not hold, though a wide DELETE removes
\* every row of its key (PlanWrites).
OnlyShownRevoked ==
    [][\A r \in Rows : Revoked(r) =>
          /\ live[r] = "grant"
          /\ state # NoState
          /\ r \in state.rows \ config.rows]_vars

\* "An apply only ever revokes a row the plan showed (one in state)" (README.md),
\* whatever administrators do meanwhile.
RevokesOnlyPlanned ==
    [][\A r \in Rows : Revoked(r) => state # NoState /\ r \in state.rows \ config.rows]_vars

\* preserve_unknown keeps its promise: on a preserved dimension an apply never
\* revokes a row that no configuration declared, whether it was imported, read
\* before the dimension was preserved, or left by an apply that failed
\* (FilterLive, AdoptNewlyPreserved).
PreservedNeverRevoked ==
    [][\A r \in Rows : Revoked(r) /\ DimOf[r.right] \in config.preserve => r \in declared]_vars

\* An apply never turns an administrator's deny into a grant, nor removes it.
DenyStands ==
    [][job' # job => \A r \in Rows : live[r] = "deny" => live'[r] = "deny"]_vars

\* A re-scoped right never holds both selections: an apply adds no row of a right
\* while a row it is to revoke is still granted, in whatever number of requests
\* the deletes and the puts go out (PlanWrites, apply), unless ChurchTools answered
\* that row's DELETE and did not carry it out.
NeverBothSelections ==
    [][(\E r \in Rows : Granted(r)) =>
          \A p \in RemovedRows(job.prior, job.desired) : live[p] = "grant" => p \in job.ignored]_vars

Succeeded == job # NoJob /\ job' = NoJob /\ state' = config

\* An apply that reports success has stored every declared row the host offers, and
\* left no row the plan removed, whatever ChurchTools answered, but on a dimension
\* the configuration begins to preserve (VerifyWrites, AdoptNewlyPreserved).
SuccessMeansStored ==
    [][Succeeded =>
          /\ \A r \in config.rows : r.right \in Offered => IsGrant(live, r)
          /\ state # NoState =>
                \A r \in state.rows \ config.rows :
                    live[r] = "grant" => DimOf[r.right] \in config.preserve \ state.preserve]_vars

\* What a plan sees after a successful apply, in what the following refresh reads: it
\* has nothing to add, and no row the apply removed comes back, edits or not.  After
\* an update from a refreshed state that no edit has disturbed the plan is empty.
\* Not so when the update takes a dimension out of preserve_unknown: the rows it hid
\* are first read by the refresh after it, and the plan after it shows them as
\* removals; nor after a create, which leaves undeclared grants to the next plan.
SuccessMeansCleanPlan ==
    [][Succeeded =>
          LET read == ReadRows(config.rows, config.preserve, TRUE)
          IN  /\ config.rows \subseteq read
              /\ state # NoState => read \cap state.rows \subseteq config.rows
              /\ fresh /\ state # NoState /\ state.preserve \subseteq config.preserve
                   => read = config.rows]_vars

---------------------------------------------------------------------------
(* The contract *)

Contract == INSTANCE GrantsContract WITH busy <- job # NoJob

\* As long as nobody else edits the domain during an apply, the requests of an apply,
\* whichever of them fail, add up to what the resource promises: revoke what the plan
\* showed, grant what is declared, record only what is true (apply, PlanWrites,
\* FilterLive and VerifyWrites together).
ImplementsContract == Contract!Spec

=============================================================================
