# A TLA+ model of terraform-provider-churchtools

The provider lets Terraform manage the structure of a ChurchTools (CT) instance:
groups, roles, permissions, master data. CT has no transactions, no version numbers
and no create-or-get; several of its endpoints answer 2xx and store nothing, or create
a row and do not say which. The provider answers with read-backs, refusals and shared
locks, and those are what this project models.

Paths are relative to the repository root (`src/` in `PROJECT.json`).

## 1. Inventory

### How a run works

Terraform starts one provider process. `provider.go` builds one `client.Client`, and
every resource holds a pointer to it. Terraform calls the CRUD methods of *different*
resources concurrently (ten at a time), those of one resource one after another. A CRUD
method is a sequence of HTTP requests; between two of them anybody else may change CT.
What Terraform persists is what the method leaves in `resp.State`; a killed process
leaves the old state file. A Create that returns state *and* an error taints the
resource, and the next apply replaces it: Delete (which everywhere in this provider only
un-manages, with a warning) and Create.

### Components

| Component | State it keeps | Operations | What is hard |
|---|---|---|---|
| Session (`internal/client/session.go`, half of `client.go`) | cookie and CSRF token, count of renewals and of transient failures, a remembered failure, the one-slot lock | `session`, `renewSession`, `handshake`, the 401 branches of `do` and `AjaxJSON` | concurrent first logins, one expiry seen by many, cancellation of the lock holder, hosts that throttle logins |
| Pacer (`internal/client/pacer.go`) | next free slot, end of the shared pause | `reserve`, `wait`, `pauseFor`, the loop of `send` | sleepers overtaken by a pause, two retry budgets, what may be resent |
| REST calls (`crud.go`, `roles.go`) | none | list, get, create, update | paging over a changing collection |
| Permission rows (`permissions.go`) | cache of the rights a host offers | read, PUT, DELETE of a domain, `OfferedAuthIDs` | a DELETE without `dataId` is wide; a PUT flips a deny |
| Legacy master data (`masterdata.go`, `LockMasterDataCreate`) | a mutex | `SaveMasterData`, `MasterDataRows` | a create that returns no id |
| Grants engine (`internal/grants/grants.go`) | none (pure) | filter, plan, verify | denies, baselines, preserved dimensions, "alle" (-1) beside selections |
| Grants service (`grants_common.go`; group_role, group_type_role, person_status_grants) | Terraform state | create, read, update, import, destroy | many requests per apply, each may fail or be ignored |
| Group (`resource_group.go`, `group_type_migration.go`) | Terraform state | create (POST, GET, PATCH, GET), update (migration, PATCH, GET) | stale state, migration moves members, partial failure |
| Department, privacy agreement type | Terraform state | create by listing before and after | parallel creates, lost answers |
| REST resources: nine plain master data kinds, growth path stage, `db_field`, role definition | Terraform state; a mutex for contact labels | POST or PUT of the whole row, some over a live read, some read back | side effects on sibling rows, what PUT re-sends, ignored writes |
| Dynamic group (`resource_dynamic_group.go`), rulesets (`internal/ruleset`) | Terraform state; normalised trees | two PUTs in an order that depends on the status | partial failure; what counts as equal |
| Provider configuration (`provider.go`, `configure.go`) | the client, built once | configure | unknown credentials leave a nil client, which every operation refuses |

Interactions: every request takes `send` -> pacer; every authenticated request takes the
session first; the handshake itself goes through the pacer. Grants and resources use the
client only. Two resources meet only in CT, in the shared client, and in the master data
mutex.

`PROJECT.json` lists every component with its status, and under "hazards" every place
where the order of steps, a failure or a stale read bites, with its line.

### What makes each component correct

* Session: one login at a time; no login storm whatever the host does; one expiry is
  invisible; a working session is never thrown away; a caller's own timeout hurts nobody
  else; nothing is carried out twice.
* Pacer: no burst; silence when the host asks for it; a POST is never repeated after it
  may have been applied; every call returns.
* Grants: an apply revokes only what the plan showed, never a deny, a baseline row or an
  undeclared row of a preserved dimension; a reported success is true, and the next plan
  is empty.
* Group: an update touches only what it plans; members keep their role in a migration;
  success is read back; what was created or migrated is in state on every path.
* Legacy creates: the row claimed is the row written; a name is written once.
* REST resources: a PUT of the whole row reverts nothing it was not told to set; the
  default of a collection stays where an apply put it; success that is read back is true.
* Dynamic group: no PUT leaves a rule running but the configured one, after any failure;
  a plan shows a change exactly when there is one.

## 2. Modules

| Module | Models | State in the model |
|---|---|---|
| `Session` | session and 401 handling of one client | cookie = a number that grows with every login; `sem` = `sessionSem`; `pc` = where each request stands |
| `SessionProofs`, `RenewalProofs` | theorems about `Session`: lock, logins and retries; renewals and lapses | |
| `Pacer` | pacer, `send`, the 429 loop of `handshakeGet` | deadlines as time left; `pc`, `timer`, `attempt`, `conflicts` per exchange |
| `GrantsEngine` | `grants.go` as operators on sets of rows | none |
| `Grants` | a grants resource over its life, on `GrantsEngine` | `live` rows, `config`, `state`, and `job`, the writes an apply still has to send |
| `GrantsContract` | what a grants resource promises, without its requests | `live`, `config`, `state`, and whether an apply runs |
| `GrantsProofs` | theorems about `Grants`, the refinement among them | |
| `MasterDataCreate` | legacy creates of several resources on one table | `rows` with their authors, `lock` = the mutex, `known` = the listing before, `state` |
| `MasterDataProofs`, `PacerProofs`, `RestProofs`, `GroupProofs`, `DynamicGroupProofs` | theorems about `MasterDataCreate`, `Pacer`, `RestResource`, `Group`, `DynamicGroup` | |
| `RestResource` | the twelve resources with a REST collection | `kind`, the rows `live`, `config`, `state`, `tainted`, and `job`, the call each block is in |
| `Ruleset` | `internal/ruleset` as operators on JSON trees | none |
| `DynamicGroup` | one dynamic group, over a normal form that is a parameter (`MCDynamicGroup` puts `Ruleset` in) | `group`, `config`, `state`, and `job`, the PUTs an apply still has to send |
| `Group` | one group with its members | `group`, `role` of each person, `config`, `state`, `tainted`, `job` = the request to come |
| `MC*` | constants for the runs | |

Each action is one request with the code up to the next request, because nothing outside
the process sees anything in between; where the code holds a lock over local work only,
the action is the critical section. Definitions marked *variant* or described as "an X
that ..." are plausible bugs: they are not used by any specification and exist to be put
in the place of the definition below them, to see that the property notices.

### Session

`session()` is `GetSession`, `renewSession(stale)` is `RenewSession` with `held[r]` as
`stale`, `handshake` is `WhoamiOk/WhoamiFails/CsrfOk/CsrfFails`, one try of
`handshakeGet` answered 429 is `Throttled`, the `ctx.Err()` case of `handshakeLocked` is
`HandshakeAborted`. Both `do` and `AjaxJSON` are `SendOk/SendUnauthorized/SendFails`;
they differ in how expiry is recognised (401, or an error envelope). `refusing` are
routes that answer 401 whatever the session. Pacing and retries inside `send` are one
step here, and `Pacer` is their model.

Two consequences of the code that the model shows and no property forbids:
a renewal begun by a request that is then cancelled still uses up one of the
`maxRenewals` (`CancelledRenewals`), so with the code's cap of 3 three of them are enough
for the next lapse to fail a request nobody cancelled; and a session that ends between
`whoami` and the CSRF read gives a 401 which is *definitive*, so every later request of
the run fails. `OneLapseIsInvisible` excludes both by name, and nothing else.

### Pacer

`nextStart`, `pausedUntil` and timers are kept as the time left, so the model needs no
horizon. `Tick` waits for everybody who is due: goroutine scheduling delays are assumed
small against the slot length. (With unbounded delays two starts can always meet, in the
code as in any program.) `FirstSlot`/`ClaimSlot` are `reserve`, `Wake` is the loop of
`wait`, `Throttled` and `Conflict` are the two retry branches of `send`,
`LoginThrottled` the one of `handshakeGet`. `asked` is the wait
the host asked for, as the code takes it: after the cap on `Retry-After`
(`retryAfterMax`), which the model has no number for. `caught` are those already past
`wait` at that moment; both are only there for the property.

The last 429 of a handshake is returned *without* a pause (`session.go:200-203`), whereas
the last one of `send` pauses the siblings (`pacer.go:206`). The model follows the code,
and `SilentWhilePaused` speaks of the 429s that are passed to `pauseFor`.

### GrantsEngine and Grants

A row is a right, a selection (or none, or "alle") and the inheritance flag; the value CT
stores for it is nothing, a grant, a grant of its baseline (`modifiedPid` -1), or a deny.
`Managed` is `FilterLive`, `ToRevoke`/`ToGrant` and the three refusals are `PlanWrites`,
`Verified` is `VerifyWrites`. In `Grants`, `StartApply` is `apply` up to its first write,
each write is a step, `Verify` is the read-back, and `ApplyFails` can end the apply at any
of them. `AfterDelete` and `AfterPut` are what CT does, as `permissions.go:37-55` and the
test double describe it. A write, PUT or DELETE, that CT answers and
ignores is `stored = FALSE`; `job.ignored` remembers the rows of such DELETEs, for
`NeverBothSelections`. `RefreshGone` is the 404 on which `read` drops the resource from
state.
Edits in the UI, imports, refreshes, configuration changes and re-applies come in any
order, so states left behind by failed applies and by changed `preserve_unknown` lists
are all reached.

`GrantsContract` is what is left when the requests are taken out: while no apply runs
the provider writes nothing; an apply takes away grants that the plan showed as removals,
adds declared rows where there was nothing, and puts the configuration into state only
when it is true. `ImplementsContract` says that `Grants` does no more than that, with
`busy` for `job # NoJob` and everything else by its own name.

### RestResource

The resource files of twelve collections implement the same five calls. They differ in
few ways, and a `kind` says in which: the attributes, those that PUT asks ChurchTools
for when they are left out (`kept`; for the others the plan has the state's value,
`UseStateForUnknown`), whether a GET precedes every PUT even when nothing is kept
(`readsFirst`), what POST leaves out and the state takes from the reply (`replied`, the
description of a group category), what is compared when a write is read back (`verifies`), whether an
unproven Create is recorded (`records`), and whether writes take turns (`locked`, the
mutex `contactLabelWrites`). Attributes stand for the ones of a role in the code: `name`
for all that are required, `extra` for the optional ones, `flag` for `is_default`. Each
request is a step; blocks of one apply run in parallel. A row that becomes the default
takes the flag from the others (`Put`), as in the test double. Where the code reads back,
ChurchTools may keep any of its old values (`Stored`); where it does not, a write that is
answered is stored, since nobody has seen these collections do otherwise. There is one
row per block, so the POST that replaces a tainted row overwrites it in the model, where
CT has both afterwards; no property is about the number of rows.

Three consequences of the code that the model has and no property forbids: the plain
kinds PUT an omitted `sort_key` as the state has it, and so take back what was set in the
UI since the refresh (`resource_comment_viewer.go:128`); a growth path stage whose first
GET after the POST fails is in no state, and the next apply creates a second
(`resource_grow_path.go:208`); and roles, unlike contact labels, do not take turns, so of
two roles updated in parallel one can write back an `is_default` that the other has just
taken (`resource_group_role_definition.go:398`; `UnmanagedStands` leaves this flag out
where nothing is locked).

### Ruleset and DynamicGroup

`Ruleset` translates `normalize.go` and `refs.go`: JSON values are tagged records, and of
a string only what the code looks at is kept (an integer in canonical spelling, or text).
The type errors of `Normalize` (`normalize.go:82`, `96`) are not translated: `ValidateConfig`
refuses such a text and CT serves none. How a rule may be wrapped, and that null, an empty
array and an array of null are the empty rule, is `WrappingsAssumption` of
`MCDynamicGroup`, which TLC evaluates.
`Normalize`, `StripCosmeticLabels`, `CoerceScalars`, `Equal`, `Canonical`, `Resolve` and
`Markers` are recursive as in Go. `DynamicGroup` takes them as parameters, under names of
its own (`NormalForm`, `CanonicalForm`, `SameForm`, `MarkersOf`, `WithIds`, `Envelope`),
with what the resource relies on as assumptions: sameness is an equivalence; the normal
forms of two rules are the same exactly when the rules do the same (`MeansAssumption`);
what Read writes and what ChurchTools stores has the normal form it came from
(`CanonicalAssumption`, `StoreAssumption`); a text without markers does not depend on refs
(`MarkersAssumption`). `MCDynamicGroup` puts `Ruleset` in their place, and TLC evaluates
the assumptions on its definitions before the run `dynamic_group`: this is the check of
the normal form (taking any object for a display label, say, breaks `MeansAssumption`).
What a rule *does* is a table given from outside (`Means`), independent of the normal
form, so that the comparison can be wrong in both directions.

`PlannedRuleset` and `Diff` are `ModifyPlan` and what Terraform makes of it, `StartApply`
is `apply` up to its first PUT (its two GETs as one step; when one fails, the apply ends
before it has changed anything), `Last` and `Due` are the order of the two PUTs, `Shown` is
what Read makes of the authored text. ChurchTools may hand back any spelling that means
what was stored. `MarkersAssumption` also says that no marker stands where the normal form
drops it (beside the envelope, or in a timestamp); a text with such a marker would be kept
in the plan although the configured refs have no entry for it.

### MasterDataCreate

`Lock` ... `Claim`/`Orphan` follow `Create` of `churchtools_department`
(`churchtools_privacy_agreement_type` does the same with its own listing). The failed
save may have stored its row. `Update` takes no lock, as in the code. A killed provider
loses the mutex and what it listed. Deleted ids are not used again.

### Group

The settings are a few fields: a name that every configuration has, an optional one
that POST may ignore (visibility) and an optional one that POST does ignore
(inform_leader). `Mappings` is `deriveRoleMapping`, `MigrationPlans` is
`planGroupTypeMigration`. CT takes a mapping only if it gives every role of the group's
present type a role of the type planned (`Migrated`). A step whose request fails has two outcomes: applied, and not.
Tainted groups go through Delete and Create.

## 3. Runs

| Run | Instance | Shows |
|---|---|---|
| `session` | 3 requests, 2 handshake tries, 2 transient failures, 2 renewals, all faults | the safety of the session (968k states) |
| `session_live` | 3 requests, 2 renewals, only lapses and cancellations | one lapse is invisible; every request returns |
| `session_definitive` | the code's own limits (4, 3, 3), 2 requests | *violated*, see findings |
| `pacer` | a GET, a POST and a handshake GET; slots 0 or 2 ticks apart, pauses of 1 or 3 ticks, one retry of each kind | spacing, pauses, budgets, return (213k states) |
| `grants` | a scoped right with null row, one selection and "alle"; a right the host lacks; a right the catalog lacks; 8 configurations | the safety of applies, and that they implement `GrantsContract` (477k states) |
| `grants_race` | the same, with edits during an apply | *violated*, see findings |
| `rest` | 2 rows of one collection, each of the 12 kinds, 4 configurations | the default of labels, unmanaged settings, success (852k states up to symmetry) |
| `dynamic_group` | 9 rulesets in 5 meanings, 5 configurations (with markers, labels, a PUT envelope, a stereotype) | order of the writes, exact plans; the assumptions on the normal form, evaluated on `Ruleset` (19k states) |
| `master_data` | 3 resources, two with one name, 3 ids | legacy creates (156k states up to symmetry) |
| `group` | 2 types of 2 roles, one person, 3 fields of 2 values | create, update, migration (281k states) |
| `group_stale`, `group_unread` | the same | *violated*, see findings |

**Why the bounds are enough.** In `session`, three requests are needed for one to renew,
one to wait with the same stale session and one to arrive later; limits of 2 let each of
them be reached and left again; more requests repeat roles (and the theorems hold for any
number). In `session_live`, two requests that are cancelled while they renew spend the cap
of 2 and the third is the one it would fail, so the exclusion of the spent cap is needed
there, and one cancelled renewal beside a victim is the case just short of it. In `pacer`, a pause of 3 ticks is longer than a slot and one of 1 is shorter, so
a sleeper's slot falls before, into and after a pause; three exchanges are one that is
told to wait and two that have to be kept apart afterwards. In `grants`, one key carries
all three kinds of rows the refusals of `PlanWrites` relate, and the other two rows are
the cases decided by right alone; keys do not interact elsewhere. In `master_data` two
resources race and a third interferes; with four ids the run finds no error either (3.0M
states). In `group`, each type has a role without a counterpart in the other. In `rest`, the flag
is contended by two rows, a third would only lose it the same way (and the theorems hold
for any number); two values tell a kept value from a sent one. In `dynamic_group`, two
spellings of each class the normal form joins and one ruleset of each class it must keep
apart are all there, and the sequence of PUTs has at most two members.

**Bounds by name.** `MaxId` caps the rows ever stored. Everything else is finite because
the code's own budgets are (`MaxRenewals`, `TransientLimit`, `HandshakeAttempts`,
`Retries`, `Conflicts`, `LoginAttempts`), and `tries` in `Pacer` is counted only to one
above its limit.

**Restrictions of the passing runs.** `grants` runs without edits *during* an apply
(`EditsDuringApply`): with them the wide DELETE takes rows along (`grants_race`), and no
client of this API could prevent it. `group` runs with memberships fixed *during* an
update (`MembersDuringApply`): a person who joins an empty role between the planning
of a mapping and its POST is moved to a guessed role. Settings of the group do change
meanwhile. `rest` and `dynamic_group` run without edits *during* an apply
(`AdminsDuringApply`): a PUT of a whole row that follows a GET, and two PUTs that follow
one, cannot be made safe against an edit in between. Parallel calls of the provider itself
do fall in between. Of the properties of `rest` only `UnmanagedStands` needs this (section 5).
Read is one step in `DynamicGroup`, and so are the two GETs of `StartApply`; the code's
two requests are the group and its rule. A write that fails is applied before the call returns or never; a request
that CT carries out later is not modelled.
`SuccessMeansCleanPlan` leaves out updates that take a dimension *out* of
`preserve_unknown`, which the provider's README documents as removals of the next plan.

**Fairness.** `session_live`: weak fairness of each started request. Goroutines are
scheduled, `http.Client` bounds an exchange by 30 s, all waits are bounded by timers, and
a lock is only held by a request that is itself making progress; with finitely many
requests a waiter cannot be overtaken for ever, so strong fairness on the lock is not
needed. `pacer`: the same, and time passes. Nothing is assumed about lapses,
cancellations, starts of requests, or which answer the host gives. The other modules make
no liveness claim: Terraform or an operator decides whether there is a next step, and
deadlock is checked in all runs.

## 4. Findings

1. `session_definitive`: a definitive handshake failure is "remembered for the run"
   (`session.go:49-51`), but a request still holding an earlier session renews, which
   clears it (`session.go:113`) and logs in again. The number of logins stays bounded
   (`LoginsBounded`).
2. `grants_race`: "an apply only ever revokes a row the plan showed" (README.md:255)
   fails if a selection of the same right is added between the live read and the wide
   DELETE of a null row.
3. `group_stale`: after a migration, a failing PATCH and a failing GET leave the old type
   in state, against `resource_group.go:414-415`.
4. `group_unread`: a Create whose first GET fails, with inform_leader left out, succeeds
   with the configured visibility in state although nothing has read it back, against
   `resource_group.go:48-49`.

## 5. Proofs

Every safety property of the passing runs is proved for all values of the constants (the
liveness properties are not); `PROJECT.json` lists which theorem proves which, and where
a theorem assumes that nobody edits ChurchTools during an apply, its statement says so.

### `SessionProofs`

For every finite set of requests, all limits and all kinds of
faults, from `RequestsAssumption`, `LimitsAssumption` and `FaultsAssumption` only:

* `TypeCorrect`;
* `Inductive`: `Spec => []IInv`;
* `SingleFlightHolds`, `LoginsBoundedHolds`, `AppliedAtMostOnceHolds` from `IInv`;
* the action properties `LiveSessionKeptHolds` and `RetryUsesNewerSessionHolds`.

**Why a strengthening is needed.** `LoginsBounded` counts what has happened; it is not
inductive, because it does not say how much of the budget the login *under way* may
still spend. `LoginBudget` charges each login to a renewal, a transient failure that
still counts, or an aborted caller, separately for "nothing stored", "whoami under way",
"CSRF read under way" and "something stored". This needs `SingleFlight` (only one of those
is under way), `HandshakeStarted` (nothing is stored meanwhile) and
`SessionModeBuysNothing`. `RetryUsesNewerSession` needs `NewestStored`: the stored session
and the one being bought are at least as new as any a request carries. `LiveSessionKept`
needs `RefusalStands`: the reason a request was refused still holds when it gets the lock,
since the host never revives a session. `AppliedAtMostOnce` needs `NotYetApplied`.

### `RenewalProofs`

Builds on `SessionProofs`.

`RenewalsAreJustified` compares counters, and is not inductive: it does not say that the
renewal *to come* has a reason too. `RenewalCredit` charges the renewals made to reasons
that are used up (dead sessions that are no longer stored, retries on a route that refuses
every session, retries that failed), and says that while nothing is stored and nobody is
renewing, one reason more is in hand for the next. `RetryOnce` is needed beside it: who may
still renew has not retried yet.

`CancellationIsForgotten` needs no more than the types and the single flight.

`LapseIsInvisible` is about a host that only lets sessions lapse (`OnlyLapses`), the
hypothesis of the run `session_live`, and says that a request that has not been cancelled
succeeds unless a second session lapses. Its invariant (`LapsesInductive`) says of every
request that fails what excuses it: its own cancellation, a definitive answer to the CSRF
read, two dead sessions, or a cap that cancelled renewals have spent. The theorem assumes
nothing about the cap or the number of requests: the two exceptions are in the property,
where a reader sees them.

### `GrantsProofs`

`GrantsTyping` needs nothing but the assumptions on the constants. `SuccessIsStored` and
`SuccessIsClean` need no hypothesis about edits during an apply, but do not say the same
with and without them. With edits they say what the read-back can vouch for: the declared
rows the host offers are stored, the rows the plan removed are gone (but on a dimension
the configuration begins to preserve), and so the next refresh reads every declared row and
no removed one. That it reads *nothing else*, the empty plan, is said only of an update
from a refreshed state that no edit has disturbed (`FreshInv`, `EditedInv`): a row an
administrator adds meanwhile is rightly shown by the next plan. The other theorems assume
`EditsDuringApply = FALSE`; without it TLC finds counterexamples to each of them, of which
`grants_race` is one. `IInv` says of a running apply that

* what is still to be revoked is granted, in state, not in the configuration, and not of
  a dimension that is preserved (`RevokeInv`);
* a removed row that is granted is still to be revoked, or CT ignored its DELETE
  (`RemovedInv`);
* a null row is only to be revoked when nothing else that stands hangs on its key
  (`NullRowInv`), which is what makes its wide DELETE harmless;
* what is still to be granted is declared, and nothing stands in its place (`GrantInv`);
* the apply works on the configuration as it is (`PlanInv`).

From it, `ContractStep` shows that each step of `Grants` is a step of `GrantsContract` or
a stutter (`GrantsImplementContract`), and the action properties of the run follow from
what `Revoke`, `Grant` and `Adopt` of the contract allow.

### `MasterDataProofs`

For any resources, names and `MaxId`. The invariant keeps the mutex exclusive, and says
of a Create that has listed the table: no row under its name was written by the provider
and not renamed since (`ListingInv`), and of one that has posted: its row is the one id
the listing did not show, unless others changed the table (`SavedInv`).
`NameWrittenOnce` is inductive only with `ListingInv`, because a Create killed after its
post leaves a row nobody has in state.

### `PacerProofs`

For any exchanges, intervals, pauses and budgets. `RetryBudgets` needs `Accounted`: the
tries are the 429s plus the conflicts plus the one under way. `StartsSpaced` needs
`Spaced`: the slots held, the next free one and the last one used all lie an interval
apart, and time does not pass over one that is due. `SilentWhilePaused` needs that the
pause is at least the silence asked for.

### `RestProofs`

For any number of blocks and any configurations. `JobInv` says that a running call's body
agrees with the configuration, and that it has not succeeded yet; that is enough for
`SuccessIsReadBack`. It also says that what the body keeps is still as the row has it,
which holds while the call is `Undisturbed`: no administrator writes during an apply
(the hypothesis of `UnmanagedIsKept`, and necessary there), or, for contact labels, a
success stands that nobody has interfered with. The second half is what makes
`DefaultIsKept` hold without a hypothesis. It needs `Turns`, the mutex, and that at most
one row has the flag.

### `GroupProofs`

For any types, roles, settings and members. `UpdateLeavesTheRestAlone` and
`UpdateSuccessIsTrue` follow from `BodyInv`: what a running Update still has to send is
what its plan changes, and it has not succeeded yet. `CreatedGroupIsRecorded` follows from
`ReturnRecords`, over the five ways a Create has of returning. `MembersKeepTheirRole` needs
`MappingInv`, that the mapping of a running migration takes every role somebody holds to
the role of the same name, which stands only while memberships rest
(`MembersDuringApply = FALSE`); that the state's type may be stale is covered, because
ChurchTools takes a mapping only if it gives every role of the group's type a role of the
planned type.

### `DynamicGroupProofs`

For any rulesets, normal forms and configurations that satisfy the assumptions described
above. The invariant consists of

* `StateInv`: what is in state can be resolved with the refs in state;
* `FreshInv`: a fresh state shows the status of the group, and a text that resolves to its
  rule;
* `PlanInv`: the planned text, which may be the state's and not the configured one,
  resolves with the configured refs to the wanted rule;
* `JobInv`: what an apply has not (or no longer) to write is as configured already.

`NoPutRunsForeignRule` follows from `JobInv`, because the step that comes last is taken only
when the other half is done, and from `PutIsWanted`, that a PUT of the planned ruleset
leaves a rule that does what the configuration says. `PlansAreExact` follows from
`FreshInv` by comparing the four normal forms involved: of the configuration, of the
state's text with and without its refs, and of the live rule. Both assume
`AdminsDuringApply = FALSE`, without which neither holds.

**Only model-checked.** The liveness properties (`EveryRequestReturns`,
`EveryExchangeReturns`) rest on fairness and `ENABLED`, which the installed provers do not
handle. That the definitions of `Ruleset` satisfy the assumptions of `DynamicGroup` is
evaluated by TLC on nine rulesets: they are recursive, recursive operators cannot be used
in a module with theorems, and what a recursive function computes for every input is
beyond the provers.

## 6. Not modelled

* `crud.go` and `roles.go`: each call is one request, taken as one step by the modules
  that use it. A listing is one step too; a collection that changes between two of its
  pages is not modelled.
* The growth path that `churchtools_group_role` writes beside its grants, and
  `clear_grow_path` (`grow_path_clear.go`).
* `privacy_agreement_who`: import-only, one save per update.
* `ExpandSpecs` and `CollapseRows`: grant blocks to rows and back; `Grants` starts from
  rows. The catalog and the cache of offered rights are constants.
* Provider configuration: sequential set-up.
* Schemas, messages, JSON decoding and field mappings, throughout.
* CT itself (permission storage, group migration, master data, sessions) is modelled only
  as far as the provider relies on it: by the code of the test double where it has the
  behaviour, and otherwise marked external in the map.

## 7. Plan

Done, in this order: `Session` and its proofs, `GrantsEngine` and `Grants`,
`MasterDataCreate`, `Group`, `Pacer`, `RestResource` (which took the place of a
`RoleDefinition` of its own), `GrantsContract`, `Ruleset` and `DynamicGroup`, the proofs
of `Grants`, `MasterDataCreate`, `Pacer`, `RestResource` and `Group`, the renewals of
`Session`, the proofs of `DynamicGroup`.

Next, the most important behaviour first:

1. `GroupRole`: growth path and grants of one role, composed with `Grants`.
2. `ExpandSpecs`/`CollapseRows` as operators in `GrantsEngine`, checked as inverse of each
   other.
3. Listing in two pages as a variant of `MasterDataCreate`.
4. An abstract specification of the session (a store with at most one live login, and a
   budget) that `Session` implements, as a refinement.

Theorem to prove next: the refinement of 4.
