---------------------------- MODULE GrantsEngine ----------------------------
(***************************************************************************)
(* The permission engine of internal/grants/grants.go: what a read keeps    *)
(* of the rows ChurchTools stores for one permission domain, which writes   *)
(* an apply sends, which plans it refuses, and how it checks the result.    *)
(* The engine is pure: every operator is a function of the rows the         *)
(* provider has in its hands.  Grants.tla runs it against a live domain.    *)
(*                                                                         *)
(* The code's lists of rows are sets here (it never depends on their order  *)
(* but for error texts and the sorting of the requests), and its German     *)
(* messages are left out.                                                   *)
(***************************************************************************)
EXTENDS Naturals, FiniteSets

CONSTANTS
    Rows,       \* the rows considered: [right, data, sub] records
    Catalog,    \* the rights the built-in catalog can name
    Offered,    \* the rights this host defines
    DimOf,      \* the selection dimension of a right (its ScopeField), or NoDim
    NoDim,      \* an unscoped right
    Dims,       \* the dimensions preserve_unknown may name
    NoData,     \* the data of the null row (dataId null)
    All         \* the data id -1, "alle"

Rights == {r.right : r \in Rows}

ASSUME RowsAssumption ==
    \A r \in Rows : r = [right |-> r.right, data |-> r.data, sub |-> r.sub]

ASSUME DimsAssumption == DimOf \in [Rights -> Dims \cup {NoDim}] /\ NoDim \notin Dims

ASSUME DataAssumption == All # NoData

(***************************************************************************)
(* What ChurchTools may store for a row: nothing, a grant somebody wrote, a *)
(* grant of its own system baseline (modifiedPid -1), or a deny row (type   *)
(* "revoke").  A row's identity carries one type at a time: a PUT flips it. *)
(***************************************************************************)
Standing == {"none", "grant", "system", "deny"}

IsGrant(live, r) == live[r] \in {"grant", "system"}

HasData(r) == r.data # NoData

KeyOf(r) == [right |-> r.right, sub |-> r.sub]      \* writeKey

Keys == {KeyOf(r) : r \in Rows}

---------------------------------------------------------------------------
(* Reading *)

\* FilterLive takes the baseline for an ordinary row.
ManagedWithBaseline(live, declared, preserve) ==
    {r \in Rows : /\ IsGrant(live, r)
                  /\ r.right \in Catalog
                  /\ r \in declared \/ DimOf[r.right] \notin preserve}

\* FilterLive: the live rows that go into state.  A deny row never does; the
\* baseline and the rows of a preserved dimension only when `declared` has them.
Managed(live, declared, preserve) ==
    {r \in Rows : /\ IsGrant(live, r)
                  /\ r.right \in Catalog
                  /\ \/ r \in declared
                     \/ live[r] = "grant" /\ DimOf[r.right] \notin preserve}

\* AbsentRows: the rows of `want` that no live grant row carries.
AbsentRows(want, live) == {r \in want : ~IsGrant(live, r)}

\* A split that skips whatever is absent.
UnofferedAll(absent, readable) == absent

\* unofferedRows and SplitUnoffered: the absent rows the host's right table does
\* not list; none of them when the table cannot be read.
Unoffered(absent, readable) ==
    IF readable THEN {r \in absent : r.right \notin Offered} ELSE {}

---------------------------------------------------------------------------
(* Planning the writes *)

\* An update that does not ask AdoptNewlyPreserved.
RevocableAll(prior, desired, before, after) == prior

\* AdoptNewlyPreserved: the rows of prior an update may still revoke when the
\* plan turns preserve_unknown from `before` into `after`.
Revocable(prior, desired, before, after) ==
    {p \in prior : p \in desired \/ DimOf[p.right] \notin after \ before}

\* RemovedRows
RemovedRows(prior, desired) == prior \ desired

\* A PlanWrites that revokes the rows that stay declared as well.
ToRevokeAll(prior, desired, live) == {p \in prior : live[p] = "grant"}

\* PlanWrites, the deletes: rows that are gone already or that are ChurchTools'
\* own are left out.
ToRevoke(prior, desired, live) ==
    {p \in RemovedRows(prior, desired) : live[p] = "grant"}

\* The selection rows, of whatever type, that the wide DELETE of the null row p
\* would take along although the selections of `revoke` have gone before it.
TakenAlong(p, revoke, live) ==
    {o \in Rows \ revoke : HasData(o) /\ KeyOf(o) = KeyOf(p) /\ live[o] # "none"}

\* A PlanWrites that sees only the selections of type grant.
NullRowBlockedByGrants(revoke, live) ==
    \E p \in revoke : /\ ~HasData(p)
                      /\ \E o \in TakenAlong(p, revoke, live) : live[o] = "grant"

\* PlanWrites refuses to revoke a null row that would take others along.
NullRowBlocked(revoke, live) ==
    \E p \in revoke : ~HasData(p) /\ TakenAlong(p, revoke, live) # {}

\* PlanWrites, the puts: every desired row that is not live yet.
ToGrant(desired, live) == AbsentRows(desired, live)

\* A PlanWrites that overlooks the deny rows.
DenyIgnored(desired, live) == FALSE

\* PlanWrites refuses to flip a deny into a grant ...
DenyBlocked(desired, live) == \E d \in ToGrant(desired, live) : live[d] = "deny"

\* ... and to add a selection where "alle" stands and this apply leaves it.
AllBlocked(desired, revoke, live) ==
    \E d \in ToGrant(desired, live), a \in Rows \ revoke :
        /\ HasData(d)
        /\ KeyOf(a) = KeyOf(d)
        /\ a.data = All
        /\ IsGrant(live, a)

PlanRefused(prior, desired, live) ==
    LET revoke == ToRevoke(prior, desired, live)
    IN  \/ NullRowBlocked(revoke, live)
        \/ DenyBlocked(desired, live)
        \/ AllBlocked(desired, revoke, live)

\* A provider that takes a 2xx for an answer.
VerifiedUnread(desired, removed, live) == TRUE

\* VerifyWrites: the read-back finds every desired row, and none of the removed
\* ones but the baseline.
Verified(desired, removed, live) ==
    /\ AbsentRows(desired, live) = {}
    /\ \A r \in removed : live[r] # "grant"

=============================================================================
