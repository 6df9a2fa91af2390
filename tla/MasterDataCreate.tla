-------------------------- MODULE MasterDataCreate --------------------------
(***************************************************************************)
(* Creating rows through the legacy saveMasterData call, which returns no   *)
(* id (churchtools_department, churchtools_privacy_agreement_type).  A      *)
(* Create takes the client's mutex, lists the table, refuses a name that is *)
(* there already, posts the row, lists the table again and claims the one   *)
(* row that is new.  Terraform runs the Creates and Updates of one apply in *)
(* parallel; administrators edit the table meanwhile; any request may fail, *)
(* and a failed post may have stored its row; the provider may be killed.   *)
(***************************************************************************)
EXTENDS Naturals, FiniteSets

CONSTANTS
    Resources,      \* the declared rows of one table
    Names,          \* the names a row may carry
    NameOf,         \* the declared name of a resource
    MaxId,          \* bound: ids ChurchTools gives out
    NoRow, NoId,    \* no row under an id; no id in state
    Admin           \* the author of a row no resource wrote

ASSUME NamesAssumption == NameOf \in [Resources -> Names]
ASSUME BoundAssumption == MaxId \in Nat
ASSUME NullAssumption == Admin \notin Resources /\ NoId \notin 1..MaxId

VARIABLES
    rows,       \* the table: per id its row, or NoRow
    nextId,     \* the next id ChurchTools gives out
    lock,       \* the resources whose Create holds masterDataCreateMu
    pc,         \* where a resource's Create stands
    known,      \* the ids its first listing showed
    written,    \* the id its post was stored under (no request shows it)
    disturbed,  \* was a row added, removed or renamed by others since that listing?
    state       \* the id terraform holds for a resource, or NoId

vars == <<rows, nextId, lock, pc, known, written, disturbed, state>>

Ids == 1..MaxId

Row == [name : Names,
        author : Resources \cup {Admin},    \* who wrote it
        renamed : BOOLEAN]                  \* has anyone renamed it since?

ASSUME NoRowAssumption == NoRow \notin Row

TypeOK ==
    /\ \A i \in Ids : rows[i] # NoRow => rows[i] \in Row /\ i < nextId
    /\ nextId \in 1..(MaxId + 1)
    /\ lock \subseteq Resources
    /\ pc \in [Resources -> {"idle", "locked", "checked", "saved"}]
    /\ known \in [Resources -> SUBSET Ids]
    /\ written \in [Resources -> Ids \cup {NoId}]
    /\ disturbed \in [Resources -> BOOLEAN]
    /\ state \in [Resources -> Ids \cup {NoId}]
    /\ lock = {r \in Resources : pc[r] # "idle"} /\ Cardinality(lock) <= 1

Init ==
    /\ rows = [i \in Ids |-> NoRow]
    /\ nextId = 1
    /\ lock = {}
    /\ pc = [r \in Resources |-> "idle"]
    /\ known = [r \in Resources |-> {}]
    /\ written = [r \in Resources |-> NoId]
    /\ disturbed = [r \in Resources |-> FALSE]
    /\ state = [r \in Resources |-> NoId]

---------------------------------------------------------------------------

Present == {i \in Ids : rows[i] # NoRow}

Named(n) == {i \in Present : rows[i].name = n}

Idle == \A r \in Resources : pc[r] = "idle"

\* ChurchTools stores a new row.
Store(n, author) ==
    /\ nextId <= MaxId
    /\ rows' = [rows EXCEPT ![nextId] = [name |-> n, author |-> author, renamed |-> FALSE]]
    /\ nextId' = nextId + 1

Unstored == UNCHANGED <<rows, nextId>>

\* Somebody other than the running Creates changed the table.
Disturb == disturbed' = [r \in Resources |-> pc[r] # "idle"]

\* The Create returns, and its deferred call frees the mutex.
Return(r) ==
    /\ pc' = [pc EXCEPT ![r] = "idle"]
    /\ lock' = lock \ {r}
    /\ known' = [known EXCEPT ![r] = {}]
    /\ written' = [written EXCEPT ![r] = NoId]
    /\ disturbed' = [disturbed EXCEPT ![r] = FALSE]

\* A LockMasterDataCreate that locks nothing.
UnlockedCreate == TRUE

\* LockMasterDataCreate can be had.
LockFree == lock = {}

Lock(r) ==
    /\ pc[r] = "idle"
    /\ state[r] = NoId
    /\ LockFree
    /\ lock' = lock \cup {r}
    /\ pc' = [pc EXCEPT ![r] = "locked"]
    /\ UNCHANGED <<rows, nextId, known, written, disturbed, state>>

\* A Create that leaves the uniqueness of names to ChurchTools.
AnyName(r) == TRUE

NameFree(r) == Named(NameOf[r]) = {}

\* The first listing, and the refusal of a name that is taken.
ListBefore(r) ==
    /\ pc[r] = "locked"
    /\ NameFree(r)
    /\ pc' = [pc EXCEPT ![r] = "checked"]
    /\ known' = [known EXCEPT ![r] = Present]
    /\ disturbed' = [disturbed EXCEPT ![r] = FALSE]
    /\ UNCHANGED <<rows, nextId, lock, written, state>>

\* The name is taken, or the listing fails.
CreateRefused(r) ==
    /\ pc[r] = "locked"
    /\ Return(r)
    /\ UNCHANGED <<rows, nextId, state>>

\* SaveMasterData, answered.
Save(r) ==
    /\ pc[r] = "checked"
    /\ Store(NameOf[r], r)
    /\ written' = [written EXCEPT ![r] = nextId]
    /\ pc' = [pc EXCEPT ![r] = "saved"]
    /\ UNCHANGED <<lock, known, disturbed, state>>

\* SaveMasterData fails: at the table's columns, on the wire, or after ChurchTools
\* stored the row.  The Create returns and leaves the row it may have written.
SaveFails(r) ==
    /\ pc[r] = "checked"
    /\ Store(NameOf[r], r) \/ Unstored
    /\ Return(r)
    /\ UNCHANGED state

Fresh(r) == Present \ known[r]

\* A Create that takes the newest of the new rows.
SomeFresh(r) == {i \in Fresh(r) : \A j \in Fresh(r) : j <= i}

\* The rows the second listing offers as the new one.
Candidates(r) == Fresh(r)

Claim(r) ==
    /\ pc[r] = "saved"
    /\ \E i \in Ids : Candidates(r) = {i} /\ state' = [state EXCEPT ![r] = i]
    /\ Return(r)
    /\ UNCHANGED <<rows, nextId>>

\* Not exactly one new row, or the listing fails: the row is left to the operator.
Orphan(r) ==
    /\ pc[r] = "saved"
    /\ Return(r)
    /\ UNCHANGED <<rows, nextId, state>>

---------------------------------------------------------------------------
(* The other operations of the resource, and the rest of the world *)

\* Update renames the row back, by id and without the mutex.  ChurchTools stores
\* nothing under an id it does not have.
Update(r) ==
    LET i == state[r]
    IN  /\ i # NoId
        /\ pc[r] = "idle"
        /\ rows' = IF rows[i] = NoRow THEN rows
                   ELSE [rows EXCEPT ![i].name = NameOf[r], ![i].renamed = TRUE]
        /\ Disturb
        /\ UNCHANGED <<nextId, lock, pc, known, written, state>>

\* Read drops a resource whose row is gone.
Read(r) ==
    /\ Idle
    /\ state[r] # NoId
    /\ rows[state[r]] = NoRow
    /\ state' = [state EXCEPT ![r] = NoId]
    /\ UNCHANGED <<rows, nextId, lock, pc, known, written, disturbed>>

\* ImportState, as the refusal's message tells the operator.
Import(r, i) ==
    /\ Idle
    /\ state[r] = NoId
    /\ i \in Named(NameOf[r])
    /\ \A s \in Resources : state[s] # i
    /\ state' = [state EXCEPT ![r] = i]
    /\ UNCHANGED <<rows, nextId, lock, pc, known, written, disturbed>>

\* Delete un-manages the row.
Delete(r) ==
    /\ pc[r] = "idle"
    /\ state[r] # NoId
    /\ state' = [state EXCEPT ![r] = NoId]
    /\ UNCHANGED <<rows, nextId, lock, pc, known, written, disturbed>>

\* The provider process dies: nothing it held survives it.
Killed ==
    /\ ~Idle
    /\ pc' = [r \in Resources |-> "idle"]
    /\ lock' = {}
    /\ known' = [r \in Resources |-> {}]
    /\ written' = [r \in Resources |-> NoId]
    /\ disturbed' = [r \in Resources |-> FALSE]
    /\ UNCHANGED <<rows, nextId, state>>

AdminAdds(n) ==
    /\ Store(n, Admin)
    /\ Disturb
    /\ UNCHANGED <<lock, pc, known, written, state>>

AdminRenames(i, n) ==
    /\ i \in Present /\ rows[i].name # n
    /\ rows' = [rows EXCEPT ![i].name = n, ![i].renamed = TRUE]
    /\ Disturb
    /\ UNCHANGED <<nextId, lock, pc, known, written, state>>

AdminDeletes(i) ==
    /\ i \in Present
    /\ rows' = [rows EXCEPT ![i] = NoRow]
    /\ Disturb
    /\ UNCHANGED <<nextId, lock, pc, known, written, state>>

Create(r) ==
    \/ Lock(r) \/ ListBefore(r) \/ CreateRefused(r)
    \/ Save(r) \/ SaveFails(r)
    \/ Claim(r) \/ Orphan(r)

Administrators ==
    \/ \E n \in Names : AdminAdds(n)
    \/ \E i \in Ids, n \in Names : AdminRenames(i, n)
    \/ \E i \in Ids : AdminDeletes(i)

Next ==
    \/ \E r \in Resources :
          \/ Create(r) \/ Update(r) \/ Read(r) \/ Delete(r)
          \/ \E i \in Ids : Import(r, i)
    \/ Killed
    \/ Administrators

Spec == Init /\ [][Next]_vars

---------------------------------------------------------------------------
(* Properties *)

\* Two Creates never take each other's row for their own or for a stranger's: as
\* long as nobody else changes the table, exactly the row a Create posted is new
\* to it, so it is claimed and never orphaned (LockMasterDataCreate).
PostedRowIsTheNewOne ==
    \A r \in Resources :
        pc[r] = "saved" /\ ~disturbed[r] => Candidates(r) = {written[r]}

\* Even while administrators edit the table, a Create puts no row into state but
\* its own, unless its own has been deleted meanwhile.
ClaimsItsOwnRow ==
    [][\A r \in Resources :
          state'[r] # state[r] /\ pc[r] = "saved" =>
              state'[r] = written[r] \/ rows[written[r]] = NoRow]_vars

\* The provider writes a name once: however often a Create times out after its row
\* was stored, is killed or is orphaned and tried again, and even if two resources
\* declare the same name, a later Create finds the row and refuses (the comment at
\* the same-name check: no "orphan that every retry duplicates").
NameWrittenOnce ==
    \A i, j \in Present :
        rows[i].name = rows[j].name /\ i # j =>
            \/ rows[i].renamed \/ rows[j].renamed
            \/ rows[i].author = Admin \/ rows[j].author = Admin

=============================================================================
