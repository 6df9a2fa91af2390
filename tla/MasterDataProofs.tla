-------------------------- MODULE MasterDataProofs --------------------------
(***************************************************************************)
(* Proofs about MasterDataCreate, for any number of resources and any table. *)
(***************************************************************************)
EXTENDS MasterDataCreate, FiniteSetTheorems, TLAPS

---------------------------------------------------------------------------
(* The inductive invariant *)

\* The types, and the mutex without counting.
Typed ==
    /\ rows \in [Ids -> Row \cup {NoRow}]
    /\ \A i \in Ids : rows[i] # NoRow => i < nextId
    /\ nextId \in 1..(MaxId + 1)
    /\ pc \in [Resources -> {"idle", "locked", "checked", "saved"}]
    /\ known \in [Resources -> SUBSET Ids]
    /\ written \in [Resources -> Ids \cup {NoId}]
    /\ disturbed \in [Resources -> BOOLEAN]
    /\ state \in [Resources -> Ids \cup {NoId}]

Mutex ==
    /\ lock = {r \in Resources : pc[r] # "idle"}
    /\ \A r, q \in lock : r = q

\* What the first listing showed: ids given out by then, all of the table if nobody
\* disturbed it, and no row of this name that the provider wrote.
ListingInv(r) ==
    pc[r] = "checked" =>
        /\ \A i \in known[r] : i < nextId
        /\ ~disturbed[r] => Present = known[r]
        /\ \A i \in Named(NameOf[r]) : rows[i].renamed \/ rows[i].author = Admin

\* What has been posted since is one row, which the listing did not show.
SavedInv(r) ==
    pc[r] = "saved" =>
        /\ written[r] \in Ids
        /\ written[r] \notin known[r]
        /\ written[r] < nextId
        /\ \A i \in known[r] : i < nextId
        /\ ~disturbed[r] => Present = known[r] \cup {written[r]}

IInv ==
    /\ Typed
    /\ Mutex
    /\ \A r \in Resources : ListingInv(r) /\ SavedInv(r)
    /\ NameWrittenOnce

---------------------------------------------------------------------------

LEMMA InitInv == Init => IInv
BY BoundAssumption, NullAssumption
   DEF Init, IInv, Typed, Mutex, ListingInv, SavedInv, NameWrittenOnce, Present, Ids

\* The mutex gives the type invariant its bound on the holders.
LEMMA InvTypes == Typed /\ Mutex => TypeOK
<1> SUFFICES ASSUME Typed, Mutex PROVE TypeOK
  OBVIOUS
<1>1. lock = {} \/ \E r \in lock : lock = {r}
  BY DEF Mutex
<1>2. Cardinality(lock) <= 1
  BY <1>1, FS_EmptySet, FS_Singleton
<1> QED BY <1>2 DEF Typed, Mutex, TypeOK

LEMMA RenamedRow ==
    ASSUME NEW row \in Row, NEW n \in Names
    PROVE  [row EXCEPT !.name = n, !.renamed = TRUE] \in Row
BY DEF Row

\* The types are kept by every step.
LEMMA TypedStep == Typed /\ Mutex /\ [Next]_vars => Typed'
<1> SUFFICES ASSUME Typed, Mutex, [Next]_vars PROVE Typed'
  OBVIOUS
<1> USE BoundAssumption, NullAssumption, NoRowAssumption, NamesAssumption DEF Typed, Ids
<1>1. ASSUME NEW n \in Names, NEW a \in Resources \cup {Admin}, Store(n, a)
      PROVE  /\ rows' \in [Ids -> Row \cup {NoRow}]
             /\ \A i \in Ids : rows'[i] # NoRow => i < nextId'
             /\ nextId' \in 1..(MaxId + 1)
  <2>1. nextId \in Ids /\ nextId' = nextId + 1
    BY <1>1 DEF Store
  <2>2. [name |-> n, author |-> a, renamed |-> FALSE] \in Row
    BY DEF Row
  <2>3. rows' = [rows EXCEPT ![nextId] = [name |-> n, author |-> a, renamed |-> FALSE]]
    BY <1>1 DEF Store
  <2> QED BY <2>1, <2>2, <2>3
<1>2. ASSUME NEW r \in Resources, Return(r)
      PROVE  /\ pc' \in [Resources -> {"idle", "locked", "checked", "saved"}]
             /\ known' \in [Resources -> SUBSET Ids]
             /\ written' \in [Resources -> Ids \cup {NoId}]
             /\ disturbed' \in [Resources -> BOOLEAN]
  BY <1>2 DEF Return
<1>3. ASSUME NEW r \in Resources, Create(r) PROVE Typed'
  <2>1. CASE Lock(r)
    BY <2>1 DEF Lock
  <2>2. CASE ListBefore(r)
    BY <2>2 DEF ListBefore, Present
  <2>3. CASE CreateRefused(r)
    BY <2>3, <1>2 DEF CreateRefused
  <2>4. CASE Save(r)
    <3>1. NameOf[r] \in Names
      OBVIOUS
    <3>2. nextId \in Ids
      BY <2>4 DEF Save, Store
    <3> QED BY <2>4, <3>1, <3>2, <1>1 DEF Save
  <2>5. CASE SaveFails(r)
    <3>1. NameOf[r] \in Names
      OBVIOUS
    <3> QED BY <2>5, <3>1, <1>1, <1>2 DEF SaveFails, Unstored
  <2>6. CASE Claim(r)
    BY <2>6, <1>2 DEF Claim
  <2>7. CASE Orphan(r)
    BY <2>7, <1>2 DEF Orphan
  <2> QED BY <1>3, <2>1, <2>2, <2>3, <2>4, <2>5, <2>6, <2>7 DEF Create
<1>4. ASSUME NEW r \in Resources, Update(r) PROVE Typed'
  <2>1. rows' \in [Ids -> Row \cup {NoRow}] /\ \A i \in Ids : rows'[i] # NoRow => i < nextId
    <3>1. NameOf[r] \in Names /\ state[r] \in Ids
      BY <1>4 DEF Update
    <3>2. CASE rows[state[r]] = NoRow
      BY <1>4, <3>2 DEF Update
    <3>3. CASE rows[state[r]] # NoRow
      BY <1>4, <3>1, <3>3, RenamedRow DEF Update
    <3> QED BY <3>2, <3>3
  <2> QED BY <1>4, <2>1 DEF Update, Disturb
<1>5. ASSUME NEW r \in Resources, Read(r) \/ Delete(r) PROVE Typed'
  BY <1>5 DEF Read, Delete
<1>6. ASSUME NEW r \in Resources, NEW i \in Ids, Import(r, i) PROVE Typed'
  BY <1>6 DEF Import
<1>7. CASE Killed
  BY <1>7 DEF Killed
<1>8. ASSUME NEW n \in Names, AdminAdds(n) PROVE Typed'
  BY <1>8, <1>1 DEF AdminAdds, Disturb
<1>9. ASSUME NEW i \in Ids, NEW n \in Names, AdminRenames(i, n) PROVE Typed'
  BY <1>9, RenamedRow DEF AdminRenames, Disturb, Present
<1>10. ASSUME NEW i \in Ids, AdminDeletes(i) PROVE Typed'
  BY <1>10 DEF AdminDeletes, Disturb
<1>11. CASE UNCHANGED vars
  BY <1>11 DEF vars
<1> QED BY <1>3, <1>4, <1>5, <1>6, <1>7, <1>8, <1>9, <1>10, <1>11 DEF Next, Administrators

\* Only the holder of the mutex is beyond its first line, and it lets go when it returns.
LEMMA MutexStep == Typed /\ Mutex /\ [Next]_vars => Mutex'
<1> SUFFICES ASSUME Typed, Mutex, [Next]_vars PROVE Mutex'
  OBVIOUS
<1> USE DEF Typed, Mutex
<1>1. ASSUME NEW r \in Resources, Create(r) PROVE Mutex'
  BY <1>1 DEF Create, Lock, LockFree, ListBefore, CreateRefused, Save, SaveFails, Claim, Orphan, Return
<1>2. CASE Killed
  BY <1>2 DEF Killed
<1>3. CASE UNCHANGED <<pc, lock>>
  BY <1>3
<1>4. ASSUME NEW r \in Resources, NEW i \in Ids, Import(r, i) PROVE UNCHANGED <<pc, lock>>
  BY <1>4 DEF Import
<1>5. ASSUME NEW r \in Resources, Update(r) \/ Read(r) \/ Delete(r) PROVE UNCHANGED <<pc, lock>>
  BY <1>5 DEF Update, Read, Delete
<1>6. Administrators => UNCHANGED <<pc, lock>>
  BY DEF Administrators, AdminAdds, AdminRenames, AdminDeletes
<1> QED BY <1>1, <1>2, <1>3, <1>4, <1>5, <1>6 DEF Next, vars

---------------------------------------------------------------------------
(* What others do to the table *)

\* Every row is an old one, or marked as not the provider's own.
Foreign ==
    \A i \in Present' :
        \/ rows'[i].renamed \/ rows'[i].author = Admin
        \/ i \in Present /\ rows'[i] = rows[i]

\* A running Create stays where it is, and knows if the table changed.
Bystander(r) ==
    /\ pc'[r] = pc[r] /\ known'[r] = known[r] /\ written'[r] = written[r]
    /\ nextId <= nextId'
    /\ pc[r] # "idle" /\ ~disturbed'[r] => ~disturbed[r] /\ Present' = Present

LEMMA BystanderKept ==
    ASSUME IInv, Typed', Foreign, NEW r \in Resources, Bystander(r)
    PROVE  ListingInv(r)' /\ SavedInv(r)'
<1> USE DEF Bystander
<1>1. ListingInv(r) /\ SavedInv(r) /\ known[r] \subseteq Ids /\ nextId \in Int /\ nextId' \in Int
  BY DEF IInv, Typed, Ids
<1>2. ASSUME pc[r] = "checked" PROVE ListingInv(r)'
  <2>1. \A i \in known'[r] : i < nextId'
    BY <1>1, <1>2 DEF ListingInv, Ids
  <2>2. ~disturbed'[r] => Present' = known'[r]
    BY <1>1, <1>2 DEF ListingInv
  <2>3. \A i \in Named(NameOf[r])' : rows'[i].renamed \/ rows'[i].author = Admin
    BY <1>1, <1>2 DEF ListingInv, Named, Foreign
  <2> QED BY <2>1, <2>2, <2>3 DEF ListingInv
<1>3. ASSUME pc[r] = "saved" PROVE SavedInv(r)'
  BY <1>1, <1>3 DEF SavedInv, Ids
<1> QED BY <1>2, <1>3 DEF ListingInv, SavedInv

LEMMA NamesKept == IInv /\ Foreign => NameWrittenOnce'
BY DEF IInv, NameWrittenOnce, Foreign

LEMMA DisturbNoticed ==
    ASSUME Disturb, UNCHANGED <<pc, known, written>>, nextId <= nextId', NEW r \in Resources
    PROVE  Bystander(r)
<1>1. pc[r] # "idle" => disturbed'[r]
  BY Zenon DEF Disturb
<1> QED BY <1>1 DEF Bystander

\* While one Create runs, the others are idle, and what is not running promises nothing.
LEMMA OneRuns ==
    ASSUME Mutex, NEW r \in Resources, pc[r] # "idle", NEW q \in Resources, q # r
    PROVE  pc[q] = "idle"
BY DEF Mutex

LEMMA IdleInv ==
    ASSUME NEW r \in Resources, pc'[r] \in {"idle", "locked"}
    PROVE  ListingInv(r)' /\ SavedInv(r)'
BY DEF ListingInv, SavedInv

\* A row posted under a name that no row the provider wrote has is the only such one.
LEMMA StoreOnce ==
    ASSUME IInv, NEW r \in Resources, pc[r] = "checked", Store(NameOf[r], r)
    PROVE  NameWrittenOnce' /\ Present' = Present \cup {nextId} /\ nextId \notin Present
<1> DEFINE row == [name |-> NameOf[r], author |-> r, renamed |-> FALSE]
<1>1. nextId \in Ids /\ rows' = [rows EXCEPT ![nextId] = row]
  BY BoundAssumption DEF Store, IInv, Typed, Ids
<1>2. row \in Row
  BY NamesAssumption DEF Row
<1>3. nextId \notin Present
  BY <1>1 DEF IInv, Typed, Present, Ids
<1>4. Present' = Present \cup {nextId}
  BY <1>1, <1>2, NoRowAssumption DEF IInv, Typed, Present
<1>5. \A i \in Present : rows'[i] = rows[i]
  BY <1>1, <1>3 DEF IInv, Typed, Present
<1>6. rows'[nextId] = row
  BY <1>1 DEF IInv, Typed
<1>7. \A i \in Present : rows[i].name = row.name => rows[i].renamed \/ rows[i].author = Admin
  BY DEF IInv, ListingInv, Named
<1>8. NameWrittenOnce'
  BY <1>4, <1>5, <1>6, <1>7 DEF IInv, NameWrittenOnce
<1> QED BY <1>3, <1>4, <1>8

---------------------------------------------------------------------------
(* The invariant is inductive *)

LEMMA CreateInv ==
    ASSUME IInv, Typed', Mutex', NEW r \in Resources, Create(r)
    PROVE  IInv'
<1>0. Typed /\ Mutex
  BY DEF IInv
<1>1. ASSUME NEW q \in Resources, q # r PROVE ListingInv(q)' /\ SavedInv(q)'
  <2>1. pc'[q] = pc[q]
    BY <1>1, <1>0 DEF Typed, Create, Lock, ListBefore, CreateRefused, Save, SaveFails, Claim, Orphan, Return
  <2>2. pc[q] = "idle"
    <3>1. CASE Lock(r)
      BY <3>1, <1>0 DEF Lock, LockFree, Mutex
    <3>2. CASE ~Lock(r)
      BY <3>2, <1>0, <1>1, OneRuns DEF Create, ListBefore, CreateRefused, Save, SaveFails, Claim, Orphan
    <3> QED BY <3>1, <3>2
  <2> QED BY <2>1, <2>2, IdleInv
<1>2. ASSUME UNCHANGED rows PROVE NameWrittenOnce'
  BY <1>2 DEF IInv, NameWrittenOnce, Present
<1>3. CASE Lock(r)
  <2>1. pc'[r] = "locked" /\ UNCHANGED rows
    BY <1>3, <1>0 DEF Lock, Typed
  <2> QED BY <2>1, <1>1, <1>2, IdleInv DEF IInv
<1>4. CASE ListBefore(r)
  <2>1. pc'[r] = "checked" /\ known'[r] = Present /\ ~disturbed'[r] /\ UNCHANGED <<rows, nextId>>
    BY <1>4, <1>0 DEF ListBefore, Typed
  <2>2. Named(NameOf[r])' = {} /\ Present' = Present
    BY <1>4, <2>1 DEF ListBefore, NameFree, Named, Present
  <2>3. \A i \in Present : i < nextId
    BY <1>0 DEF Typed, Present
  <2>4. ListingInv(r)' /\ SavedInv(r)'
    BY <2>1, <2>2, <2>3 DEF ListingInv, SavedInv
  <2> QED BY <2>1, <2>4, <1>1, <1>2 DEF IInv
<1>5. CASE CreateRefused(r) \/ Claim(r) \/ Orphan(r)
  <2>1. pc'[r] = "idle" /\ UNCHANGED rows
    BY <1>5, <1>0 DEF CreateRefused, Claim, Orphan, Return, Typed
  <2> QED BY <2>1, <1>1, <1>2, IdleInv DEF IInv
<1>6. CASE Save(r)
  <2>1. /\ pc[r] = "checked" /\ pc'[r] = "saved" /\ written'[r] = nextId
        /\ UNCHANGED <<known, disturbed>> /\ Store(NameOf[r], r)
    BY <1>6, <1>0 DEF Save, Typed
  <2>2. NameWrittenOnce' /\ Present' = Present \cup {nextId} /\ nextId \notin Present
    BY <2>1, StoreOnce
  <2>3. nextId \in Ids /\ nextId' = nextId + 1 /\ known[r] \subseteq Ids
    BY <2>1, <1>0, BoundAssumption DEF Store, Typed, Ids
  <2>4. ListingInv(r)
    BY DEF IInv
  <2>5. \A i \in known[r] : i < nextId
    BY <2>1, <2>4 DEF ListingInv
  <2>6. SavedInv(r)'
    BY <2>1, <2>2, <2>3, <2>4, <2>5 DEF SavedInv, ListingInv, Ids
  <2>7. ListingInv(r)'
    BY <2>1 DEF ListingInv
  <2> QED BY <2>2, <2>6, <2>7, <1>1 DEF IInv
<1>7. CASE SaveFails(r)
  <2>1. pc[r] = "checked" /\ pc'[r] = "idle"
    BY <1>7, <1>0 DEF SaveFails, Return, Typed
  <2>2. NameWrittenOnce'
    BY <1>7, <2>1, <1>2, StoreOnce DEF SaveFails, Unstored
  <2> QED BY <2>1, <2>2, <1>1, IdleInv DEF IInv
<1> QED BY <1>3, <1>4, <1>5, <1>6, <1>7 DEF Create

\* Renaming, adding as somebody else and removing leave only foreign rows behind.
LEMMA OthersInv ==
    ASSUME IInv, Typed', Mutex', Foreign, \A r \in Resources : Bystander(r)
    PROVE  IInv'
BY BystanderKept, NamesKept DEF IInv

LEMMA InvStep == IInv /\ [Next]_vars => IInv'
<1> SUFFICES ASSUME IInv, [Next]_vars PROVE IInv'
  OBVIOUS
<1>1. Typed /\ Mutex /\ Typed' /\ Mutex'
  BY TypedStep, MutexStep DEF IInv
<1>2. nextId \in Int
  BY <1>1 DEF Typed
<1>3. ASSUME NEW r \in Resources, Create(r) PROVE IInv'
  BY <1>1, <1>3, CreateInv
<1>4. CASE UNCHANGED <<rows, nextId, pc, known, written, disturbed>>
  BY <1>1, <1>2, <1>4, OthersInv DEF Foreign, Bystander, Present
<1>5. ASSUME NEW r \in Resources, Update(r) PROVE IInv'
  <2>1. Foreign
    <3>1. CASE rows[state[r]] = NoRow
      BY <1>5, <3>1 DEF Update, Foreign, Present
    <3>2. CASE rows[state[r]] # NoRow
      <4>1. state[r] \in Ids /\ rows[state[r]] \in Row
        BY <1>5, <3>2, <1>1 DEF Update, Typed
      <4>2. rows' = [rows EXCEPT ![state[r]] = [rows[state[r]] EXCEPT !.name = NameOf[r], !.renamed = TRUE]]
        BY <1>5, <3>2 DEF Update
      <4>3. rows'[state[r]].renamed
        BY <4>1, <4>2, <1>1 DEF Typed, Row
      <4>4. \A i \in Ids \ {state[r]} : rows'[i] = rows[i]
        BY <4>2, <1>1 DEF Typed
      <4> QED BY <4>3, <4>4 DEF Foreign, Present
    <3> QED BY <3>1, <3>2
  <2>2. \A q \in Resources : Bystander(q)
    BY <1>5, <1>2, DisturbNoticed DEF Update
  <2> QED BY <2>1, <2>2, <1>1, OthersInv
<1>6. ASSUME NEW n \in Names, AdminAdds(n) PROVE IInv'
  <2>1. nextId \in Ids /\ nextId' = nextId + 1
    BY <1>6, <1>1, BoundAssumption DEF AdminAdds, Store, Typed, Ids
  <2>2. rows'[nextId].author = Admin /\ \A i \in Ids \ {nextId} : rows'[i] = rows[i]
    BY <1>6, <1>1, <2>1 DEF AdminAdds, Store, Typed
  <2>3. Foreign
    BY <2>2 DEF Foreign, Present
  <2>4. \A q \in Resources : Bystander(q)
    BY <1>6, <2>1, <1>2, DisturbNoticed DEF AdminAdds
  <2> QED BY <2>3, <2>4, <1>1, OthersInv
<1>7. ASSUME NEW i \in Ids, NEW n \in Names, AdminRenames(i, n) PROVE IInv'
  <2>1. rows[i] \in Row /\ rows' = [rows EXCEPT ![i] = [rows[i] EXCEPT !.name = n, !.renamed = TRUE]]
    BY <1>7, <1>1 DEF AdminRenames, Typed, Present
  <2>2. rows'[i].renamed /\ \A j \in Ids \ {i} : rows'[j] = rows[j]
    BY <2>1, <1>1 DEF Typed, Row
  <2>3. Foreign
    BY <2>2 DEF Foreign, Present
  <2>4. \A q \in Resources : Bystander(q)
    BY <1>7, <1>2, DisturbNoticed DEF AdminRenames
  <2> QED BY <2>3, <2>4, <1>1, OthersInv
<1>8. ASSUME NEW i \in Ids, AdminDeletes(i) PROVE IInv'
  <2>1. rows'[i] = NoRow /\ \A j \in Ids \ {i} : rows'[j] = rows[j]
    BY <1>8, <1>1 DEF AdminDeletes, Typed
  <2>2. Foreign
    BY <2>1 DEF Foreign, Present
  <2>3. \A q \in Resources : Bystander(q)
    BY <1>8, <1>2, DisturbNoticed DEF AdminDeletes
  <2> QED BY <2>2, <2>3, <1>1, OthersInv
<1>9. CASE Killed
  <2>1. NameWrittenOnce'
    BY <1>9 DEF Killed, IInv, NameWrittenOnce, Present
  <2>2. \A q \in Resources : pc'[q] = "idle"
    BY <1>9 DEF Killed
  <2> QED BY <2>1, <2>2, <1>1, IdleInv DEF IInv
<1>10. ASSUME NEW r \in Resources, Read(r) \/ Delete(r) PROVE IInv'
  BY <1>4, <1>10 DEF Read, Delete
<1>11. ASSUME NEW r \in Resources, NEW i \in Ids, Import(r, i) PROVE IInv'
  BY <1>4, <1>11 DEF Import
<1> QED BY <1>3, <1>4, <1>5, <1>6, <1>7, <1>8, <1>9, <1>10, <1>11 DEF Next, Administrators, vars

LEMMA Invariance == Spec => []IInv
BY InitInv, InvStep, PTL DEF Spec

---------------------------------------------------------------------------
(* The properties of the run *)

\* Every reachable table, listing and state is of its type, and the mutex has one holder
\* (resource_department.go over client/masterdata.go).
THEOREM TableTyping == Spec => []TypeOK
<1>1. IInv => TypeOK
  BY InvTypes DEF IInv
<1> QED BY <1>1, Invariance, PTL

\* However many Creates run, the row one of them posted is the only one it finds new, as
\* long as nobody outside changes the table (LockMasterDataCreate).
THEOREM PostedRowIsFound == Spec => []PostedRowIsTheNewOne
<1>1. IInv => PostedRowIsTheNewOne
  BY DEF IInv, SavedInv, PostedRowIsTheNewOne, Candidates, Fresh
<1> QED BY <1>1, Invariance, PTL

\* Whatever administrators do to the table between the two listings, a Create claims its
\* own row or, when that is gone, at worst somebody else's.
THEOREM OwnRowIsClaimed == Spec => ClaimsItsOwnRow
<1> DEFINE Step == \A r \in Resources :
                       state'[r] # state[r] /\ pc[r] = "saved" =>
                           state'[r] = written[r] \/ rows[written[r]] = NoRow
<1>1. IInv /\ [Next]_vars => Step
  <2> SUFFICES ASSUME IInv, [Next]_vars, NEW r \in Resources,
                      state'[r] # state[r], pc[r] = "saved", rows[written[r]] # NoRow
               PROVE  state'[r] = written[r]
    OBVIOUS
  <2>1. Typed /\ SavedInv(r)
    BY DEF IInv
  <2>2. Claim(r)
    BY <2>1 DEF Typed, Next, vars, Create, Lock, ListBefore, CreateRefused, Save, SaveFails, Claim,
                Orphan, Update, Read, Delete, Import, Killed, Idle, Administrators, AdminAdds,
                AdminRenames, AdminDeletes
  <2>3. PICK i \in Ids : Candidates(r) = {i} /\ state'[r] = i
    BY <2>1, <2>2 DEF Typed, Claim
  <2>4. written[r] \in Candidates(r)
    BY <2>1 DEF SavedInv, Candidates, Fresh, Present
  <2> QED BY <2>3, <2>4
<1> QED BY <1>1, Invariance, PTL DEF Spec, ClaimsItsOwnRow

\* No name is written twice by the provider, through timeouts, crashes and resources that
\* declare the same name (the same-name check under the mutex).
THEOREM NamesAreWrittenOnce == Spec => []NameWrittenOnce
<1>1. IInv => NameWrittenOnce
  BY DEF IInv
<1> QED BY <1>1, Invariance, PTL

=============================================================================
