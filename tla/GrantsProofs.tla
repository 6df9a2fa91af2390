---------------------------- MODULE GrantsProofs ----------------------------
(***************************************************************************)
(* What the runs of Grants check on five rows, for any rows, rights and     *)
(* configurations: the types, and, as long as nobody edits the domain while *)
(* an apply runs, that the requests of an apply implement GrantsContract.   *)
(* Everything rests on JobInv, which says of a running apply how the writes *)
(* it still has to send relate to the live rows, the state and the plan.    *)
(***************************************************************************)
EXTENDS Grants, TLAPS

\* What holds of a delete still to send, or that the host has ignored: the row is one the
\* state has and the configuration does not, and a live grant, unless a wide DELETE has
\* taken along what the host had ignored.
RevokeInv ==
    /\ \A r \in job.revoke \cup job.ignored :
          /\ state # NoState
          /\ r \in state.rows \ config.rows
          /\ DimOf[r.right] \notin config.preserve \ state.preserve
    /\ \A r \in job.revoke : live[r] = "grant"
    /\ \A r \in job.ignored : live[r] \in {"none", "grant"}

\* A removed row that is not to be deleted any more is no grant, unless its DELETE was ignored.
RemovedInv ==
    \A r \in RemovedRows(job.prior, job.desired) \ (job.revoke \cup job.ignored) : live[r] # "grant"

\* A null row still to delete takes along nothing but rows that are, or were, to be deleted.
NullRowInv ==
    \A p \in job.revoke, o \in Rows \ job.revoke :
        ~HasData(p) /\ HasData(o) /\ KeyOf(o) = KeyOf(p) => live[o] = "none" \/ o \in job.ignored

\* What holds of a put still to send: the row is declared and not there.
GrantInv == \A r \in job.grant : live[r] = "none" /\ r \in config.rows

\* The plan of the apply still is what the configuration and the state make of it.
PlanInv ==
    /\ state # config
    /\ config.rows \subseteq declared
    /\ job.desired \subseteq config.rows
    /\ \A r \in config.rows \ job.desired : r.right \notin Offered
    /\ state # NoState =>
          \A r \in state.rows \ config.rows :
              \/ r \in RemovedRows(job.prior, job.desired)
              \/ DimOf[r.right] \in config.preserve \ state.preserve

JobInv == job # NoJob => RevokeInv /\ RemovedInv /\ NullRowInv /\ GrantInv /\ PlanInv

\* Of a dimension it preserves the state holds only rows some configuration declared.
StateInv ==
    state # NoState =>
        \A r \in state.rows : DimOf[r.right] \in state.preserve => r \in declared

IInv == TypeOK /\ JobInv /\ StateInv

USE DEF Standing, Resource

---------------------------------------------------------------------------
(* Rows and requests *)

\* A row is known by its key and its data (identity, writeKey).
LEMMA RowIsKeyAndData ==
    ASSUME NEW r \in Rows, NEW q \in Rows, KeyOf(r) = KeyOf(q), r.data = q.data
    PROVE  r = q
<1>1. r.right = q.right /\ r.sub = q.sub
  BY DEF KeyOf
<1>2. r = [right |-> r.right, data |-> r.data, sub |-> r.sub]
  BY RowsAssumption
<1>3. q = [right |-> q.right, data |-> q.data, sub |-> q.sub]
  BY RowsAssumption
<1> QED BY <1>1, <1>2, <1>3

\* A configuration is a resource of the model's rows.
LEMMA ConfigIsResource ==
    ASSUME NEW c \in Configs
    PROVE  c \in Resource
BY ConfigsAssumption

\* What a DELETE does to the rows and to the apply: it takes away nothing (the host ignores
\* it), or its batch and with it, at most, rows whose own DELETE was ignored.
DeleteEffect(stored) ==
    \E batch \in SUBSET job.revoke, gone \in SUBSET (job.revoke \cup job.ignored) :
        /\ live' = [r \in Rows |-> IF r \in gone THEN "none" ELSE live[r]]
        /\ \A r \in gone : live[r] = "grant"
        /\ gone \cap job.revoke \subseteq batch
        /\ stored => batch \subseteq gone
        /\ ~stored => gone = {}
        /\ job' = [job EXCEPT !.revoke = job.revoke \ batch,
                              !.ignored = IF stored THEN job.ignored ELSE job.ignored \cup batch]

LEMMA IgnoredEffect ==
    ASSUME IInv, NEW batch \in SUBSET job.revoke, live' = live,
           job' = [job EXCEPT !.revoke = job.revoke \ batch, !.ignored = job.ignored \cup batch]
    PROVE  DeleteEffect(FALSE)
<1> DEFINE gone == {}
<1>1. gone \in SUBSET (job.revoke \cup job.ignored) /\ \A r \in gone : FALSE
  OBVIOUS
<1>2. live' = [r \in Rows |-> IF r \in gone THEN "none" ELSE live[r]]
  BY DEF IInv, TypeOK
<1>3. gone = {}
  OBVIOUS
<1> HIDE DEF gone
<1> QED BY <1>1, <1>2, <1>3 DEF DeleteEffect

LEMMA DeleteIgnored ==
    ASSUME IInv, NEW k, DeleteSelections(k, FALSE) \/ DeleteNullRow(k, FALSE)
    PROVE  DeleteEffect(FALSE)
<1>1. live' = live
  BY DEF DeleteSelections, DeleteNullRow
<1>2. CASE DeleteSelections(k, FALSE)
  <2> DEFINE batch == Selections(job.revoke, k)
  <2>1. batch \in SUBSET job.revoke
    BY DEF Selections
  <2>2. job' = [job EXCEPT !.revoke = job.revoke \ batch, !.ignored = job.ignored \cup batch]
    BY <1>2 DEF DeleteSelections
  <2> HIDE DEF batch
  <2> QED BY <1>1, <2>1, <2>2, IgnoredEffect
<1>3. CASE DeleteNullRow(k, FALSE)
  <2> DEFINE batch == NullRows(job.revoke, k)
  <2>1. batch \in SUBSET job.revoke
    BY DEF NullRows
  <2>2. job' = [job EXCEPT !.revoke = job.revoke \ batch, !.ignored = job.ignored \cup batch]
    BY <1>3 DEF DeleteNullRow
  <2> HIDE DEF batch
  <2> QED BY <1>1, <2>1, <2>2, IgnoredEffect
<1> QED BY <1>2, <1>3

\* A DELETE of selections takes away exactly the rows of the batch.
LEMMA SelectionsDeleted ==
    ASSUME IInv, NEW k, DeleteSelections(k, TRUE)
    PROVE  DeleteEffect(TRUE)
<1> DEFINE batch == Selections(job.revoke, k)
<1>1. job # NoJob /\ batch \subseteq job.revoke /\ batch \subseteq Rows /\ batch # {}
  BY DEF DeleteSelections, Selections, IInv, TypeOK, Job
<1>2. DataOf(batch) # {}
  BY <1>1 DEF DataOf
<1>3. ASSUME NEW r \in Rows
      PROVE  (KeyOf(r) = k /\ r.data \in DataOf(batch)) <=> r \in batch
  <2>1. CASE r \in batch
    BY <2>1 DEF Selections, DataOf
  <2>2. ASSUME KeyOf(r) = k, r.data \in DataOf(batch)
        PROVE  r \in batch
    <3>1. PICK q \in batch : q.data = r.data
      BY <2>2 DEF DataOf
    <3>2. KeyOf(q) = k
      BY <3>1 DEF Selections
    <3>3. q = r
      BY <1>1, <2>2, <3>1, <3>2, RowIsKeyAndData
    <3> QED BY <3>1, <3>3
  <2> QED BY <2>1, <2>2
<1>4. live' = [r \in Rows |-> IF r \in batch THEN "none" ELSE live[r]]
  BY <1>2, <1>3 DEF DeleteSelections, AfterDelete
<1>5. job' = [job EXCEPT !.revoke = job.revoke \ batch, !.ignored = job.ignored]
  BY DEF DeleteSelections
<1>6. \A r \in batch : live[r] = "grant"
  BY <1>1 DEF IInv, JobInv, RevokeInv
<1> HIDE DEF batch
<1> QED BY <1>1, <1>4, <1>5, <1>6 DEF DeleteEffect

\* The wide DELETE of a null row takes away just that row, and what the host left of the
\* selections' own deletes: PlanWrites has refused whatever else it could reach.
LEMMA NullRowDeleted ==
    ASSUME IInv, NEW k, DeleteNullRow(k, TRUE)
    PROVE  DeleteEffect(TRUE)
<1> DEFINE batch == NullRows(job.revoke, k)
           left == {r \in job.ignored : KeyOf(r) = k /\ live[r] = "grant"}
           gone == batch \cup left
<1>1. /\ job # NoJob /\ batch \subseteq job.revoke /\ batch # {}
      /\ job.revoke \subseteq Rows /\ job.ignored \subseteq Rows
  BY DEF DeleteNullRow, NullRows, IInv, TypeOK, Job
<1>2. PICK p \in batch : KeyOf(p) = k /\ ~HasData(p)
  BY <1>1 DEF NullRows
<1>3. ASSUME NEW r \in Rows, KeyOf(r) = k, r \notin gone
      PROVE  live[r] = "none"
  <2>1. HasData(r)
    <3>1. CASE r.data = NoData
      <4>1. r = p
        BY <1>1, <1>2, <1>3, <3>1, RowIsKeyAndData DEF HasData
      <4> QED BY <4>1, <1>2, <1>3
    <3> QED BY <3>1 DEF HasData
  <2>2. r \notin job.revoke
    BY <2>1 DEF DeleteNullRow
  <2>3. live[r] = "none" \/ r \in job.ignored
    BY <1>1, <1>2, <1>3, <2>1, <2>2 DEF IInv, JobInv, NullRowInv
  <2> QED BY <1>1, <1>3, <2>3 DEF IInv, JobInv, RevokeInv
<1>4. \A r \in gone : KeyOf(r) = k
  BY DEF NullRows
<1>5. live' = AfterDelete(k, {}) /\ live = [r \in Rows |-> live[r]]
  BY DEF DeleteNullRow, IInv, TypeOK
<1>6. live' = [r \in Rows |-> IF r \in gone THEN "none" ELSE live[r]]
  BY <1>3, <1>4, <1>5 DEF AfterDelete
<1>7. \A r \in gone : live[r] = "grant"
  BY <1>1 DEF IInv, JobInv, RevokeInv
<1>8. gone \cap job.revoke \subseteq batch
  BY <1>4 DEF DeleteNullRow, NullRows
<1>9. job' = [job EXCEPT !.revoke = job.revoke \ batch, !.ignored = job.ignored]
  BY DEF DeleteNullRow
<1>10. batch \in SUBSET job.revoke /\ gone \in SUBSET (job.revoke \cup job.ignored) /\ batch \subseteq gone
  BY <1>1
<1> HIDE DEF batch, gone
<1> QED BY <1>6, <1>7, <1>8, <1>9, <1>10 DEF DeleteEffect

LEMMA Delete ==
    ASSUME IInv, NEW k, NEW stored \in BOOLEAN,
           DeleteSelections(k, stored) \/ DeleteNullRow(k, stored)
    PROVE  DeleteEffect(stored)
<1>1. CASE stored = TRUE
  BY <1>1, SelectionsDeleted, NullRowDeleted
<1>2. CASE stored = FALSE
  BY <1>2, DeleteIgnored
<1> QED BY <1>1, <1>2

\* A PUT grants rows of its batch, or nothing.
LEMMA Put ==
    ASSUME IInv, NEW k, NEW stored \in BOOLEAN,
           PutSelections(k, stored) \/ PutNullRow(k, stored)
    PROVE  \E rows \in SUBSET (job.grant \ job'.grant) :
              live' = [r \in Rows |-> IF r \in rows THEN "grant" ELSE live[r]]
<1>1. job # NoJob /\ job \in Job /\ job.grant \subseteq Rows
  BY DEF PutSelections, PutNullRow, IInv, TypeOK, Job
<1>2. live = [r \in Rows |-> live[r]]
  BY DEF IInv, TypeOK
<1>3. CASE live' = live
  <2> WITNESS {} \in SUBSET (job.grant \ job'.grant)
  <2> QED BY <1>2, <1>3
<1>4. CASE PutSelections(k, stored) /\ live' # live
  <2> DEFINE batch == Selections(job.grant, k)
  <2>1. batch \subseteq job.grant /\ batch # {} /\ DataOf(batch) # {}
    BY <1>4 DEF PutSelections, Selections, DataOf
  <2>2. live' = [r \in Rows |-> IF KeyOf(r) = k /\ r.data \in DataOf(batch) /\ live[r] # "system"
                                THEN "grant" ELSE live[r]]
    BY <1>4, <2>1 DEF PutSelections, AfterPut
  <2>3. ASSUME NEW r \in Rows, KeyOf(r) = k, r.data \in DataOf(batch)
        PROVE  r \in batch
    <3>1. PICK q \in batch : q.data = r.data
      BY <2>3 DEF DataOf
    <3>2. KeyOf(q) = k
      BY <3>1 DEF Selections
    <3>3. q = r
      BY <1>1, <2>1, <2>3, <3>1, <3>2, RowIsKeyAndData
    <3> QED BY <3>1, <3>3
  <2>4. \A r \in batch : KeyOf(r) = k /\ r.data \in DataOf(batch) /\ live[r] # "system"
    BY <1>1, <1>4, <2>1 DEF IInv, JobInv, GrantInv, Selections, DataOf
  <2>5. live' = [r \in Rows |-> IF r \in batch THEN "grant" ELSE live[r]]
    BY <2>2, <2>3, <2>4
  <2>6. job'.grant = job.grant \ batch
    BY <1>1, <1>4 DEF PutSelections, Job
  <2> QED BY <2>1, <2>5, <2>6
<1>5. CASE PutNullRow(k, stored) /\ live' # live
  <2> DEFINE batch == NullRows(job.grant, k)
  <2>1. batch \subseteq job.grant /\ batch # {}
    BY <1>5 DEF PutNullRow, NullRows
  <2>2. live' = [r \in Rows |-> IF KeyOf(r) = k /\ r.data \in {NoData} /\ live[r] # "system"
                                THEN "grant" ELSE live[r]]
    BY <1>5 DEF PutNullRow, AfterPut
  <2>3. PICK p \in batch : KeyOf(p) = k /\ p.data = NoData
    BY <2>1 DEF NullRows, HasData
  <2>4. ASSUME NEW r \in Rows, KeyOf(r) = k, r.data = NoData
        PROVE  r \in batch
    BY <1>1, <2>1, <2>3, <2>4, RowIsKeyAndData
  <2>5. \A r \in batch : KeyOf(r) = k /\ r.data = NoData /\ live[r] # "system"
    BY <1>1, <1>5, <2>1 DEF IInv, JobInv, GrantInv, NullRows, HasData
  <2>6. live' = [r \in Rows |-> IF r \in batch THEN "grant" ELSE live[r]]
    BY <2>2, <2>4, <2>5
  <2>7. job'.grant = job.grant \ batch
    BY <1>1, <1>5 DEF PutNullRow, Job
  <2> QED BY <2>1, <2>6, <2>7
<1> QED BY <1>3, <1>4, <1>5

---------------------------------------------------------------------------
(* Types *)

\* Every reachable state has the types the modules declare.
LEMMA TypeInit == Init => TypeOK
BY DEF Init, TypeOK

LEMMA ReadRowsType ==
    ASSUME NEW rows \in SUBSET Rows, NEW preserve, NEW readable
    PROVE  ReadRows(rows, preserve, readable) \in SUBSET Rows
BY DEF ReadRows, Managed, Unoffered, AbsentRows

LEMMA StartApplyType ==
    ASSUME TypeOK, NEW op \in {"create", "update"}, NEW prior \in SUBSET Rows,
           NEW readable, StartApply(op, prior, readable)
    PROVE  TypeOK' /\ job' \in Job
<1> DEFINE desired == config.rows \ Unoffered(AbsentRows(config.rows, live), readable)
<1>1. config \in Resource
  BY ConfigIsResource DEF TypeOK
<1>2. desired \in SUBSET Rows
  BY <1>1
<1>3. ToRevoke(prior, desired, live) \in SUBSET Rows
  BY DEF ToRevoke, RemovedRows
<1>4. ToGrant(desired, live) \in SUBSET Rows /\ ToGrant(desired, live) \subseteq desired
  BY <1>2 DEF ToGrant, AbsentRows
<1> HIDE DEF desired
<1>5. job' = [op |-> op, prior |-> prior, desired |-> desired,
              revoke |-> ToRevoke(prior, desired, live), ignored |-> {},
              grant |-> ToGrant(desired, live)]
  BY DEF StartApply, desired
<1>6. job' \in Job
  BY <1>2, <1>3, <1>4, <1>5 DEF Job
<1>7. /\ job'.revoke \subseteq RemovedRows(job'.prior, job'.desired)
      /\ job'.ignored = {}
      /\ job'.grant \subseteq job'.desired
  BY <1>4, <1>5 DEF ToRevoke
<1>8. UNCHANGED <<live, config, state, fresh>> /\ declared' \subseteq Rows
  BY <1>1 DEF StartApply, TypeOK
<1> QED BY <1>6, <1>7, <1>8 DEF TypeOK

LEMMA WriteType ==
    ASSUME TypeOK, NEW k, NEW stored \in BOOLEAN,
           \/ DeleteSelections(k, stored) \/ DeleteNullRow(k, stored)
           \/ PutSelections(k, stored) \/ PutNullRow(k, stored)
    PROVE  TypeOK' /\ job' \in Job
<1>1. live' \in [Rows -> Standing]
  BY DEF TypeOK, DeleteSelections, DeleteNullRow, PutSelections, PutNullRow, AfterDelete, AfterPut
<1>2. /\ job # NoJob /\ job \in Job
      /\ job.revoke \in SUBSET Rows /\ job.ignored \in SUBSET Rows /\ job.grant \in SUBSET Rows
  BY DEF TypeOK, DeleteSelections, DeleteNullRow, PutSelections, PutNullRow, Job
<1>3. ASSUME NEW batch \in SUBSET job.revoke, NEW left \in SUBSET (job.ignored \cup batch),
             job' = [job EXCEPT !.revoke = job.revoke \ batch, !.ignored = left]
      PROVE  /\ job' \in Job
             /\ job'.prior = job.prior /\ job'.desired = job.desired /\ job'.grant = job.grant
             /\ job'.revoke \subseteq job.revoke /\ job'.ignored \subseteq job.ignored \cup job.revoke
  BY <1>2, <1>3 DEF Job
<1>4. /\ job' \in Job
      /\ job'.prior = job.prior /\ job'.desired = job.desired
      /\ job'.revoke \subseteq job.revoke /\ job'.grant \subseteq job.grant
      /\ job'.ignored \subseteq job.ignored \cup job.revoke
  <2>1. CASE DeleteSelections(k, stored)
    <3> DEFINE batch == Selections(job.revoke, k)
               left == IF stored THEN job.ignored ELSE job.ignored \cup batch
    <3>1. batch \in SUBSET job.revoke /\ left \in SUBSET (job.ignored \cup batch)
      BY DEF Selections
    <3>2. job' = [job EXCEPT !.revoke = job.revoke \ batch, !.ignored = left]
      BY <2>1 DEF DeleteSelections
    <3> HIDE DEF batch, left
    <3> QED BY <1>3, <3>1, <3>2
  <2>2. CASE DeleteNullRow(k, stored)
    <3> DEFINE batch == NullRows(job.revoke, k)
               left == IF stored THEN job.ignored ELSE job.ignored \cup batch
    <3>1. batch \in SUBSET job.revoke /\ left \in SUBSET (job.ignored \cup batch)
      BY DEF NullRows
    <3>2. job' = [job EXCEPT !.revoke = job.revoke \ batch, !.ignored = left]
      BY <2>2 DEF DeleteNullRow
    <3> HIDE DEF batch, left
    <3> QED BY <1>3, <3>1, <3>2
  <2>3. CASE PutSelections(k, stored) \/ PutNullRow(k, stored)
    <3>1. PICK left \in SUBSET job.grant : job' = [job EXCEPT !.grant = left]
      BY <2>3 DEF PutSelections, PutNullRow
    <3> QED BY <1>2, <3>1 DEF Job
  <2> QED BY <2>1, <2>2, <2>3
<1>5. UNCHANGED <<config, state, declared, fresh>>
  BY DEF DeleteSelections, DeleteNullRow, PutSelections, PutNullRow
<1>6. /\ job'.revoke \subseteq RemovedRows(job'.prior, job'.desired)
      /\ job'.ignored \subseteq RemovedRows(job'.prior, job'.desired)
      /\ job'.grant \subseteq job'.desired
  BY <1>2, <1>4 DEF TypeOK, RemovedRows
<1> QED BY <1>1, <1>4, <1>5, <1>6 DEF TypeOK

LEMMA TypeStep == TypeOK /\ [Next]_vars => TypeOK'
<1> SUFFICES ASSUME TypeOK, [Next]_vars PROVE TypeOK'
  OBVIOUS
<1>1. CASE \E c \in Configs : Configure(c)
  BY <1>1 DEF TypeOK, Configure
<1>2. CASE \E r \in Rows, to \in Standing : ForeignEdit(r, to)
  BY <1>2 DEF TypeOK, ForeignEdit
<1>3. ASSUME NEW readable \in BOOLEAN, Refresh(readable)
      PROVE  TypeOK'
  <2>1. state \in Resource
    BY <1>3 DEF Refresh, TypeOK
  <2>2. ReadRows(state.rows, state.preserve, readable) \in SUBSET Rows
    BY <2>1, ReadRowsType
  <2>3. state' \in Resource
    BY <1>3, <2>1, <2>2 DEF Refresh
  <2> QED BY <1>3, <2>3 DEF Refresh, TypeOK
<1>4. ASSUME NEW preserve \in SUBSET Dims, Import(preserve)
      PROVE  TypeOK'
  <2>1. ReadRows({}, preserve, FALSE) \in SUBSET Rows
    BY ReadRowsType
  <2>2. state' \in Resource
    BY <1>4, <2>1 DEF Import
  <2> QED BY <1>4, <2>2 DEF Import, TypeOK
<1>5. CASE \E readable \in BOOLEAN : Create(readable)
  BY <1>5, StartApplyType DEF Create
<1>6. ASSUME NEW readable \in BOOLEAN, Update(readable)
      PROVE  TypeOK'
  <2>1. state \in Resource
    BY <1>6 DEF Update, TypeOK
  <2>2. Revocable(state.rows, config.rows, state.preserve, config.preserve) \in SUBSET Rows
    BY <2>1 DEF Revocable
  <2> QED BY <1>6, <2>2, StartApplyType DEF Update
<1>7. CASE Destroy \/ RefreshGone
  BY <1>7 DEF Destroy, RefreshGone, TypeOK
<1>8. CASE Write
  BY <1>8, WriteType DEF Write
<1>9. CASE Verify
  BY <1>9, ConfigIsResource DEF Verify, TypeOK
<1>10. CASE ApplyFails
  BY <1>10 DEF ApplyFails, TypeOK
<1>11. CASE UNCHANGED vars
  BY <1>11 DEF vars, TypeOK
<1> QED BY <1>1, <1>2, <1>3, <1>4, <1>5, <1>6, <1>7, <1>8, <1>9, <1>10, <1>11
        DEF Next, Terraform

\* Grants keeps its types: an apply plans and revokes only rows there are, and only rows
\* its plan removes.
THEOREM GrantsTyping == Spec => []TypeOK
<1>1. Init => TypeOK
  BY TypeInit
<1>2. TypeOK /\ [Next]_vars => TypeOK'
  BY TypeStep
<1> QED BY <1>1, <1>2, PTL DEF Spec

---------------------------------------------------------------------------
(* The invariant of an apply *)

LEMMA StartApplyInv ==
    ASSUME TypeOK, NEW op \in {"create", "update"}, NEW prior \in SUBSET Rows,
           NEW readable \in BOOLEAN, StartApply(op, prior, readable),
           state # config,
           prior # {} => state # NoState /\ prior \subseteq state.rows,
           \A r \in prior \ config.rows : DimOf[r.right] \notin config.preserve \ state.preserve,
           state # NoState =>
              \A r \in state.rows \ config.rows :
                  r \in prior \/ DimOf[r.right] \in config.preserve \ state.preserve
    PROVE  JobInv'
<1> DEFINE desired == config.rows \ Unoffered(AbsentRows(config.rows, live), readable)
           revoke == ToRevoke(prior, desired, live)
           grant == ToGrant(desired, live)
<1>1. /\ job' = [op |-> op, prior |-> prior, desired |-> desired,
                 revoke |-> revoke, ignored |-> {}, grant |-> grant]
      /\ ~PlanRefused(prior, desired, live)
      /\ UNCHANGED <<live, config, state>>
  BY DEF StartApply
<1>2. desired \subseteq config.rows /\ config.rows \subseteq Rows
  BY ConfigIsResource DEF TypeOK
<1>3. \A r \in config.rows \ desired : r.right \notin Offered /\ ~IsGrant(live, r)
  BY DEF Unoffered, AbsentRows
<1>4. revoke \subseteq prior \ desired /\ \A r \in revoke : live[r] = "grant"
  BY DEF ToRevoke, RemovedRows
<1> HIDE DEF desired, revoke
<1>5. RevokeInv'
  <2>1. \A r \in revoke : r \notin config.rows
    BY <1>3, <1>4 DEF IsGrant
  <2> QED BY <1>1, <1>4, <2>1 DEF RevokeInv
<1>6. NullRowInv'
  <2>1. ~NullRowBlocked(revoke, live)
    BY <1>1 DEF PlanRefused, revoke
  <2> QED BY <1>1, <2>1 DEF NullRowInv, NullRowBlocked, TakenAlong
<1>7. GrantInv'
  <2>1. \A r \in grant : r \in desired /\ ~IsGrant(live, r)
    BY DEF ToGrant, AbsentRows
  <2>2. \A r \in grant : live[r] # "deny"
    BY <1>1 DEF PlanRefused, DenyBlocked
  <2>3. \A r \in Rows : live[r] \in Standing
    BY DEF TypeOK
  <2>4. \A r \in grant : live[r] = "none"
    BY <1>2, <2>1, <2>2, <2>3 DEF IsGrant
  <2> HIDE DEF grant
  <2> QED BY <1>1, <1>2, <2>1, <2>4 DEF GrantInv
<1>8. PlanInv'
  <2>1. config.rows \subseteq declared'
    BY DEF StartApply
  <2> QED BY <1>1, <1>2, <1>3, <2>1 DEF PlanInv, RemovedRows
<1>9. RemovedInv'
  <2>1. \A r \in (prior \ desired) \ revoke : live[r] # "grant"
    BY DEF revoke, ToRevoke, RemovedRows
  <2> QED BY <1>1, <2>1 DEF RemovedInv, RemovedRows
<1> QED BY <1>5, <1>6, <1>7, <1>8, <1>9 DEF JobInv

LEMMA DeleteInv ==
    ASSUME IInv, NEW k, NEW stored \in BOOLEAN,
           DeleteSelections(k, stored) \/ DeleteNullRow(k, stored)
    PROVE  JobInv'
<1>1. PICK batch \in SUBSET job.revoke, gone \in SUBSET (job.revoke \cup job.ignored) :
        /\ live' = [r \in Rows |-> IF r \in gone THEN "none" ELSE live[r]]
        /\ gone \cap job.revoke \subseteq batch
        /\ stored => batch \subseteq gone
        /\ ~stored => gone = {}
        /\ job' = [job EXCEPT !.revoke = job.revoke \ batch,
                              !.ignored = IF stored THEN job.ignored ELSE job.ignored \cup batch]
  BY Delete DEF DeleteEffect
<1>2. job # NoJob /\ UNCHANGED <<config, state, declared>>
  BY DEF DeleteSelections, DeleteNullRow
<1>3. job \in Job /\ RevokeInv /\ RemovedInv /\ NullRowInv /\ GrantInv /\ PlanInv
  BY <1>2 DEF IInv, JobInv, TypeOK
<1>4. /\ job'.prior = job.prior /\ job'.desired = job.desired /\ job'.grant = job.grant
      /\ job'.revoke = job.revoke \ batch
      /\ job'.ignored = IF stored THEN job.ignored ELSE job.ignored \cup batch
      /\ job.revoke \subseteq Rows /\ job.ignored \subseteq Rows /\ job.grant \subseteq Rows
  BY <1>1, <1>3 DEF Job
<1>5. \A r \in Rows : live'[r] = IF r \in gone THEN "none" ELSE live[r]
  BY <1>1
<1>6. RevokeInv'
  <2>1. job'.revoke \cup job'.ignored \subseteq job.revoke \cup job.ignored
    BY <1>4
  <2>2. \A r \in job'.revoke : live'[r] = "grant"
    BY <1>1, <1>3, <1>4, <1>5 DEF RevokeInv
  <2>3. \A r \in job'.ignored : live'[r] \in {"none", "grant"}
    BY <1>3, <1>4, <1>5 DEF RevokeInv
  <2> QED BY <1>2, <1>3, <2>1, <2>2, <2>3 DEF RevokeInv
<1>7. NullRowInv'
  <2> SUFFICES ASSUME NEW p \in job'.revoke, NEW o \in Rows \ job'.revoke,
                      ~HasData(p), HasData(o), KeyOf(o) = KeyOf(p), o \notin job'.ignored
               PROVE  live'[o] = "none"
    BY DEF NullRowInv
  <2>1. CASE o \in batch
    BY <1>1, <1>4, <1>5, <2>1
  <2>2. CASE o \notin batch
    BY <1>3, <1>4, <1>5, <2>2 DEF NullRowInv
  <2> QED BY <2>1, <2>2
<1>8. GrantInv'
  BY <1>2, <1>3, <1>4, <1>5 DEF GrantInv
<1>9. PlanInv'
  BY <1>2, <1>3, <1>4 DEF PlanInv
<1>10. RemovedInv'
  <2> SUFFICES ASSUME NEW r \in RemovedRows(job.prior, job.desired),
                      r \notin job'.revoke, r \notin job'.ignored
               PROVE  live'[r] # "grant"
    BY <1>4 DEF RemovedInv
  <2>1. r \in Rows
    BY <1>3 DEF RemovedRows, Job
  <2>2. CASE r \in batch
    BY <1>1, <1>4, <1>5, <2>1, <2>2
  <2>3. CASE r \notin batch
    BY <1>3, <1>4, <1>5, <2>1, <2>3 DEF RemovedInv
  <2> QED BY <2>2, <2>3
<1> QED BY <1>6, <1>7, <1>8, <1>9, <1>10 DEF JobInv

LEMMA PutInv ==
    ASSUME IInv, NEW k, NEW stored \in BOOLEAN,
           PutSelections(k, stored) \/ PutNullRow(k, stored)
    PROVE  JobInv'
<1>1. PICK rows \in SUBSET (job.grant \ job'.grant) :
        live' = [r \in Rows |-> IF r \in rows THEN "grant" ELSE live[r]]
  BY Put
<1>2. job # NoJob /\ job.revoke = {} /\ UNCHANGED <<config, state, declared>>
  BY DEF PutSelections, PutNullRow, Deleted
<1>3. job \in Job /\ RevokeInv /\ GrantInv /\ RemovedInv /\ PlanInv
  BY <1>2 DEF IInv, JobInv, TypeOK
<1>4. /\ job'.prior = job.prior /\ job'.desired = job.desired /\ job'.revoke = {}
      /\ job'.ignored = job.ignored /\ job.ignored \subseteq RemovedRows(job.prior, job.desired)
      /\ job'.grant \subseteq job.grant
      /\ job.grant \subseteq Rows
  BY <1>2, <1>3 DEF Job, PutSelections, PutNullRow, IInv, TypeOK
<1>5. \A r \in job'.grant : live'[r] = live[r]
  BY <1>1, <1>4
<1>6. GrantInv'
  BY <1>2, <1>3, <1>4, <1>5 DEF GrantInv
<1>7. PlanInv'
  BY <1>2, <1>3, <1>4 DEF PlanInv
<1>8. RemovedRows(job.prior, job.desired) \subseteq Rows \ rows
  <2>1. rows \subseteq job.desired
    BY <1>1, <1>2 DEF IInv, TypeOK
  <2> QED BY <1>3, <2>1 DEF RemovedRows, Job
<1>9. RevokeInv' /\ NullRowInv'
  BY <1>1, <1>2, <1>3, <1>4, <1>8 DEF RevokeInv, NullRowInv
<1>10. RemovedInv'
  BY <1>1, <1>2, <1>3, <1>4, <1>8 DEF RemovedInv
<1> QED BY <1>6, <1>7, <1>9, <1>10 DEF JobInv

\* An apply that has just read the live rows and planned its writes.
LEMMA ApplyStarted ==
    ASSUME TypeOK, \E readable \in BOOLEAN : Create(readable) \/ Update(readable)
    PROVE  JobInv'
<1>1. ASSUME NEW readable \in BOOLEAN, Create(readable)
      PROVE  JobInv'
  <2>1. state # config
    BY <1>1, ConfigIsResource, NoneAssumption DEF Create, TypeOK
  <2> QED BY <1>1, <2>1, StartApplyInv DEF Create
<1>2. ASSUME NEW readable \in BOOLEAN, Update(readable)
      PROVE  JobInv'
  <2> DEFINE prior == Revocable(state.rows, config.rows, state.preserve, config.preserve)
  <2>1. state # NoState /\ state \in Resource
    BY <1>2 DEF Update, TypeOK
  <2>2. prior \in SUBSET Rows /\ prior \subseteq state.rows
    BY <2>1 DEF Revocable
  <2>3. \A r \in state.rows \ config.rows :
            r \in prior \/ DimOf[r.right] \in config.preserve \ state.preserve
    BY DEF Revocable
  <2>4. StartApply("update", prior, readable) /\ state # config
    BY <1>2 DEF Update
  <2>5. \A r \in prior \ config.rows : DimOf[r.right] \notin config.preserve \ state.preserve
    BY DEF Revocable
  <2> HIDE DEF prior
  <2> QED BY <2>1, <2>2, <2>3, <2>4, <2>5, StartApplyInv
<1> QED BY <1>1, <1>2

\* The plan of a running apply stays what the state and the configuration make of it,
\* whatever administrators do: neither changes before the apply ends.
LEMMA PlanStep ==
    ASSUME TypeOK, job # NoJob => PlanInv, [Next]_vars, job' # NoJob
    PROVE  PlanInv'
<1>1. CASE Write
  <2>1. PICK k \in Keys, stored \in BOOLEAN :
          \/ DeleteSelections(k, stored) \/ DeleteNullRow(k, stored)
          \/ PutSelections(k, stored) \/ PutNullRow(k, stored)
    BY <1>1 DEF Write
  <2>2. job # NoJob /\ job \in Job /\ UNCHANGED <<config, state, declared>>
    BY <2>1 DEF TypeOK, DeleteSelections, DeleteNullRow, PutSelections, PutNullRow
  <2>3. job'.prior = job.prior /\ job'.desired = job.desired
    BY <2>1, <2>2 DEF Job, DeleteSelections, DeleteNullRow, PutSelections, PutNullRow
  <2> QED BY <2>2, <2>3 DEF PlanInv
<1>2. CASE \E readable \in BOOLEAN : Create(readable) \/ Update(readable)
  BY <1>2, ApplyStarted DEF JobInv
<1>3. CASE UNCHANGED <<config, state, job, declared>>
  BY <1>3 DEF PlanInv
<1> QED BY <1>1, <1>2, <1>3
        DEF Next, Terraform, Configure, ForeignEdit, Refresh, RefreshGone, Import, Destroy, Verify, ApplyFails, vars

\* What the state holds of a preserved dimension stays declared.
LEMMA StateInvStep ==
    ASSUME TypeOK, StateInv, job # NoJob => PlanInv, [Next]_vars
    PROVE  StateInv'
<1>1. CASE state' = state /\ declared \subseteq declared'
  BY <1>1 DEF StateInv
<1>2. ASSUME NEW readable \in BOOLEAN, Refresh(readable)
      PROVE  StateInv'
  <2>1. state \in Resource /\ state # NoState /\ declared' = declared
    BY <1>2 DEF Refresh, TypeOK
  <2>2. /\ state'.rows = ReadRows(state.rows, state.preserve, readable)
        /\ state'.preserve = state.preserve
    BY <1>2, <2>1 DEF Refresh
  <2>3. \A r \in state'.rows : r \in state.rows \/ DimOf[r.right] \notin state.preserve
    BY <2>2 DEF ReadRows, Managed, Unoffered, AbsentRows
  <2> QED BY <2>1, <2>2, <2>3 DEF StateInv
<1>3. ASSUME NEW preserve \in SUBSET Dims, Import(preserve)
      PROVE  StateInv'
  <2>1. state'.rows = ReadRows({}, preserve, FALSE) /\ state'.preserve = preserve
    BY <1>3 DEF Import
  <2> QED BY <2>1 DEF StateInv, ReadRows, Managed, Unoffered, AbsentRows
<1>4. CASE Destroy \/ RefreshGone
  BY <1>4 DEF Destroy, RefreshGone, StateInv
<1>5. CASE Verify
  BY <1>5 DEF Verify, StateInv, PlanInv
<1>6. CASE \E readable \in BOOLEAN : Create(readable) \/ Update(readable)
  BY <1>1, <1>6 DEF Create, Update, StartApply
<1>7. CASE Write
  BY <1>1, <1>7 DEF Write, DeleteSelections, DeleteNullRow, PutSelections, PutNullRow
<1>8. CASE \/ \E c \in Configs : Configure(c)
           \/ \E r \in Rows, to \in Standing : ForeignEdit(r, to)
           \/ ApplyFails
           \/ UNCHANGED vars
  BY <1>1, <1>8 DEF Configure, ForeignEdit, ApplyFails, vars
<1> QED BY <1>2, <1>3, <1>4, <1>5, <1>6, <1>7, <1>8 DEF Next, Terraform

\* The invariant is inductive while administrators leave a running apply alone.
LEMMA InvStep ==
    ASSUME EditsDuringApply = FALSE \/ fresh', IInv, [Next]_vars
    PROVE  IInv'
<1>1. TypeOK'
  BY TypeStep DEF IInv
<1>2. JobInv'
  <2>1. CASE job' = NoJob
    BY <2>1 DEF JobInv
  <2>2. CASE \E readable \in BOOLEAN : Create(readable) \/ Update(readable)
    BY <2>2, ApplyStarted DEF IInv
  <2>4. CASE Write
    BY <2>4, DeleteInv, PutInv DEF Write
  <2>5. CASE UNCHANGED vars
    <3>1. UNCHANGED <<live, config, state, job, declared>>
      BY <2>5 DEF vars
    <3> QED BY <3>1 DEF IInv, JobInv, RevokeInv, RemovedInv, NullRowInv, GrantInv, PlanInv
  <2>6. CASE \E r \in Rows, to \in Standing : ForeignEdit(r, to)
    BY <2>1, <2>6 DEF ForeignEdit
  <2>7. CASE \E c \in Configs : Configure(c)
    BY <2>1, <2>7 DEF Configure
  <2>8. CASE \/ \E readable \in BOOLEAN : Refresh(readable)
             \/ \E preserve \in SUBSET Dims : Import(preserve)
             \/ RefreshGone \/ Destroy \/ Verify \/ ApplyFails
    BY <2>1, <2>8 DEF Refresh, RefreshGone, Import, Destroy, Verify, ApplyFails
  <2> QED BY <2>2, <2>4, <2>5, <2>6, <2>7, <2>8 DEF Next, Terraform
<1>3. StateInv'
  BY StateInvStep DEF IInv, JobInv
<1> QED BY <1>1, <1>2, <1>3 DEF IInv

LEMMA Invariance ==
    ASSUME EditsDuringApply = FALSE
    PROVE  Spec => []IInv
<1>1. Init => IInv
  BY TypeInit DEF IInv, JobInv, StateInv, Init
<1>2. IInv /\ [Next]_vars => IInv'
  BY InvStep
<1> QED BY <1>1, <1>2, PTL DEF Spec

---------------------------------------------------------------------------
(* The contract: each action of Grants is a step of GrantsContract or a stutter *)

\* Read and import implement Show.
LEMMA ShowStep ==
    ASSUME TypeOK, NEW rows \in SUBSET Rows, NEW preserve \in SUBSET Dims,
           NEW readable \in BOOLEAN,
           job = NoJob, UNCHANGED <<live, config, job>>,
           state # NoState => rows = state.rows /\ preserve = state.preserve,
           state = NoState => rows = {},
           state' = [rows |-> ReadRows(rows, preserve, readable), preserve |-> preserve]
    PROVE  Contract!Show
<1> DEFINE shown == ReadRows(rows, preserve, readable)
<1>1. shown \in SUBSET Rows
  BY ReadRowsType
<1>2. \A r \in shown : \/ Contract!Granted(r)
                       \/ state # NoState /\ r \in state.rows /\ r.right \notin Offered
  BY DEF ReadRows, Managed, Unoffered, AbsentRows, IsGrant, Contract!Granted
<1>3. \A r \in Rows :
        live[r] = "grant" /\ r.right \in Catalog /\ DimOf[r.right] \notin preserve => r \in shown
  BY DEF ReadRows, Managed, IsGrant
<1> HIDE DEF shown
<1> QED BY <1>1, <1>2, <1>3 DEF Contract!Show, shown

\* The deletes implement Revoke.
LEMMA RevokeStep ==
    ASSUME IInv, NEW k, NEW stored \in BOOLEAN,
           DeleteSelections(k, stored) \/ DeleteNullRow(k, stored)
    PROVE  Contract!Revoke \/ UNCHANGED Contract!vars
<1>1. PICK gone \in SUBSET (job.revoke \cup job.ignored) :
        /\ live' = [r \in Rows |-> IF r \in gone THEN "none" ELSE live[r]]
        /\ \A r \in gone : live[r] = "grant"
  BY Delete DEF DeleteEffect
<1>2. job # NoJob /\ job' # NoJob /\ UNCHANGED <<config, state>>
  <2>1. job # NoJob /\ UNCHANGED <<config, state>>
    BY DEF DeleteSelections, DeleteNullRow
  <2>2. job' \in Job
    BY WriteType DEF IInv
  <2> QED BY <2>1, <2>2, NoneAssumption
<1>3. RevokeInv
  BY <1>2 DEF IInv, JobInv
<1>4. CASE gone = {}
  <2>1. live = [r \in Rows |-> live[r]]
    BY DEF IInv, TypeOK
  <2>2. live' = live
    BY <1>1, <1>4, <2>1
  <2> QED BY <1>2, <2>2 DEF Contract!vars
<1>5. CASE gone # {}
  <2>1. state # NoState /\ gone \in SUBSET (state.rows \ config.rows)
        /\ \A r \in gone : live[r] = "grant"
    BY <1>1, <1>3, <1>5 DEF RevokeInv
  <2> QED BY <1>1, <1>2, <2>1 DEF Contract!Revoke
<1> QED BY <1>4, <1>5

\* The puts implement Grant.
LEMMA GrantStep ==
    ASSUME IInv, NEW k, NEW stored \in BOOLEAN,
           PutSelections(k, stored) \/ PutNullRow(k, stored)
    PROVE  Contract!Grant
<1>1. PICK rows \in SUBSET (job.grant \ job'.grant) :
        live' = [r \in Rows |-> IF r \in rows THEN "grant" ELSE live[r]]
  BY Put
<1>2. job # NoJob /\ job' # NoJob /\ UNCHANGED <<config, state>>
  <2>1. job # NoJob /\ UNCHANGED <<config, state>>
    BY DEF PutSelections, PutNullRow
  <2>2. job' \in Job
    BY WriteType DEF IInv
  <2> QED BY <2>1, <2>2, NoneAssumption
<1>3. \A r \in rows : live[r] = "none" /\ r \in config.rows
  BY <1>1, <1>2 DEF IInv, JobInv, GrantInv
<1> QED BY <1>1, <1>2, <1>3 DEF Contract!Grant

\* A verified apply implements Adopt: every row the plan skipped is one the host does not
\* offer, and every row the plan removed was revoked or is no grant.
LEMMA AdoptStep ==
    ASSUME PlanInv, Verify
    PROVE  Contract!Adopt
<1>1. job # NoJob /\ job' = NoJob /\ state' = config /\ UNCHANGED <<live, config>>
  BY DEF Verify
<1>2. Verified(job.desired, RemovedRows(job.prior, job.desired), live)
  BY <1>1 DEF Verify
<1>3. \A r \in config.rows : r.right \in Offered => Contract!Granted(r)
  BY <1>2 DEF PlanInv, Verified, AbsentRows, IsGrant, Contract!Granted
<1>4. state # NoState =>
        \A r \in state.rows \ config.rows :
            live[r] = "grant" => DimOf[r.right] \in config.preserve \ state.preserve
  BY <1>2 DEF PlanInv, Verified
<1> QED BY <1>1, <1>3, <1>4 DEF Contract!Adopt

LEMMA ContractStep ==
    ASSUME EditsDuringApply = FALSE, IInv, [Next]_vars
    PROVE  [Contract!Next]_(Contract!vars)
<1>1. TypeOK /\ TypeOK'
  BY TypeStep DEF IInv
<1>2. CASE \E c \in Configs : Configure(c)
  <2>1. Contract!Configure
    BY <1>2 DEF Configure, Contract!Configure
  <2> QED BY <2>1 DEF Contract!Next
<1>3. CASE \E r \in Rows, to \in Standing : ForeignEdit(r, to)
  <2>1. Contract!Edit
    BY <1>1, <1>3 DEF ForeignEdit, TypeOK, Contract!Edit, Contract!Standing
  <2> QED BY <2>1 DEF Contract!Next
<1>4. ASSUME NEW readable \in BOOLEAN, Refresh(readable)
      PROVE  Contract!Show
  <2>1. state # NoState /\ state \in Resource /\ job = NoJob /\ UNCHANGED <<live, config, job>>
    BY <1>1, <1>4 DEF Refresh, TypeOK
  <2>2. state' = [rows |-> ReadRows(state.rows, state.preserve, readable),
                  preserve |-> state.preserve]
    BY <1>4, <2>1 DEF Refresh
  <2> QED BY <1>1, <2>1, <2>2, ShowStep
<1>5. ASSUME NEW preserve \in SUBSET Dims, Import(preserve)
      PROVE  Contract!Show
  <2>1. /\ state = NoState /\ job = NoJob /\ UNCHANGED <<live, config, job>>
        /\ state' = [rows |-> ReadRows({}, preserve, FALSE), preserve |-> preserve]
    BY <1>5 DEF Import
  <2> QED BY <1>1, <2>1, ShowStep
<1>6. CASE \E readable \in BOOLEAN : Create(readable) \/ Update(readable)
  <2>1. job = NoJob /\ UNCHANGED <<live, config, state>>
    BY <1>6 DEF Create, Update, StartApply
  <2>2. job' \in Job
    <3>1. CASE \E readable \in BOOLEAN : Create(readable)
      BY <1>1, <3>1, StartApplyType DEF Create
    <3>2. ASSUME NEW readable \in BOOLEAN, Update(readable)
          PROVE  job' \in Job
      <4>1. Revocable(state.rows, config.rows, state.preserve, config.preserve) \in SUBSET Rows
        BY <1>1, <3>2 DEF Update, TypeOK, Revocable
      <4> QED BY <1>1, <3>2, <4>1, StartApplyType DEF Update
    <3> QED BY <1>6, <3>1, <3>2
  <2>3. Contract!Begin
    BY <2>1, <2>2, NoneAssumption DEF Contract!Begin
  <2> QED BY <2>3 DEF Contract!Next
<1>7. CASE Destroy \/ RefreshGone
  <2>1. Contract!Forget
    BY <1>7 DEF Destroy, RefreshGone, Contract!Forget
  <2> QED BY <2>1 DEF Contract!Next
<1>8. CASE Write
  <2>1. Contract!Revoke \/ Contract!Grant \/ UNCHANGED Contract!vars
    BY <1>8, RevokeStep, GrantStep DEF Write
  <2> QED BY <2>1 DEF Contract!Next
<1>9. CASE Verify
  <2>1. PlanInv
    BY <1>9 DEF Verify, IInv, JobInv
  <2> QED BY <1>9, <2>1, AdoptStep DEF Contract!Next
<1>10. CASE ApplyFails
  <2>1. Contract!GiveUp
    BY <1>10 DEF ApplyFails, Contract!GiveUp
  <2> QED BY <2>1 DEF Contract!Next
<1>11. CASE UNCHANGED vars
  BY <1>11 DEF vars, Contract!vars
<1> QED BY <1>2, <1>3, <1>4, <1>5, <1>6, <1>7, <1>8, <1>9, <1>10, <1>11
        DEF Next, Terraform, Contract!Next

\* Grants implements its contract: however many rights, rows and configurations there
\* are, and wherever the requests of an apply fail, no apply revokes a row the plan did
\* not show, overwrites a deny, or records what is not so (grants_common.go, grants.go).
THEOREM GrantsImplementContract ==
    ASSUME EditsDuringApply = FALSE
    PROVE  Spec => ImplementsContract
<1>1. Init => Contract!Init
  BY DEF Init, Contract!Init, Contract!Standing
<1>2. IInv /\ [Next]_vars => [Contract!Next]_(Contract!vars)
  BY ContractStep
<1> QED BY <1>1, <1>2, Invariance, PTL DEF Spec, Contract!Spec, ImplementsContract

---------------------------------------------------------------------------
(* The properties of the run *)

\* While an apply takes a step, what changes is what the contract lets Revoke or Grant change.
LEMMA OwnStep ==
    ASSUME EditsDuringApply = FALSE, IInv, [Next]_vars, job' # job,
           NEW r \in Rows, live'[r] # live[r]
    PROVE  \/ /\ live[r] = "grant" /\ live'[r] = "none"
              /\ r \in job.revoke \cup job.ignored /\ RevokeInv
           \/ /\ live[r] = "none" /\ live'[r] = "grant"
              /\ job.revoke = {} /\ job # NoJob
<1>1. CASE \E k \in Keys, stored \in BOOLEAN : DeleteSelections(k, stored) \/ DeleteNullRow(k, stored)
  <2>1. PICK k \in Keys, stored \in BOOLEAN : DeleteSelections(k, stored) \/ DeleteNullRow(k, stored)
    BY <1>1
  <2>2. job # NoJob
    BY <2>1 DEF DeleteSelections, DeleteNullRow
  <2>3. RevokeInv
    BY <2>2 DEF IInv, JobInv
  <2>4. PICK gone \in SUBSET (job.revoke \cup job.ignored) :
          /\ live' = [q \in Rows |-> IF q \in gone THEN "none" ELSE live[q]]
          /\ \A q \in gone : live[q] = "grant"
    BY <2>1, Delete DEF DeleteEffect
  <2>5. r \in gone /\ live'[r] = "none"
    BY <2>4
  <2> QED BY <2>3, <2>4, <2>5
<1>2. CASE \E k \in Keys, stored \in BOOLEAN : PutSelections(k, stored) \/ PutNullRow(k, stored)
  <2>1. PICK k \in Keys, stored \in BOOLEAN : PutSelections(k, stored) \/ PutNullRow(k, stored)
    BY <1>2
  <2>2. job # NoJob /\ job.revoke = {}
    BY <2>1 DEF PutSelections, PutNullRow, Deleted
  <2>3. PICK rows \in SUBSET (job.grant \ job'.grant) :
          live' = [q \in Rows |-> IF q \in rows THEN "grant" ELSE live[q]]
    BY <2>1, Put
  <2>4. r \in rows /\ live'[r] = "grant" /\ r \in job.grant
    BY <2>3
  <2> QED BY <2>2, <2>4 DEF IInv, JobInv, GrantInv
<1>3. CASE ~Write
  <2>1. live' = live \/ job' = job
    BY <1>3 DEF Next, Terraform, Configure, ForeignEdit, Refresh, RefreshGone, Import, Destroy, Create, Update,
                StartApply, Verify, ApplyFails, vars
  <2> QED BY <2>1
<1> QED BY <1>1, <1>2, <1>3 DEF Write

\* An apply takes away only live grants that the plan showed as removals (PlanWrites).
THEOREM ShownRevokedOnly ==
    ASSUME EditsDuringApply = FALSE
    PROVE  Spec => OnlyShownRevoked
<1> DEFINE Step == \A r \in Rows : Revoked(r) =>
                       /\ live[r] = "grant"
                       /\ state # NoState
                       /\ r \in state.rows \ config.rows
<1>1. IInv /\ [Next]_vars => Step
  BY OwnStep DEF Revoked, RevokeInv
<1> QED BY <1>1, Invariance, PTL DEF Spec, OnlyShownRevoked

\* No row of a preserved dimension that no configuration declared is ever revoked
\* (FilterLive, AdoptNewlyPreserved).
THEOREM PreservedStands ==
    ASSUME EditsDuringApply = FALSE
    PROVE  Spec => PreservedNeverRevoked
<1> DEFINE Step == \A r \in Rows :
                       Revoked(r) /\ DimOf[r.right] \in config.preserve => r \in declared
<1>1. IInv /\ [Next]_vars => Step
  <2> SUFFICES ASSUME IInv, [Next]_vars, NEW r \in Rows,
                      Revoked(r), DimOf[r.right] \in config.preserve
               PROVE  r \in declared
    OBVIOUS
  <2>1. r \in job.revoke \cup job.ignored /\ RevokeInv
    BY OwnStep DEF Revoked
  <2> QED BY <2>1 DEF RevokeInv, IInv, StateInv
<1> QED BY <1>1, Invariance, PTL DEF Spec, PreservedNeverRevoked

\* A deny is neither flipped into a grant nor removed by an apply (PlanWrites).
THEOREM DeniesStand ==
    ASSUME EditsDuringApply = FALSE
    PROVE  Spec => DenyStands
<1> DEFINE Step == job' # job => \A r \in Rows : live[r] = "deny" => live'[r] = "deny"
<1>1. IInv /\ [Next]_vars => Step
  BY OwnStep
<1> QED BY <1>1, Invariance, PTL DEF Spec, DenyStands

\* No row is added while a row to be revoked is still granted, but for one whose DELETE
\* the host answered and ignored (apply: deletes first).
THEOREM DeletesComeFirst ==
    ASSUME EditsDuringApply = FALSE
    PROVE  Spec => NeverBothSelections
<1> DEFINE Step == (\E r \in Rows : Granted(r)) =>
                       \A p \in RemovedRows(job.prior, job.desired) : live[p] = "grant" => p \in job.ignored
<1>1. IInv /\ [Next]_vars => Step
  <2> SUFFICES ASSUME IInv, [Next]_vars, NEW r \in Rows, Granted(r)
               PROVE  \A p \in RemovedRows(job.prior, job.desired) : live[p] = "grant" => p \in job.ignored
    OBVIOUS
  <2>1. job.revoke = {} /\ job # NoJob
    BY OwnStep DEF Granted
  <2> QED BY <2>1 DEF IInv, JobInv, RemovedInv
<1> QED BY <1>1, Invariance, PTL DEF Spec, NeverBothSelections

---------------------------------------------------------------------------
(* What a reported success means, whatever administrators do meanwhile *)

\* Since a state was refreshed, every row a later read would add to it is in it, or is
\* one the running apply has granted.
FreshInv ==
    fresh =>
        /\ state # NoState
        /\ \A r \in Rows :
              /\ live[r] = "grant"
              /\ r.right \in Catalog
              /\ DimOf[r.right] \notin state.preserve
              => r \in state.rows \/ (job # NoJob /\ r \in config.rows)

\* An edit may fall between any two requests of an apply: it undoes what the writes still
\* to send rely on, but not the plan, and not while the state counts as fresh.
EditedInv ==
    /\ TypeOK
    /\ StateInv
    /\ job # NoJob => PlanInv
    /\ fresh => JobInv
    /\ FreshInv

LEMMA FreshStep ==
    ASSUME EditedInv, TypeOK', [Next]_vars
    PROVE  FreshInv'
<1> SUFFICES ASSUME fresh'
             PROVE  FreshInv'
  BY DEF FreshInv
<1>1. ASSUME NEW readable \in BOOLEAN, Refresh(readable)
      PROVE  FreshInv'
  <2>1. state \in Resource
    BY <1>1 DEF Refresh, EditedInv, TypeOK
  <2>2. /\ state'.rows = ReadRows(state.rows, state.preserve, readable)
        /\ state'.preserve = state.preserve
        /\ live' = live
    BY <1>1, <2>1 DEF Refresh
  <2>3. ReadRows(state.rows, state.preserve, readable) \in SUBSET Rows
    BY <2>1, ReadRowsType
  <2>4. state' # NoState
    BY <1>1, <2>1, <2>3, NoneAssumption DEF Refresh
  <2> QED BY <2>2, <2>4 DEF FreshInv, ReadRows, Managed, IsGrant
<1>2. ASSUME NEW preserve \in SUBSET Dims, Import(preserve)
      PROVE  FreshInv'
  <2>1. state'.rows = ReadRows({}, preserve, FALSE) /\ state'.preserve = preserve /\ live' = live
    BY <1>2 DEF Import
  <2>2. ReadRows({}, preserve, FALSE) \in SUBSET Rows
    BY ReadRowsType
  <2>3. [rows |-> ReadRows({}, preserve, FALSE), preserve |-> preserve] \in Resource
    BY <2>2
  <2>4. state' # NoState
    BY <1>2, <2>3, NoneAssumption DEF Import
  <2> QED BY <2>1, <2>4 DEF FreshInv, ReadRows, Managed, IsGrant
<1>3. CASE Write
  <2>1. PICK k \in Keys, stored \in BOOLEAN :
          \/ DeleteSelections(k, stored) \/ DeleteNullRow(k, stored)
          \/ PutSelections(k, stored) \/ PutNullRow(k, stored)
    BY <1>3 DEF Write
  <2>2. job # NoJob /\ fresh /\ UNCHANGED <<config, state>>
    BY <2>1 DEF DeleteSelections, DeleteNullRow, PutSelections, PutNullRow
  <2>3. job' # NoJob
    BY <2>1, WriteType, NoneAssumption DEF EditedInv
  <2>4. IInv /\ GrantInv
    BY <2>2 DEF EditedInv, IInv, JobInv
  <2>5. \A r \in Rows : live'[r] = "grant" => live[r] = "grant" \/ r \in config.rows
    <3>1. CASE DeleteSelections(k, stored) \/ DeleteNullRow(k, stored)
      BY <2>4, <3>1, Delete DEF DeleteEffect
    <3>2. CASE PutSelections(k, stored) \/ PutNullRow(k, stored)
      <4>1. PICK rows \in SUBSET (job.grant \ job'.grant) :
              live' = [r \in Rows |-> IF r \in rows THEN "grant" ELSE live[r]]
        BY <2>4, <3>2, Put
      <4> QED BY <2>4, <4>1 DEF GrantInv
    <3> QED BY <2>1, <3>1, <3>2
  <2> QED BY <2>2, <2>3, <2>5 DEF EditedInv, FreshInv
<1>4. CASE UNCHANGED <<live, state>> /\ (job = NoJob \/ (UNCHANGED <<config, job>>)) /\ fresh
  BY <1>4 DEF EditedInv, FreshInv
<1> QED BY <1>1, <1>2, <1>3, <1>4
        DEF Next, Terraform, Configure, ForeignEdit, RefreshGone, Create, Update, StartApply, Destroy, Verify,
            ApplyFails, vars

LEMMA EditedStep ==
    ASSUME EditedInv, [Next]_vars
    PROVE  EditedInv'
<1>1. TypeOK'
  BY TypeStep DEF EditedInv
<1>2. StateInv'
  BY StateInvStep DEF EditedInv
<1>3. job' # NoJob => PlanInv'
  BY PlanStep DEF EditedInv
<1>4. ASSUME fresh' PROVE JobInv'
  <2>1. CASE fresh
    BY <1>4, <2>1, InvStep DEF EditedInv, IInv
  <2>2. CASE job' = NoJob
    BY <2>2 DEF JobInv
  <2> QED BY <1>4, <2>1, <2>2
          DEF Next, Terraform, Configure, ForeignEdit, Refresh, RefreshGone, Import, Create, Update, StartApply,
              Destroy, Write, DeleteSelections, DeleteNullRow, PutSelections, PutNullRow, Verify,
              ApplyFails, vars
<1>5. FreshInv'
  BY <1>1, FreshStep
<1> QED BY <1>1, <1>2, <1>3, <1>4, <1>5 DEF EditedInv

LEMMA EditedInvariance == Spec => []EditedInv
<1>1. Init => EditedInv
  BY TypeInit DEF EditedInv, StateInv, JobInv, FreshInv, Init
<1>2. EditedInv /\ [Next]_vars => EditedInv'
  BY EditedStep
<1> QED BY <1>1, <1>2, PTL DEF Spec

\* Only a verified apply reports success.
LEMMA SuccessIsVerified ==
    ASSUME EditedInv, [Next]_vars, Succeeded
    PROVE  Verify /\ PlanInv
<1>1. job # NoJob /\ job' = NoJob /\ state' = config /\ PlanInv
  BY DEF Succeeded, EditedInv
<1>2. state # config
  BY <1>1 DEF PlanInv
<1>3. Verify
  BY <1>1, <1>2 DEF Next, Terraform, Configure, ForeignEdit, Refresh, RefreshGone, Import, Destroy, Create, Update,
              StartApply, Write, DeleteSelections, DeleteNullRow, PutSelections, PutNullRow,
              ApplyFails, vars
<1> QED BY <1>1, <1>3

\* An apply that ends with the configuration in state has every declared row the host
\* offers in ChurchTools and no row the plan removed, but on a dimension newly preserved,
\* even when administrators edit the domain while it runs (VerifyWrites).
THEOREM SuccessIsStored == Spec => SuccessMeansStored
<1> DEFINE Step == Succeeded =>
          /\ \A r \in config.rows : r.right \in Offered => IsGrant(live, r)
          /\ state # NoState =>
                \A r \in state.rows \ config.rows :
                    live[r] = "grant" => DimOf[r.right] \in config.preserve \ state.preserve
<1>1. EditedInv /\ [Next]_vars => Step
  BY SuccessIsVerified, AdoptStep DEF Contract!Adopt, Contract!Granted, IsGrant
<1> QED BY <1>1, EditedInvariance, PTL DEF Spec, SuccessMeansStored

\* What the refresh after a successful apply reads: every declared row and no row the apply
\* removed, even when administrators edit the domain while it runs; and, after an update
\* from a refreshed state that no edit has disturbed, exactly the configuration
\* (FilterLive, PlanWrites and VerifyWrites agree on what is managed).
THEOREM SuccessIsClean == Spec => SuccessMeansCleanPlan
<1> DEFINE read == ReadRows(config.rows, config.preserve, TRUE)
           Step == Succeeded =>
              /\ config.rows \subseteq read
              /\ state # NoState => read \cap state.rows \subseteq config.rows
              /\ fresh /\ state # NoState /\ state.preserve \subseteq config.preserve
                   => read = config.rows
<1>1. EditedInv /\ [Next]_vars => Step
  <2> SUFFICES ASSUME EditedInv, [Next]_vars, Succeeded
               PROVE  /\ config.rows \subseteq read
                      /\ state # NoState => read \cap state.rows \subseteq config.rows
                      /\ fresh /\ state # NoState /\ state.preserve \subseteq config.preserve
                           => read = config.rows
    OBVIOUS
  <2>1. /\ Verify /\ PlanInv /\ job # NoJob
        /\ \A r \in config.rows : r.right \in Offered => IsGrant(live, r)
    BY SuccessIsVerified, AdoptStep DEF Contract!Adopt, Contract!Granted, IsGrant, Succeeded
  <2>2. config.rows \subseteq {r \in Rows : r.right \in Catalog}
    BY ConfigsAssumption DEF EditedInv, TypeOK
  <2>3. config.rows \subseteq read
    BY <2>1, <2>2 DEF ReadRows, Managed, Unoffered, AbsentRows
  <2>4. \A r \in read \ config.rows :
            /\ r \in Rows /\ live[r] = "grant" /\ r.right \in Catalog
            /\ DimOf[r.right] \notin config.preserve
    BY DEF ReadRows, Managed, Unoffered, AbsentRows
  <2> HIDE DEF read
  <2>5. ASSUME state # NoState, NEW r \in read \cap state.rows, r \notin config.rows
        PROVE  FALSE
    <3>1. r \in RemovedRows(job.prior, job.desired)
      BY <2>1, <2>4, <2>5 DEF PlanInv
    <3> QED BY <2>1, <2>4, <2>5, <3>1 DEF Verify, Verified
  <2>6. ASSUME fresh, state # NoState, state.preserve \subseteq config.preserve, NEW r \in read,
               r \notin config.rows
        PROVE  FALSE
    <3>1. r \in state.rows
      BY <2>1, <2>4, <2>6 DEF EditedInv, FreshInv
    <3> QED BY <2>5, <2>6, <3>1
  <2> QED BY <2>3, <2>5, <2>6
<1> QED BY <1>1, EditedInvariance, PTL DEF Spec, SuccessMeansCleanPlan

=============================================================================
