------------------------------ MODULE RestProofs ------------------------------
(***************************************************************************)
(* Proofs about RestResource, for any number of blocks, any configurations   *)
(* and any of the kinds.                                                     *)
(***************************************************************************)
EXTENDS RestResource, FiniteSetTheorems, TLAPS

\* What the twelve kinds have in common.
LEMMA KindFacts ==
    ASSUME NEW k \in Kinds
    PROVE  /\ k.attrs \in SUBSET Attributes
           /\ k.kept \subseteq k.attrs
           /\ k.locked \in BOOLEAN /\ k.records \in BOOLEAN
           /\ k.locked => k.verifies = "nothing" /\ "flag" \in k.kept
           /\ "flag" \notin k.replied
<1> USE DEF Campus, Attributes
<1>1. CASE k \in {Campus, PersonStatus, GroupType}
  <2>1. k = Campus
    BY <1>1 DEF PersonStatus, GroupType
  <2> QED BY <2>1
<1>2. CASE k \in {CommentViewer, TargetGroup, AgeGroup, RelationshipType}
  <2>1. k = CommentViewer
    BY <1>2 DEF TargetGroup, AgeGroup, RelationshipType
  <2> QED BY <2>1 DEF CommentViewer
<1>3. CASE k = GroupCategory
  BY <1>3 DEF GroupCategory, CommentViewer
<1>4. CASE k = ContactLabel
  BY <1>4 DEF ContactLabel
<1>5. CASE k = GrowPath
  BY <1>5 DEF GrowPath, CommentViewer
<1>6. CASE k = DbField
  BY <1>6 DEF DbField, CommentViewer
<1>7. CASE k = RoleDefinition
  BY <1>7 DEF RoleDefinition
<1> QED BY <1>1, <1>2, <1>3, <1>4, <1>5, <1>6, <1>7, KindsAssumption DEF AllKinds

---------------------------------------------------------------------------
(* The inductive invariant *)

\* The types, with the writers not counted; only a tainted row has unknowns in state.
Typed ==
    /\ kind \in Kinds
    /\ live \in [Resources -> Rows \cup {Gone}]
    /\ config \in [Resources -> Configs]
    /\ state \in [Resources -> [kind.attrs -> Values \cup {Null}] \cup {NoState}]
    /\ tainted \in [Resources -> BOOLEAN]
    /\ job \in [Resources -> Job \cup {NoJob}]
    /\ succeeded \in [Resources -> BOOLEAN]
    /\ \A r \in Resources :
          /\ tainted[r] => state[r] # NoState
          /\ ~tainted[r] /\ state[r] # NoState => state[r] \in Rows
          /\ job[r] # NoJob /\ job[r].step = "read" => state[r] \in Rows
          /\ job[r] # NoJob /\ job[r].step = "created" => state[r] = NoState

\* Contact labels are written one at a time.
Turns ==
    kind.locked => \A r, q \in Resources : job[r] # NoJob /\ job[q] # NoJob => r = q

\* Nobody else has written since the running call has read: no administrator may, or, where
\* writes take turns, a success that nothing has interfered with stands.
Undisturbed == AdminsDuringApply = FALSE \/ (kind.locked /\ \E q \in Resources : succeeded[q])

\* What a call has sent, or is about to send, says what is configured, and what it keeps
\* is, undisturbed, still as the row has it; nothing has succeeded before it has.
Keeps(a) == a \in kind.kept /\ (a = "flag" => kind.locked)

JobInv(r) ==
    job[r] # NoJob =>
        /\ ~succeeded[r]
        /\ job[r].step \in {"verify", "created"} => kind.verifies # "nothing"
        /\ job[r].step # "read" =>
              \A a \in kind.attrs : Configured(r, a) => job[r].body[a] = config[r][a]
        /\ Undisturbed /\ job[r].step = "write" /\ live[r] # Gone =>
              \A a \in kind.attrs :
                  Keeps(a) /\ ~Configured(r, a) => job[r].body[a] = live[r][a]

IInv ==
    /\ Typed
    /\ Turns
    /\ \A r \in Resources : JobInv(r)
    /\ AtMostOneDefault(live)
    /\ DefaultStands

LEMMA InitInv == Init => IInv
<1> SUFFICES ASSUME Init PROVE IInv
  OBVIOUS
<1> USE DEF Init
<1>1. Typed
  BY DEF Typed, Rows
<1>2. DefaultStands
  BY DEF DefaultStands
<1> QED BY <1>1, <1>2 DEF IInv, Turns, JobInv

---------------------------------------------------------------------------
(* Rows and bodies *)

LEMMA ConfiguredValue ==
    ASSUME Typed, NEW r \in Resources, NEW a \in kind.attrs, Configured(r, a)
    PROVE  config[r][a] \in Values
<1>1. a \in Attributes
  BY KindFacts DEF Typed
<1> QED BY <1>1, ConfigsAssumption DEF Typed, Configured

LEMMA RowFacts == Typed => \A row \in Rows : row # Gone /\ row # NoState
<1> SUFFICES ASSUME Typed, NEW row \in Rows PROVE row # Gone /\ row # NoState
  OBVIOUS
<1>1. kind.attrs \in SUBSET Attributes
  BY KindFacts DEF Typed
<1>2. row \in [kind.attrs -> Values] /\ row \in [kind.attrs -> Values \cup {Null}]
  BY DEF Rows
<1> QED BY <1>1, <1>2, NullAssumption

\* What Put does to the table.
LEMMA PutFacts ==
    ASSUME Typed, NEW r \in Resources, NEW row \in Rows
    PROVE  /\ Put(r, row) \in [Resources -> Rows \cup {Gone}]
           /\ Put(r, row)[r] = row
           /\ \A q \in Resources \ {r} :
                 /\ Put(r, row)[q] = Gone <=> live[q] = Gone
                 /\ live[q] # Gone =>
                       /\ \A a \in kind.attrs \ {"flag"} : Put(r, row)[q][a] = live[q][a]
                       /\ "flag" \in kind.attrs =>
                             Put(r, row)[q]["flag"] = IF row["flag"] = 1 THEN 0 ELSE live[q]["flag"]
<1>1. ASSUME NEW q \in Resources, live[q] # Gone, "flag" \in kind.attrs
      PROVE  [live[q] EXCEPT !["flag"] = 0] \in Rows
  BY <1>1 DEF Typed, Rows, Values
<1>2. Put(r, row)[r] = row
  BY DEF Put
<1>3. ASSUME NEW q \in Resources \ {r}
      PROVE  /\ Put(r, row)[q] \in Rows \cup {Gone}
             /\ Put(r, row)[q] = Gone <=> live[q] = Gone
             /\ live[q] # Gone =>
                   /\ \A a \in kind.attrs \ {"flag"} : Put(r, row)[q][a] = live[q][a]
                   /\ "flag" \in kind.attrs =>
                         Put(r, row)[q]["flag"] = IF row["flag"] = 1 THEN 0 ELSE live[q]["flag"]
  <2>1. CASE "flag" \in kind.attrs /\ row["flag"] = 1 /\ live[q] # Gone
    <3>1. Put(r, row)[q] = [live[q] EXCEPT !["flag"] = 0]
      BY <2>1 DEF Put
    <3>2. live[q] \in Rows
      BY <2>1 DEF Typed
    <3> QED BY <1>1, <2>1, <3>1, <3>2, RowFacts DEF Rows
  <2>2. CASE ~("flag" \in kind.attrs /\ row["flag"] = 1 /\ live[q] # Gone)
    <3>1. Put(r, row)[q] = live[q]
      BY <2>2 DEF Put
    <3> QED BY <2>2, <3>1 DEF Typed
  <2> QED BY <2>1, <2>2
<1>4. Put(r, row) \in [Resources -> Rows \cup {Gone}]
  BY <1>2, <1>3 DEF Put
<1> QED BY <1>2, <1>3, <1>4

LEMMA OneDefault ==
    ASSUME IInv, NEW r \in Resources, NEW row \in Rows, live' = Put(r, row), UNCHANGED kind
    PROVE  AtMostOneDefault(live)'
<1> SUFFICES ASSUME "flag" \in kind.attrs, NEW p \in Resources, NEW q \in Resources,
                    live'[p] # Gone, live'[q] # Gone, live'[p]["flag"] = 1, live'[q]["flag"] = 1
             PROVE  p = q
  BY DEF AtMostOneDefault
<1>1. Typed /\ AtMostOneDefault(live)
  BY DEF IInv
<1>2. CASE row["flag"] = 1
  <2>1. \A s \in Resources \ {r} : live'[s] # Gone => live'[s]["flag"] = 0
    <3>1. ASSUME NEW s \in Resources \ {r}, live'[s] # Gone PROVE live'[s]["flag"] = 0
      <4>1. live[s] # Gone
        BY <1>1, <3>1, PutFacts
      <4> QED BY <1>1, <1>2, <4>1, PutFacts
    <3> QED BY <3>1
  <2> QED BY <2>1
<1>3. CASE row["flag"] # 1
  <2>1. p # r /\ q # r
    BY <1>1, <1>3, PutFacts
  <2>2. live[p] # Gone /\ live[q] # Gone /\ live[p]["flag"] = 1 /\ live[q]["flag"] = 1
    BY <1>1, <1>3, <2>1, PutFacts
  <2> QED BY <1>1, <2>2 DEF AtMostOneDefault
<1> QED BY <1>2, <1>3

\* What a write stores is a row, and where nothing is ignored the body.
LEMMA StoredFacts ==
    ASSUME Typed, NEW old \in Rows, NEW body \in Rows, NEW row \in Stored(old, body)
    PROVE  /\ row \in Rows
           /\ kind.verifies = "nothing" => row = body
           /\ \A a \in kind.attrs : row[a] \in {old[a], body[a]}
BY DEF Stored

LEMMA OverlayFacts ==
    ASSUME Typed, NEW r \in Resources, NEW row \in Rows,
           state[r] \in Rows
    PROVE  /\ Overlay(r, row) \in Rows
           /\ \A a \in kind.attrs : Configured(r, a) => Overlay(r, row)[a] = config[r][a]
           /\ \A a \in kind.kept : ~Configured(r, a) => Overlay(r, row)[a] = row[a]
<1>1. kind.kept \subseteq kind.attrs
  BY KindFacts DEF Typed
<1> QED BY <1>1, ConfiguredValue DEF Overlay, Rows

LEMMA NewRowFacts ==
    ASSUME Typed, NEW r \in Resources
    PROVE  /\ [a \in kind.attrs |-> Default] \in Rows
           /\ \A new \in NewRows(r) :
                 /\ new \in Rows
                 /\ \A a \in kind.attrs : Configured(r, a) => new[a] = config[r][a]
                 /\ "flag" \in kind.attrs /\ ~Configured(r, "flag") => new["flag"] = 0
<1>1. "flag" \notin kind.replied
  BY KindFacts DEF Typed
<1> QED BY <1>1 DEF NewRows, Rows, Default, Values

LEMMA WroteFacts ==
    ASSUME Typed, NEW r \in Resources, job[r] # NoJob, Wrote(r)
    PROVE  \E row \in Rows :
              /\ live' = Put(r, row)
              /\ kind.verifies = "nothing" => row = job[r].body
              /\ \A a \in kind.attrs : row[a] \in {live[r][a], job[r].body[a]}
<1>1. live[r] \in Rows /\ job[r].body \in Rows
  BY DEF Typed, Wrote, Job
<1> QED BY <1>1, StoredFacts DEF Wrote

LEMMA PostedFacts ==
    ASSUME Typed, NEW r \in Resources, NEW new \in NewRows(r), Posted(r, new)
    PROVE  \E row \in Rows :
              /\ live' = Put(r, row)
              /\ kind.verifies = "nothing" => row = new
BY NewRowFacts, StoredFacts DEF Posted

---------------------------------------------------------------------------
(* Types and turns *)

LEMMA UpdateTypes ==
    ASSUME Typed, NEW r \in Resources, Update(r)
    PROVE  Typed'
<1> USE DEF Goes, Ends
<1>1. CASE StartUpdate(r)
  <2>1. state[r] \in Rows
    BY <1>1 DEF StartUpdate, Typed
  <2>2. CASE job' = [job EXCEPT ![r] = [step |-> "read", body |-> [a \in kind.attrs |-> Default]]]
    <3>1. [step |-> "read", body |-> [a \in kind.attrs |-> Default]] \in Job
      BY NewRowFacts DEF Job
    <3> QED BY <1>1, <2>1, <2>2, <3>1 DEF StartUpdate, Typed, Rows, Job
  <2>3. CASE job' = [job EXCEPT ![r] = [step |-> "write", body |-> Overlay(r, state[r])]]
    <3>1. [step |-> "write", body |-> Overlay(r, state[r])] \in Job
      BY <2>1, OverlayFacts DEF Job
    <3> QED BY <1>1, <2>3, <3>1 DEF StartUpdate, Typed, Rows, Job
  <2> QED BY <1>1, <2>2, <2>3 DEF StartUpdate
<1>2. CASE ReadLive(r)
  <2>1. live[r] \in Rows /\ state[r] \in Rows
    BY <1>2 DEF ReadLive, Typed
  <2>2. [step |-> "write", body |-> Overlay(r, live[r])] \in Job
    BY <2>1, OverlayFacts DEF Job
  <2> QED BY <1>2, <2>2 DEF ReadLive, Typed, Rows, Job
<1>3. CASE Write(r)
  <2>1. job[r] \in Job /\ job[r].body \in Rows /\ job[r].step = "write"
    BY <1>3 DEF Write, Typed, Job
  <2>2. live' \in [Resources -> Rows \cup {Gone}]
    BY <1>3, WroteFacts, PutFacts DEF Write
  <2>3. CASE kind.verifies = "nothing"
    <3>1. job[r].body # NoState /\ job[r].body \in [kind.attrs -> Values \cup {Null}]
      BY <2>1, RowFacts DEF Rows
    <3> QED BY <1>3, <2>1, <2>2, <2>3, <3>1 DEF Write, Typed, Rows, Job
  <2>4. CASE kind.verifies # "nothing"
    <3>1. [step |-> "verify", body |-> job[r].body] \in Job
      BY <2>1 DEF Job
    <3> QED BY <1>3, <2>1, <2>2, <2>4, <3>1 DEF Write, Typed, Rows, Job
  <2> QED BY <2>3, <2>4
<1>4. CASE WriteFails(r)
  <2>1. live' \in [Resources -> Rows \cup {Gone}]
    BY <1>4, WroteFacts, PutFacts DEF WriteFails, Typed
  <2> QED BY <1>4, <2>1 DEF WriteFails, Typed, Rows, Job
<1>5. CASE Verify(r)
  <2>1. live[r] \in Rows /\ live[r] # NoState /\ live[r] \in [kind.attrs -> Values \cup {Null}]
    BY <1>5, RowFacts DEF Verify, Typed, Rows
  <2>2. AsSent(r, live[r]) \in BOOLEAN
    BY DEF AsSent
  <2> QED BY <1>5, <2>1, <2>2 DEF Verify, Typed, Rows, Job
<1>6. CASE ReadFails(r)
  BY <1>6 DEF ReadFails, Typed, Rows, Job
<1> QED BY <1>1, <1>2, <1>3, <1>4, <1>5, <1>6 DEF Update

LEMMA CreateTypes ==
    ASSUME Typed, NEW r \in Resources, Create(r)
    PROVE  Typed'
<1> USE DEF Goes, Ends
<1>1. CASE Post(r)
  <2> PICK new \in NewRows(r) :
         /\ Posted(r, new)
         /\ IF kind.verifies = "nothing"
            THEN /\ state' = [state EXCEPT ![r] = new]
                 /\ Ends(r, TRUE)
            ELSE /\ Goes(r, "created", new)
                 /\ succeeded' = [succeeded EXCEPT ![r] = FALSE]
                 /\ UNCHANGED state
    BY <1>1 DEF Post
  <2>0. new \in Rows /\ new # NoState /\ new \in [kind.attrs -> Values \cup {Null}]
    BY NewRowFacts, RowFacts DEF Rows
  <2>1. live' \in [Resources -> Rows \cup {Gone}]
    BY PostedFacts, PutFacts
  <2>2. [step |-> "created", body |-> new] \in Job
    BY <2>0 DEF Job
  <2>3. state[r] = NoState /\ UNCHANGED <<kind, config, tainted>>
    BY <1>1 DEF Post, MayCreate
  <2>4. CASE kind.verifies = "nothing"
    <3>1. /\ state' = [state EXCEPT ![r] = new] /\ job' = [job EXCEPT ![r] = NoJob]
          /\ succeeded' = [succeeded EXCEPT ![r] = TRUE]
      BY <2>4
    <3> QED BY <2>0, <2>1, <2>3, <3>1 DEF Typed, Rows, Job
  <2>5. CASE kind.verifies # "nothing"
    <3>1. /\ job' = [job EXCEPT ![r] = [step |-> "created", body |-> new]]
          /\ succeeded' = [succeeded EXCEPT ![r] = FALSE] /\ UNCHANGED state
      BY <2>5
    <3> QED BY <2>1, <2>2, <2>3, <3>1 DEF Typed, Rows, Job
  <2> QED BY <2>4, <2>5
<1>2. CASE PostFails(r)
  <2>1. live' \in [Resources -> Rows \cup {Gone}]
    BY <1>2, PostedFacts, PutFacts DEF PostFails, Typed
  <2> QED BY <1>2, <2>1 DEF PostFails, Typed, Rows, Job
<1>3. ASSUME NEW row \in [kind.attrs -> Values \cup {Null}], row # NoState, NEW success \in BOOLEAN,
             success => row \in Rows,
             job[r] # NoJob, job[r].step = "created", Records(r, row, success),
             UNCHANGED <<kind, live, config>>
      PROVE  Typed'
  <2>1. state[r] = NoState /\ job' = [job EXCEPT ![r] = NoJob]
    BY <1>3 DEF Typed, Records
  <2>2. succeeded' \in [Resources -> BOOLEAN]
    BY <1>3 DEF Typed, Records
  <2>3. CASE success
    <3>1. state' = [state EXCEPT ![r] = row] /\ tainted' = [tainted EXCEPT ![r] = FALSE]
      BY <1>3, <2>3 DEF Records
    <3> QED BY <1>3, <2>1, <2>2, <2>3, <3>1 DEF Typed, Rows, Job
  <2>4. CASE ~success /\ kind.records
    <3>1. state' = [state EXCEPT ![r] = row] /\ tainted' = [tainted EXCEPT ![r] = TRUE]
      BY <1>3, <2>4 DEF Records
    <3> QED BY <1>3, <2>1, <2>2, <3>1 DEF Typed, Rows, Job
  <2>5. CASE ~success /\ ~kind.records
    <3>1. state' = state /\ tainted' = [tainted EXCEPT ![r] = FALSE]
      BY <1>3, <2>5, KindFacts DEF Records, Typed
    <3> QED BY <1>3, <2>1, <2>2, <3>1 DEF Typed, Rows, Job
  <2> QED BY <2>3, <2>4, <2>5
<1>4. CASE ReadCreated(r)
  <2>1. live[r] \in Rows /\ live[r] # NoState /\ live[r] \in [kind.attrs -> Values \cup {Null}]
    BY <1>4, RowFacts DEF ReadCreated, Typed, Rows
  <2>2. AsSent(r, live[r]) \in BOOLEAN
    BY DEF AsSent
  <2> QED BY <1>3, <1>4, <2>1, <2>2 DEF ReadCreated
<1>5. CASE ReadCreatedFails(r)
  <2> DEFINE row == [a \in kind.attrs |-> IF Configured(r, a) THEN config[r][a] ELSE Null]
  <2>1. row \in [kind.attrs -> Values \cup {Null}]
    BY ConfiguredValue
  <2>2. kind.attrs \in SUBSET Attributes
    BY KindFacts DEF Typed
  <2>3. row # NoState
    BY <2>1, <2>2, NullAssumption
  <2>4. Records(r, row, FALSE) /\ job[r] # NoJob /\ job[r].step = "created"
        /\ UNCHANGED <<kind, live, config>>
    BY <1>5 DEF ReadCreatedFails
  <2> HIDE DEF row
  <2> QED BY <1>3, <2>1, <2>3, <2>4
<1> QED BY <1>1, <1>2, <1>4, <1>5 DEF Create

LEMMA OthersTypes ==
    ASSUME Typed, NEW r \in Resources, Others(r)
    PROVE  Typed'
<1>1. CASE Refresh(r)
  <2>1. live[r] # Gone => live[r] \in Rows /\ live[r] # NoState /\ live[r] \in [kind.attrs -> Values \cup {Null}]
    BY RowFacts DEF Typed, Rows
  <2> QED BY <1>1, <2>1 DEF Refresh, Idle, Typed, Rows, Job
<1>2. CASE Import(r)
  <2>1. live[r] \in Rows /\ live[r] # NoState /\ live[r] \in [kind.attrs -> Values \cup {Null}]
    BY <1>2, RowFacts DEF Import, Typed, Rows
  <2> QED BY <1>2, <2>1 DEF Import, Idle, Typed, Rows, Job
<1>3. CASE Delete(r)
  BY <1>3 DEF Delete, Typed, Rows, Job
<1>4. CASE AdminDeletes(r)
  BY <1>4 DEF AdminDeletes, Interfered, Typed, Rows, Job
<1>5. ASSUME NEW c \in Configs, Configure(r, c) PROVE Typed'
  BY <1>5 DEF Configure, Interfered, Typed, Rows, Job
<1>6. ASSUME NEW row \in Rows, AdminSaves(r, row) PROVE Typed'
  <2>1. live' \in [Resources -> Rows \cup {Gone}]
    BY <1>6, PutFacts DEF AdminSaves
  <2> QED BY <1>6, <2>1 DEF AdminSaves, Interfered, Typed, Rows, Job
<1> QED BY <1>1, <1>2, <1>3, <1>4, <1>5, <1>6 DEF Others

LEMMA TypedStep == Typed /\ [Next]_vars => Typed'
<1>1. ASSUME Typed, UNCHANGED vars PROVE Typed'
  BY <1>1 DEF vars, Typed, Rows, Job
<1> QED BY <1>1, UpdateTypes, CreateTypes, OthersTypes DEF Next

LEMMA TurnsStep == Typed /\ Turns /\ [Next]_vars => Turns'
<1> SUFFICES ASSUME Typed, Turns, [Next]_vars, kind'.locked PROVE Turns'
  BY DEF Turns
<1>1. kind' = kind
  BY DEF Next, vars, Update, StartUpdate, ReadLive, Write, WriteFails, Verify, ReadFails, Create, Post,
         PostFails, ReadCreated, ReadCreatedFails, Others, Refresh, Import, Delete, Configure,
         AdminSaves, AdminDeletes
<1>2. CASE job' = job
  BY <1>1, <1>2 DEF Turns
<1>3. ASSUME NEW r \in Resources, LockFree(r) \/ job[r] # NoJob,
             \A q \in Resources \ {r} : job'[q] = job[q]
      PROVE  Turns'
  BY <1>1, <1>3 DEF Turns, LockFree
<1>4. ASSUME NEW r \in Resources, Update(r) PROVE Turns'
  <2>1. LockFree(r) \/ job[r] # NoJob
    BY <1>4 DEF Update, StartUpdate, ReadLive, Write, WriteFails, Verify, ReadFails
  <2>2. \A q \in Resources \ {r} : job'[q] = job[q]
    BY <1>4 DEF Typed, Update, StartUpdate, ReadLive, Write, WriteFails, Verify, ReadFails, Goes, Ends
  <2> QED BY <1>3, <2>1, <2>2
<1>5. ASSUME NEW r \in Resources, Create(r) PROVE Turns'
  <2>1. LockFree(r) \/ job[r] # NoJob
    BY <1>5 DEF Create, Post, PostFails, MayCreate, ReadCreated, ReadCreatedFails
  <2>2. \A q \in Resources \ {r} : job'[q] = job[q]
    BY <1>5 DEF Typed, Create, Post, PostFails, ReadCreated, ReadCreatedFails, Records, Goes, Ends
  <2> QED BY <1>3, <2>1, <2>2
<1> QED BY <1>2, <1>4, <1>5
        DEF Next, vars, Others, Refresh, Import, Delete, Configure, AdminSaves, AdminDeletes

\* Every collection, configuration and state is of its type, and contact labels are written
\* one at a time, whatever administrators do (the resource files, contactLabelWrites).
THEOREM RestTyping == Spec => []TypeOK
<1>1. Init => Typed /\ Turns
  BY InitInv DEF IInv
<1>2. Typed /\ Turns /\ [Next]_vars => (Typed /\ Turns)'
  BY TypedStep, TurnsStep
<1>3. Typed /\ Turns => TypeOK
  <2> SUFFICES ASSUME Typed, Turns PROVE TypeOK
    OBVIOUS
  <2>1. ASSUME kind.locked PROVE Cardinality({r \in Resources : job[r] # NoJob}) <= 1
    <3> DEFINE running == {r \in Resources : job[r] # NoJob}
    <3>1. running = {} \/ \E r \in running : running = {r}
      BY <2>1 DEF Turns
    <3> HIDE DEF running
    <3>2. Cardinality(running) <= 1
      <4>1. CASE running = {}
        BY <4>1, FS_EmptySet
      <4>2. ASSUME NEW r \in running, running = {r} PROVE Cardinality(running) <= 1
        <5>1. Cardinality({r}) = 1
          BY FS_Singleton
        <5> QED BY <4>2, <5>1
      <4> QED BY <3>1, <4>1, <4>2
    <3> QED BY <3>2 DEF running
  <2> QED BY <2>1 DEF Typed, TypeOK
<1> QED BY <1>1, <1>2, <1>3, PTL DEF Spec

---------------------------------------------------------------------------
(* Running calls *)

\* A call that does not move keeps its invariant while others write: they change its row
\* in the flag only, and not where writes take turns.
LEMMA Unmoved ==
    ASSUME IInv, NEW q \in Resources, job'[q] = job[q], succeeded'[q] => succeeded[q],
           job[q] # NoJob => UNCHANGED <<kind, config>> /\ (Undisturbed' => Undisturbed),
           job[q] # NoJob =>
              \/ live'[q] = live[q]
              \/ /\ ~kind.locked /\ (live'[q] = Gone <=> live[q] = Gone)
                 /\ \A a \in kind.attrs \ {"flag"} : live[q] # Gone => live'[q][a] = live[q][a]
    PROVE  JobInv(q)'
<1> SUFFICES ASSUME job[q] # NoJob PROVE JobInv(q)'
  BY DEF JobInv
<1>1. JobInv(q)
  BY DEF IInv
<1>2. CASE live'[q] = live[q]
  BY <1>1, <1>2 DEF JobInv, Configured, Keeps
<1>3. CASE /\ ~kind.locked /\ (live'[q] = Gone <=> live[q] = Gone)
           /\ \A a \in kind.attrs \ {"flag"} : live[q] # Gone => live'[q][a] = live[q][a]
  BY <1>1, <1>3 DEF JobInv, Configured, Keeps
<1> QED BY <1>2, <1>3

\* What one call writes, seen by the others.
LEMMA OthersUnmoved ==
    ASSUME IInv, NEW r \in Resources, LockFree(r) \/ job[r] # NoJob,
           UNCHANGED <<kind, config>>,
           live' = live \/ \E row \in Rows : live' = Put(r, row),
           NEW q \in Resources, q # r, job'[q] = job[q], succeeded'[q] = succeeded[q]
    PROVE  JobInv(q)'
<1>0. job[q] # NoJob => ~kind.locked /\ (Undisturbed' => Undisturbed)
  BY DEF IInv, Turns, LockFree, Undisturbed
<1>1. CASE live' = live
  BY <1>0, <1>1, Unmoved
<1>2. CASE \E row \in Rows : live' = Put(r, row)
  <2>1. PICK row \in Rows : live' = Put(r, row)
    BY <1>2
  <2>2. /\ live'[q] = Gone <=> live[q] = Gone
        /\ live[q] # Gone => \A a \in kind.attrs \ {"flag"} : live'[q][a] = live[q][a]
    BY <2>1, PutFacts DEF IInv
  <2> QED BY <1>0, <2>2, Unmoved
<1> QED BY <1>1, <1>2

LEMMA UpdateJobs ==
    ASSUME IInv, NEW r \in Resources, Update(r), NEW q \in Resources
    PROVE  JobInv(q)'
<1> USE DEF Goes, Ends
<1>0. Typed /\ JobInv(r)
  BY DEF IInv
<1>1. /\ LockFree(r) \/ job[r] # NoJob
      /\ UNCHANGED <<kind, config>>
      /\ job' = [job EXCEPT ![r] = job'[r]] /\ succeeded' = [succeeded EXCEPT ![r] = succeeded'[r]]
  BY <1>0 DEF Typed, Update, StartUpdate, ReadLive, Write, WriteFails, Verify, ReadFails
<1>2. live' = live \/ \E row \in Rows : live' = Put(r, row)
  BY <1>0, WroteFacts DEF Update, StartUpdate, ReadLive, Write, WriteFails, Verify, ReadFails
<1>3. CASE q # r
  <2>1. job'[q] = job[q] /\ succeeded'[q] = succeeded[q]
    BY <1>0, <1>1, <1>3 DEF Typed
  <2> QED BY <1>1, <1>2, <1>3, <2>1, OthersUnmoved
<1>4. CASE q = r
  <2>1. CASE job'[r] = NoJob
    BY <1>4, <2>1 DEF JobInv
  <2>2. CASE StartUpdate(r) /\ job'[r].step = "read"
    <3>1. ~succeeded'[r]
      BY <1>0, <2>2 DEF StartUpdate, Typed
    <3> QED BY <1>4, <2>2, <3>1 DEF JobInv
  <2>3. CASE StartUpdate(r) /\ job'[r].step # "read"
    <3>1. /\ \A a \in kind.kept : Configured(r, a)
          /\ job'[r] = [step |-> "write", body |-> Overlay(r, state[r])] /\ ~succeeded'[r]
      BY <1>0, <2>3 DEF StartUpdate, Typed
    <3>2. state[r] \in Rows
      BY <1>0, <2>3 DEF StartUpdate, Typed
    <3>3. \A a \in kind.attrs : Configured(r, a) => Overlay(r, state[r])[a] = config[r][a]
      BY <1>0, <3>2, OverlayFacts
    <3> QED BY <1>1, <1>4, <3>1, <3>3 DEF JobInv, Configured, Keeps
  <2>4. CASE ReadLive(r)
    <3>1. job'[r] = [step |-> "write", body |-> Overlay(r, live[r])] /\ ~succeeded'[r] /\ live' = live
      BY <1>0, <2>4 DEF ReadLive, Typed, JobInv
    <3>2. state[r] \in Rows /\ live[r] \in Rows
      BY <1>0, <2>4 DEF ReadLive, Typed
    <3>3. /\ \A a \in kind.attrs : Configured(r, a) => Overlay(r, live[r])[a] = config[r][a]
          /\ \A a \in kind.kept : ~Configured(r, a) => Overlay(r, live[r])[a] = live[r][a]
      BY <1>0, <3>2, OverlayFacts
    <3> QED BY <1>1, <1>4, <3>1, <3>3 DEF JobInv, Configured, Keeps
  <2>5. CASE Write(r) /\ job'[r] # NoJob
    <3>1. job[r].step = "write" /\ job[r] # NoJob /\ UNCHANGED succeeded
          /\ job'[r] = [step |-> "verify", body |-> job[r].body] /\ kind.verifies # "nothing"
      BY <1>0, <2>5 DEF Write, Typed
    <3> QED BY <1>0, <1>1, <1>4, <3>1 DEF JobInv, Configured
  <2>6. Verify(r) \/ ReadFails(r) \/ WriteFails(r) => job'[r] = NoJob
    BY <1>0 DEF Verify, ReadFails, WriteFails, Typed
  <2> QED BY <2>1, <2>2, <2>3, <2>4, <2>5, <2>6 DEF Update
<1> QED BY <1>3, <1>4

LEMMA CreateJobs ==
    ASSUME IInv, NEW r \in Resources, Create(r), NEW q \in Resources
    PROVE  JobInv(q)'
<1> USE DEF Goes, Ends
<1>0. Typed /\ JobInv(r)
  BY DEF IInv
<1>1. /\ LockFree(r) \/ job[r] # NoJob
      /\ UNCHANGED <<kind, config>>
      /\ job' = [job EXCEPT ![r] = job'[r]] /\ succeeded' = [succeeded EXCEPT ![r] = succeeded'[r]]
  BY <1>0 DEF Typed, Create, Post, PostFails, MayCreate, ReadCreated, ReadCreatedFails, Records
<1>2. live' = live \/ \E row \in Rows : live' = Put(r, row)
  BY <1>0, PostedFacts DEF Create, Post, PostFails, ReadCreated, ReadCreatedFails
<1>3. CASE q # r
  <2>1. job'[q] = job[q] /\ succeeded'[q] = succeeded[q]
    BY <1>0, <1>1, <1>3 DEF Typed
  <2> QED BY <1>1, <1>2, <1>3, <2>1, OthersUnmoved
<1>4. CASE q = r
  <2>1. CASE job'[r] = NoJob
    BY <1>4, <2>1 DEF JobInv
  <2>2. CASE Post(r) /\ job'[r] # NoJob
    <3>1. PICK new \in NewRows(r) :
             /\ job'[r] = [step |-> "created", body |-> new] /\ ~succeeded'[r]
             /\ kind.verifies # "nothing"
      BY <1>0, <2>2 DEF Post, Typed
    <3>2. \A a \in kind.attrs : Configured(r, a) => new[a] = config[r][a]
      BY <1>0, NewRowFacts
    <3> QED BY <1>1, <1>4, <3>1, <3>2 DEF JobInv, Configured
  <2>3. PostFails(r) \/ ReadCreated(r) \/ ReadCreatedFails(r) => job'[r] = NoJob
    BY <1>0 DEF PostFails, ReadCreated, ReadCreatedFails, Records, Typed
  <2> QED BY <2>1, <2>2, <2>3 DEF Create
<1> QED BY <1>3, <1>4

---------------------------------------------------------------------------
(* The invariant is inductive *)

\* A write by one block leaves another's default alone: it claims the flag only if its
\* configuration says so, or if the row has it already.
LEMMA DefaultKept ==
    ASSUME IInv, NEW r \in Resources, NEW row \in Rows, live' = Put(r, row),
           UNCHANGED <<kind, config>>,
           \A q \in Resources \ {r} : succeeded'[q] = succeeded[q],
           kind.locked =>
              /\ Configured(r, "flag") => row["flag"] = config[r]["flag"]
              /\ ~Configured(r, "flag") /\ Undisturbed =>
                    row["flag"] # 1 \/ (live[r] # Gone /\ live[r]["flag"] = 1)
    PROVE  DefaultStands'
<1> SUFFICES ASSUME kind.locked, NEW q \in Resources, succeeded'[q], config[q]["flag"] = 1,
                    \A s \in Resources \ {q} : config[s]["flag"] # 1
             PROVE  live'[q] # Gone /\ live'[q]["flag"] = 1
  BY DEF DefaultStands
<1>1. Typed /\ AtMostOneDefault(live) /\ "flag" \in kind.attrs
  BY KindFacts DEF IInv, Typed
<1>2. CASE q = r
  <2>1. Configured(r, "flag")
    BY <1>2, UnsetAssumption DEF Configured, Values
  <2> QED BY <1>1, <1>2, <2>1, PutFacts, RowFacts
<1>3. CASE q # r
  <2>1. live[q] # Gone /\ live[q]["flag"] = 1
    BY <1>3 DEF IInv, DefaultStands
  <2>2. row["flag"] # 1
    <3>1. Undisturbed
      BY <1>3 DEF Undisturbed
    <3> QED BY <1>1, <1>3, <2>1, <3>1 DEF AtMostOneDefault
  <2> QED BY <1>1, <1>3, <2>1, <2>2, PutFacts
<1> QED BY <1>2, <1>3

LEMMA DefaultUntouched ==
    ASSUME IInv, UNCHANGED <<kind, config, live>>,
           \A q \in Resources : succeeded'[q] => succeeded[q]
    PROVE  DefaultStands'
BY DEF IInv, DefaultStands

LEMMA UpdateDefault ==
    ASSUME IInv, NEW r \in Resources, Update(r)
    PROVE  DefaultStands' /\ AtMostOneDefault(live)'
<1> USE DEF Goes, Ends
<1>0. Typed /\ JobInv(r) /\ AtMostOneDefault(live)
  BY DEF IInv
<1>1. CASE Write(r) \/ WriteFails(r)
  <2>1. /\ job[r] # NoJob /\ job[r].step = "write" /\ UNCHANGED <<kind, config>>
        /\ \A q \in Resources \ {r} : succeeded'[q] = succeeded[q]
    BY <1>0, <1>1 DEF Write, WriteFails, Typed
  <2>2. CASE Wrote(r)
    <3>1. PICK row \in Rows : live' = Put(r, row) /\ (kind.verifies = "nothing" => row = job[r].body)
      BY <1>0, <2>1, <2>2, WroteFacts
    <3>2. ASSUME kind.locked
          PROVE  /\ Configured(r, "flag") => row["flag"] = config[r]["flag"]
                 /\ ~Configured(r, "flag") /\ Undisturbed =>
                       row["flag"] # 1 \/ (live[r] # Gone /\ live[r]["flag"] = 1)
      <4>1. row = job[r].body /\ "flag" \in kind.kept /\ "flag" \in kind.attrs /\ live[r] # Gone
        BY <1>0, <2>2, <3>1, <3>2, KindFacts DEF Typed, Wrote
      <4> QED BY <1>0, <2>1, <3>2, <4>1 DEF JobInv, Keeps
    <3> QED BY <2>1, <3>1, <3>2, DefaultKept, OneDefault
  <2>3. CASE UNCHANGED live /\ WriteFails(r)
    <3>1. \A q \in Resources : succeeded'[q] => succeeded[q]
      BY <1>0, <2>3 DEF WriteFails, Typed
    <3> QED BY <1>0, <2>1, <2>3, <3>1, DefaultUntouched DEF AtMostOneDefault
  <2> QED BY <1>1, <2>2, <2>3 DEF Write, WriteFails
<1>2. CASE StartUpdate(r) \/ ReadLive(r) \/ Verify(r) \/ ReadFails(r)
  <2>1. UNCHANGED <<kind, config, live>>
    BY <1>2 DEF StartUpdate, ReadLive, Verify, ReadFails
  <2>2. DefaultStands'
    <3>1. CASE Verify(r)
      <4>1. ~kind'.locked
        BY <1>0, <2>1, <3>1, KindFacts DEF Verify, JobInv, Typed
      <4> QED BY <4>1 DEF DefaultStands
    <3>2. CASE ~Verify(r)
      <4>1. \A q \in Resources : succeeded'[q] => succeeded[q]
        BY <1>0, <1>2, <3>2 DEF StartUpdate, ReadLive, ReadFails, Typed
      <4> QED BY <2>1, <4>1, DefaultUntouched
    <3> QED BY <3>1, <3>2
  <2> QED BY <1>0, <2>1, <2>2 DEF AtMostOneDefault
<1> QED BY <1>1, <1>2 DEF Update

LEMMA CreateDefault ==
    ASSUME IInv, NEW r \in Resources, Create(r)
    PROVE  DefaultStands' /\ AtMostOneDefault(live)'
<1> USE DEF Goes, Ends
<1>0. Typed /\ JobInv(r) /\ AtMostOneDefault(live)
  BY DEF IInv
<1>1. ASSUME Post(r) \/ PostFails(r), NEW new \in NewRows(r), Posted(r, new)
      PROVE  DefaultStands' /\ AtMostOneDefault(live)'
  <2>1. UNCHANGED <<kind, config>> /\ \A q \in Resources \ {r} : succeeded'[q] = succeeded[q]
    BY <1>0, <1>1 DEF Post, PostFails, Typed
  <2>2. PICK row \in Rows : live' = Put(r, row) /\ (kind.verifies = "nothing" => row = new)
    BY <1>0, <1>1, PostedFacts
  <2>3. ASSUME kind.locked
        PROVE  /\ Configured(r, "flag") => row["flag"] = config[r]["flag"]
               /\ ~Configured(r, "flag") => row["flag"] # 1
    <3>1. row = new /\ "flag" \in kind.attrs
      BY <1>0, <2>2, <2>3, KindFacts DEF Typed
    <3> QED BY <1>0, <1>1, <3>1, NewRowFacts
  <2> QED BY <2>1, <2>2, <2>3, DefaultKept, OneDefault
<1>2. CASE PostFails(r) /\ UNCHANGED live
  <2>1. UNCHANGED <<kind, config, live>> /\ \A q \in Resources : succeeded'[q] => succeeded[q]
    BY <1>0, <1>2 DEF PostFails, Typed
  <2> QED BY <1>0, <2>1, DefaultUntouched DEF AtMostOneDefault
<1>3. CASE ReadCreated(r) \/ ReadCreatedFails(r)
  <2>1. UNCHANGED <<kind, config, live>>
    BY <1>3 DEF ReadCreated, ReadCreatedFails
  <2>2. ~kind'.locked
    BY <1>0, <1>3, <2>1, KindFacts DEF ReadCreated, ReadCreatedFails, JobInv, Typed
  <2> QED BY <1>0, <2>1, <2>2 DEF DefaultStands, AtMostOneDefault
<1> QED BY <1>1, <1>2, <1>3 DEF Create, Post, PostFails

LEMMA OthersInv ==
    ASSUME IInv, NEW r \in Resources, Others(r)
    PROVE  /\ \A q \in Resources : JobInv(q)'
           /\ AtMostOneDefault(live)' /\ DefaultStands'
<1>0. Typed /\ AtMostOneDefault(live)
  BY DEF IInv
<1>1. ASSUME UNCHANGED <<kind, config, live, job>>,
             \A q \in Resources : succeeded'[q] => succeeded[q]
      PROVE  /\ \A q \in Resources : JobInv(q)'
             /\ AtMostOneDefault(live)' /\ DefaultStands'
  <2>1. Undisturbed' => Undisturbed
    BY <1>1 DEF Undisturbed
  <2> QED BY <1>0, <1>1, <2>1, Unmoved, DefaultUntouched DEF AtMostOneDefault
<1>2. CASE Refresh(r) \/ Import(r) \/ Delete(r)
  BY <1>0, <1>1, <1>2 DEF Refresh, Import, Delete, Typed
<1>3. ASSUME Idle \/ (AdminsDuringApply /\ UNCHANGED config),
             Interfered, UNCHANGED <<kind, job>>, AtMostOneDefault(live)'
      PROVE  /\ \A q \in Resources : JobInv(q)'
             /\ AtMostOneDefault(live)' /\ DefaultStands'
  <2>1. ~Idle => ~Undisturbed'
    BY <1>3 DEF Interfered, Undisturbed
  <2>2. ASSUME NEW q \in Resources PROVE JobInv(q)'
    BY <1>3, <2>1 DEF IInv, Idle, Interfered, JobInv, Configured
  <2> QED BY <1>3, <2>2 DEF Interfered, DefaultStands
<1>4. CASE AdminDeletes(r)
  <2>1. \A q \in Resources : live'[q] # Gone => live[q] # Gone /\ live'[q] = live[q]
    BY <1>0, <1>4 DEF AdminDeletes, Typed
  <2> QED BY <1>0, <1>3, <1>4, <2>1 DEF AdminDeletes, AtMostOneDefault
<1>5. ASSUME NEW c \in Configs, Configure(r, c) PROVE
             /\ \A q \in Resources : JobInv(q)'
             /\ AtMostOneDefault(live)' /\ DefaultStands'
  BY <1>0, <1>3, <1>5 DEF Configure, AtMostOneDefault
<1>6. ASSUME NEW row \in Rows, AdminSaves(r, row) PROVE
             /\ \A q \in Resources : JobInv(q)'
             /\ AtMostOneDefault(live)' /\ DefaultStands'
  BY <1>3, <1>6, OneDefault DEF AdminSaves
<1> QED BY <1>2, <1>4, <1>5, <1>6 DEF Others

LEMMA InvStep == IInv /\ [Next]_vars => IInv'
<1> SUFFICES ASSUME IInv, [Next]_vars PROVE IInv'
  OBVIOUS
<1>1. Typed' /\ Turns'
  BY TypedStep, TurnsStep DEF IInv
<1>2. /\ \A q \in Resources : JobInv(q)'
      /\ AtMostOneDefault(live)' /\ DefaultStands'
  <2>1. ASSUME UNCHANGED vars
        PROVE  (\A q \in Resources : JobInv(q)') /\ AtMostOneDefault(live)' /\ DefaultStands'
    <3>1. Undisturbed' <=> Undisturbed
      BY <2>1 DEF vars, Undisturbed
    <3>2. \A q \in Resources : JobInv(q)'
      BY <2>1, <3>1, Unmoved DEF vars
    <3> QED BY <2>1, <3>2, DefaultUntouched DEF vars, IInv, AtMostOneDefault
  <2> QED BY <2>1, UpdateJobs, CreateJobs, UpdateDefault, CreateDefault, OthersInv DEF Next
<1> QED BY <1>1, <1>2 DEF IInv

LEMMA Invariance == Spec => []IInv
<1>1. IInv /\ [Next]_vars => IInv'
  BY InvStep
<1> QED BY <1>1, InitInv, PTL DEF Spec

---------------------------------------------------------------------------
(* The properties of the run *)

\* However many labels an apply creates and updates in parallel, and whatever administrators
\* write meanwhile, one that it made the default stays it until somebody outside changes
\* something (contactLabelWrites).
THEOREM DefaultIsKept == Spec => []DefaultStands
<1>1. IInv => DefaultStands
  BY DEF IInv
<1> QED BY <1>1, Invariance, PTL

\* No Update undoes what administrators set in an attribute that is not configured and that
\* the code asks ChurchTools for, of any kind (Update of db_field, contact_label, role).
THEOREM UnmanagedIsKept ==
    ASSUME AdminsDuringApply = FALSE
    PROVE  Spec => UnmanagedStands
<1> DEFINE Step == \A r \in Resources :
          /\ job[r] # NoJob /\ job[r].step # "created"
          /\ live[r] # Gone /\ live'[r] # Gone
          /\ job'[r] # job[r]
          => \A a \in kind.kept \ (IF kind.locked THEN {} ELSE {"flag"}) :
                ~Configured(r, a) => live'[r][a] = live[r][a]
<1>1. IInv /\ [Next]_vars => Step
  <2> SUFFICES ASSUME IInv, [Next]_vars, NEW r \in Resources,
                      job[r] # NoJob, job[r].step # "created",
                      live[r] # Gone, job'[r] # job[r],
                      NEW a \in kind.kept \ (IF kind.locked THEN {} ELSE {"flag"}),
                      ~Configured(r, a)
               PROVE  live'[r][a] = live[r][a]
    OBVIOUS
  <2>1. Typed /\ JobInv(r) /\ Keeps(a) /\ a \in kind.attrs
    BY KindFacts DEF IInv, Keeps, Typed
  <2>2. Update(r)
    <3>1. \A q \in Resources \ {r} : ~Update(q) /\ ~Create(q)
      BY <2>1 DEF Typed, Update, StartUpdate, ReadLive, Write, WriteFails, Verify, ReadFails, Create,
                  Post, PostFails, ReadCreated, ReadCreatedFails, Records, Goes, Ends
    <3>2. \A q \in Resources : ~Others(q)
      BY DEF Others, Refresh, Import, Delete, Configure, AdminSaves, AdminDeletes
    <3>3. ~Create(r)
      BY DEF Create, Post, PostFails, MayCreate, ReadCreated, ReadCreatedFails
    <3> QED BY <3>1, <3>2, <3>3 DEF Next, vars
  <2>3. CASE (Write(r) \/ WriteFails(r)) /\ Wrote(r)
    <3>1. PICK row \in Rows : /\ live' = Put(r, row)
                              /\ row[a] \in {live[r][a], job[r].body[a]}
      BY <2>1, <2>3, WroteFacts
    <3>2. job[r].body[a] = live[r][a]
      BY <2>1, <2>3 DEF Write, WriteFails, JobInv, Undisturbed
    <3> QED BY <2>1, <3>1, <3>2, PutFacts
  <2>4. CASE UNCHANGED live
    BY <2>4
  <2> QED BY <2>2, <2>3, <2>4
          DEF Update, StartUpdate, ReadLive, Write, WriteFails, Verify, ReadFails
<1> QED BY <1>1, Invariance, PTL DEF Spec, UnmanagedStands

\* A success that was read back is true, whatever ChurchTools keeps of its old values and
\* whoever writes at the same time
\* (readBack, the loops over the compared fields).
THEOREM SuccessIsReadBack == Spec => SuccessMeansStored
<1> DEFINE Step == \A r \in Resources :
          /\ kind.verifies # "nothing"
          /\ job[r] # NoJob /\ succeeded'[r]
          => /\ state'[r] = live'[r]
             /\ \A a \in kind.attrs : Configured(r, a) => live'[r][a] = config[r][a]
<1>1. IInv /\ [Next]_vars => Step
  <2> SUFFICES ASSUME IInv, [Next]_vars, NEW r \in Resources,
                      kind.verifies # "nothing", job[r] # NoJob, succeeded'[r]
               PROVE  /\ state'[r] = live'[r]
                      /\ \A a \in kind.attrs : Configured(r, a) => live'[r][a] = config[r][a]
    OBVIOUS
  <2>1. Typed /\ JobInv(r) /\ ~succeeded[r]
    BY DEF IInv, JobInv
  <2>2. Verify(r) \/ ReadCreated(r)
    <3>1. \A q \in Resources \ {r} : ~Update(q) /\ ~Create(q)
      BY <2>1 DEF Typed, Update, StartUpdate, ReadLive, Write, WriteFails, Verify, ReadFails, Create,
                  Post, PostFails, ReadCreated, ReadCreatedFails, Records, Goes, Ends
    <3>2. \A q \in Resources : ~Others(q)
      BY <2>1 DEF Typed, Others, Refresh, Import, Delete, Configure, AdminSaves, AdminDeletes, Interfered
    <3>3. Update(r) => Verify(r)
      BY <2>1 DEF Typed, Update, StartUpdate, ReadLive, Write, WriteFails, ReadFails, Goes, Ends
    <3>4. Create(r) => ReadCreated(r)
      BY <2>1 DEF Typed, Create, Post, PostFails, MayCreate, ReadCreatedFails, Records, Goes, Ends
    <3> QED BY <2>1, <3>1, <3>2, <3>3, <3>4 DEF Next, vars
  <2>3. AsSent(r, live[r]) /\ state'[r] = live[r] /\ live' = live
    <3>1. CASE Verify(r)
      BY <2>1, <3>1 DEF Typed, Verify, Ends
    <3>2. CASE ReadCreated(r)
      BY <2>1, <3>2 DEF Typed, ReadCreated, Records, Ends
    <3> QED BY <2>2, <3>1, <3>2
  <2>4. \A a \in kind.attrs : Configured(r, a) => live[r][a] = job[r].body[a]
    BY <2>3 DEF AsSent, Compared
  <2>5. \A a \in kind.attrs : Configured(r, a) => job[r].body[a] = config[r][a]
    BY <2>1, <2>2 DEF JobInv, Verify, ReadCreated
  <2> QED BY <2>3, <2>4, <2>5
<1> QED BY <1>1, Invariance, PTL DEF Spec, SuccessMeansStored

=============================================================================
