----------------------------- MODULE PacerProofs -----------------------------
(***************************************************************************)
(* Proofs about Pacer, for any set of exchanges, any slots and pauses and    *)
(* all budgets.                                                              *)
(***************************************************************************)
EXTENDS Pacer, TLAPS

USE DEF vars, pacerVars, loopVars, hostVars

\* The inputs of Max and Min are pairs of times.
LEMMA MaxOfPair ==
    ASSUME NEW m \in Nat, NEW n \in Nat
    PROVE  Max({m, n}) = IF m >= n THEN m ELSE n
<1>1. \E x \in {m, n} : \A y \in {m, n} : x >= y
  <2>1. CASE m >= n
    BY <2>1
  <2>2. CASE n >= m
    BY <2>2
  <2> QED BY <2>1, <2>2
<1>2. Max({m, n}) \in {m, n} /\ \A y \in {m, n} : Max({m, n}) >= y
  BY <1>1 DEF Max
<1> QED BY <1>2

LEMMA MinOfPair ==
    ASSUME NEW m \in Nat, NEW n \in Nat
    PROVE  Min({m, n}) = IF m <= n THEN m ELSE n
<1>1. \E x \in {m, n} : \A y \in {m, n} : x <= y
  <2>1. CASE m >= n
    BY <2>1
  <2>2. CASE n >= m
    BY <2>2
  <2> QED BY <2>1, <2>2
<1>2. Min({m, n}) \in {m, n} /\ \A y \in {m, n} : Min({m, n}) <= y
  BY <1>1 DEF Min
<1> QED BY <1>2

LEMMA BudgetTypes ==
    ASSUME NEW r \in Requests
    PROVE  Budget(r) \in Nat \ {0} /\ MaxTries(r) \in Nat
BY BudgetsAssumption DEF Budget, MaxTries

---------------------------------------------------------------------------
(* Types *)

LEMMA TypeInit == Init => TypeOK
BY TimesAssumption, BudgetsAssumption DEF Init, TypeOK

LEMMA TypeStep == TypeOK /\ [Next]_vars => TypeOK'
<1> SUFFICES ASSUME TypeOK, [Next]_vars PROVE TypeOK'
  OBVIOUS
<1> USE TimesAssumption, BudgetsAssumption DEF TypeOK
<1>0. interval \in Nat
  OBVIOUS
<1>1. ASSUME NEW r \in Requests, ClaimSlot(r)
      PROVE  timer' \in [Requests -> Nat] /\ nextStart' \in Nat
             /\ pc' \in [Requests -> {"idle", "again", "slot", "go", "sent", "backoff", "done"}]
  <2>1. FirstSlot \in Nat
    BY MaxOfPair DEF FirstSlot
  <2> QED BY <1>0, <1>1, <2>1 DEF ClaimSlot
<1>2. ASSUME NEW d \in PauseLengths, PauseFor(d)
      PROVE  pausedUntil' \in Nat /\ asked' \in Nat /\ caught' \in SUBSET Requests
  <2>1. d \in Nat
    OBVIOUS
  <2> QED BY <1>2, <2>1, MaxOfPair DEF PauseFor, LongerPause
<1>3. ASSUME NEW r, Carried(r) PROVE applied' \in [Posts -> Nat]
  BY <1>3 DEF Carried
<1>4. ASSUME NEW r \in Requests, Wait(r) PROVE TypeOK'
  BY <1>1, <1>4 DEF Wait
<1>5. ASSUME NEW r \in Requests, Wake(r) PROVE TypeOK'
  BY <1>1, <1>5 DEF Wake
<1>6. ASSUME NEW r \in Requests, SendNow(r) PROVE TypeOK'
  <2>1. Min({tries[r] + 1, MaxTries(r) + 1}) \in Nat
    BY BudgetTypes, MinOfPair
  <2> QED BY <1>0, <1>6, <2>1 DEF SendNow
<1>7. ASSUME NEW r \in Requests, Answered(r) \/ Failed(r) PROVE TypeOK'
  BY <1>3, <1>7 DEF Answered, Failed, Finish
<1>8. ASSUME NEW r \in Requests, Conflict(r) PROVE TypeOK'
  <2>1. applied' \in [Posts -> Nat]
    BY <1>3, <1>8 DEF Conflict
  <2>2. CASE Resendable(r)
    BY <1>8, <2>1, <2>2 DEF Conflict, Resendable, AfterConflict
  <2>3. CASE ~Resendable(r)
    BY <1>8, <2>1, <2>3 DEF Conflict, Finish
  <2> QED BY <2>2, <2>3
<1>9. ASSUME NEW r \in Requests, NEW d \in PauseLengths, Throttled(r, d) PROVE TypeOK'
  BY <1>2, <1>9 DEF Throttled, Finish
<1>10. ASSUME NEW r \in Requests, NEW d \in PauseLengths, LoginThrottled(r, d) PROVE TypeOK'
  BY <1>2, <1>10 DEF LoginThrottled, Finish
<1>11. ASSUME NEW r \in Requests, BackoffEnds(r) PROVE TypeOK'
  BY <1>11 DEF BackoffEnds
<1>12. ASSUME NEW r \in Requests, Cancel(r) PROVE TypeOK'
  BY <1>3, <1>12 DEF Cancel, Finish
<1>13. CASE Tick
  <2>1. sinceStart' \in 0..interval
    BY <1>0, <1>13, MinOfPair DEF Tick
  <2> QED BY <1>13, <2>1 DEF Tick, CountDown
<1>14. CASE UNCHANGED vars
  BY <1>14
<1> QED BY <1>4, <1>5, <1>6, <1>7, <1>8, <1>9, <1>10, <1>11, <1>12, <1>13, <1>14
        DEF Next, Answer, Terminated

\* Every reachable pacer, queue of exchanges and counter is of its type (pacer.go).
THEOREM PacerTyping == Spec => []TypeOK
BY TypeInit, TypeStep, PTL DEF Spec

---------------------------------------------------------------------------
(* What is carried out, and the two budgets *)

\* A POST that has not returned has not been carried out.
NotYetCarried == \A p \in Posts : applied[p] <= 1 /\ (pc[p] # "done" => applied[p] = 0)

\* The loop counts every try, either as a 429 or as a conflict, and the two counters stay
\* within budgets of their own.
Accounted(r) ==
    /\ attempt[r] < Budget(r)
    /\ conflicts[r] <= IF r \in Idempotent THEN Conflicts ELSE 0
    /\ pc[r] = "sent" => tries[r] = attempt[r] + conflicts[r] + 1
    /\ pc[r] \notin {"sent", "done"} => tries[r] = attempt[r] + conflicts[r]
    /\ tries[r] <= MaxTries(r)
    /\ result[r] = "limited" => pc[r] = "done" /\ tries[r] = Budget(r) + conflicts[r]

IInv == TypeOK /\ NotYetCarried /\ \A r \in Requests : Accounted(r)

LEMMA InitInv == Init => IInv
<1> SUFFICES ASSUME Init PROVE IInv
  OBVIOUS
<1>1. NotYetCarried
  BY DEF Init, NotYetCarried
<1>2. ASSUME NEW r \in Requests PROVE Accounted(r)
  BY BudgetTypes, BudgetsAssumption DEF Init, Accounted
<1> QED BY <1>1, <1>2, TypeInit DEF IInv

\* A step of one exchange leaves the counters of the others alone.
LEMMA OthersAccounted ==
    ASSUME IInv, NEW r \in Requests,
           pc'[r] = pc[r], attempt'[r] = attempt[r], conflicts'[r] = conflicts[r],
           tries'[r] = tries[r], result'[r] = result[r]
    PROVE  Accounted(r)'
BY DEF IInv, Accounted, Budget, MaxTries

\* The counters of the exchange that takes the step.
LEMMA OwnAccounted ==
    ASSUME IInv, NEW r \in Requests,
           \/ Wait(r) \/ Wake(r) \/ SendNow(r) \/ BackoffEnds(r) \/ Cancel(r)
           \/ Answered(r) \/ Failed(r) \/ Conflict(r)
           \/ \E d \in PauseLengths : Throttled(r, d) \/ LoginThrottled(r, d)
    PROVE  Accounted(r)'
<1> USE BudgetsAssumption DEF Accounted, Budget, MaxTries
<1>1. /\ Accounted(r) /\ attempt[r] \in Nat /\ conflicts[r] \in Nat /\ tries[r] \in Nat
      /\ TypeOK
  BY DEF IInv, TypeOK
<1> USE DEF TypeOK
<1>2. CASE Wait(r) \/ Wake(r) \/ BackoffEnds(r)
  BY <1>1, <1>2 DEF Wait, Wake, BackoffEnds, ClaimSlot
<1>3. CASE SendNow(r)
  <2>1. tries[r] + 1 <= MaxTries(r) + 1
    BY <1>1
  <2>2. Min({tries[r] + 1, MaxTries(r) + 1}) = tries[r] + 1
    BY <1>1, <2>1, BudgetTypes, MinOfPair
  <2>3. /\ pc[r] = "go" /\ pc'[r] = "sent" /\ tries'[r] = tries[r] + 1
        /\ UNCHANGED <<attempt, conflicts, result>>
    BY <1>1, <1>3, <2>2 DEF SendNow
  <2> QED BY <1>1, <2>3
<1>4. CASE Answered(r) \/ Failed(r) \/ Cancel(r)
  <2>1. /\ pc'[r] = "done" /\ result'[r] \in {"ok", "failed", "cancelled"}
        /\ UNCHANGED <<attempt, conflicts, tries>>
    BY <1>1, <1>4 DEF Answered, Failed, Cancel, Finish
  <2> QED BY <1>1, <2>1
<1>5. CASE Conflict(r)
  <2>1. pc[r] = "sent" /\ UNCHANGED tries
    BY <1>5 DEF Conflict
  <2>2. CASE Resendable(r)
    <3>1. /\ conflicts'[r] = conflicts[r] + 1 /\ attempt'[r] = attempt[r]
          /\ pc'[r] = "backoff" /\ UNCHANGED result
      BY <1>1, <1>5, <2>2 DEF Conflict, AfterConflict
    <3> QED BY <1>1, <2>1, <2>2, <3>1 DEF Resendable
  <2>3. CASE ~Resendable(r)
    <3>1. pc'[r] = "done" /\ result'[r] = "failed" /\ UNCHANGED <<conflicts, attempt>>
      BY <1>1, <1>5, <2>3 DEF Conflict, Finish
    <3> QED BY <1>1, <2>1, <3>1
  <2> QED BY <2>2, <2>3
<1>6. CASE \E d \in PauseLengths : Throttled(r, d)
  <2>1. /\ r \notin Logins /\ pc[r] = "sent" /\ UNCHANGED <<conflicts, tries>>
        /\ \/ /\ attempt[r] >= Retries /\ pc'[r] = "done" /\ result'[r] = "limited"
              /\ UNCHANGED attempt
           \/ /\ attempt[r] < Retries /\ attempt'[r] = attempt[r] + 1 /\ pc'[r] = "again"
              /\ UNCHANGED result
    BY <1>1, <1>6 DEF Throttled, Finish
  <2> QED BY <1>1, <2>1
<1>7. CASE \E d \in PauseLengths : LoginThrottled(r, d)
  <2>1. /\ r \in Logins /\ pc[r] = "sent" /\ UNCHANGED <<conflicts, tries>>
        /\ \/ /\ attempt[r] + 1 >= LoginAttempts /\ pc'[r] = "done" /\ result'[r] = "limited"
              /\ UNCHANGED attempt
           \/ /\ attempt[r] + 1 < LoginAttempts /\ attempt'[r] = attempt[r] + 1
              /\ pc'[r] = "backoff" /\ UNCHANGED result
    BY <1>1, <1>7 DEF LoginThrottled, Finish
  <2> QED BY <1>1, <2>1
<1> QED BY <1>2, <1>3, <1>4, <1>5, <1>6, <1>7

\* Only the exchange that ends carries out its POST: one that is resent is no POST.
LEMMA CarriedOnce ==
    ASSUME IInv, NEW r \in Requests,
           \/ Wait(r) \/ Wake(r) \/ SendNow(r) \/ BackoffEnds(r) \/ Cancel(r)
           \/ Answered(r) \/ Failed(r) \/ Conflict(r)
           \/ \E d \in PauseLengths : Throttled(r, d) \/ LoginThrottled(r, d)
    PROVE  NotYetCarried'
<1> USE DEF IInv, TypeOK, NotYetCarried
<1>1. CASE UNCHANGED applied /\ pc[r] # "done"
  <2>1. \A q \in Requests \ {r} : pc'[q] = pc[q]
    BY DEF Wait, Wake, SendNow, BackoffEnds, Cancel, Answered, Failed, Conflict, Throttled,
           LoginThrottled, ClaimSlot, Finish
  <2> QED BY <1>1, <2>1 DEF Requests
<1>2. CASE Carried(r) /\ pc[r] = "sent"
  <2>1. CASE r \notin Posts
    <3>1. UNCHANGED applied
      BY <1>2, <2>1 DEF Carried
    <3> QED BY <1>1, <1>2, <3>1
  <2>2. CASE r \in Posts
    <3>1. pc' = [pc EXCEPT ![r] = "done"]
      <4>1. r \notin Idempotent /\ r \notin Logins /\ applied'[r] # applied[r]
        BY <1>2, <2>2, RequestsAssumption DEF Carried
      <4>2. \A d \in PauseLengths : ~Throttled(r, d) /\ ~LoginThrottled(r, d)
        BY <4>1 DEF Throttled, LoginThrottled
      <4>3. Cancel(r) \/ Answered(r) \/ Failed(r) \/ Conflict(r)
        BY <1>2, <4>2 DEF Wait, Wake, SendNow, BackoffEnds
      <4> QED BY <4>1, <4>3 DEF Cancel, Answered, Failed, Conflict, Resendable, Finish
    <3> QED BY <1>2, <3>1 DEF Carried, Requests
  <2> QED BY <2>1, <2>2
<1> QED BY <1>1, <1>2
        DEF Wait, Wake, SendNow, BackoffEnds, Cancel, Answered, Failed, Conflict, Throttled,
            LoginThrottled

LEMMA InvStep == IInv /\ [Next]_vars => IInv'
<1> SUFFICES ASSUME IInv, [Next]_vars PROVE IInv'
  OBVIOUS
<1>1. TypeOK /\ TypeOK'
  BY TypeStep DEF IInv
<1>2. CASE UNCHANGED <<pc, attempt, conflicts, tries, result, applied>>
  BY <1>1, <1>2, OthersAccounted DEF IInv, NotYetCarried
<1>3. ASSUME NEW r \in Requests,
             \/ Wait(r) \/ Wake(r) \/ SendNow(r) \/ BackoffEnds(r) \/ Cancel(r)
             \/ Answered(r) \/ Failed(r) \/ Conflict(r)
             \/ \E d \in PauseLengths : Throttled(r, d) \/ LoginThrottled(r, d)
      PROVE  IInv'
  <2>1. ASSUME NEW q \in Requests, q # r PROVE Accounted(q)'
    <3>1. /\ pc'[q] = pc[q] /\ attempt'[q] = attempt[q] /\ conflicts'[q] = conflicts[q]
          /\ tries'[q] = tries[q] /\ result'[q] = result[q]
      BY <1>1, <1>3, <2>1
         DEF TypeOK, Wait, Wake, SendNow, BackoffEnds, Cancel, Answered, Failed, Conflict,
             Throttled, LoginThrottled, ClaimSlot, Finish
    <3> QED BY <3>1, OthersAccounted
  <2>2. Accounted(r)' /\ NotYetCarried'
    BY <1>3, OwnAccounted, CarriedOnce
  <2> QED BY <1>1, <2>1, <2>2 DEF IInv
<1> QED BY <1>2, <1>3 DEF Next, Answer, Tick, Terminated

LEMMA Invariance == Spec => []IInv
BY InitInv, InvStep, PTL DEF Spec

\* No POST is carried out twice, however many conflicts and 429s the host answers with
\* (resendable, send).
THEOREM PostsAppliedOnce == Spec => []PostAppliedOnce
<1>1. IInv => PostAppliedOnce
  BY DEF IInv, NotYetCarried, PostAppliedOnce
<1> QED BY <1>1, Invariance, PTL

\* The two budgets of send() are kept apart, whatever they are (attempt--, pacer.go).
THEOREM BudgetsKept == Spec => []RetryBudgets
<1>1. IInv => RetryBudgets
  BY DEF IInv, Accounted, RetryBudgets
<1> QED BY <1>1, Invariance, PTL

---------------------------------------------------------------------------
(* The slots and the pause *)

\* An exchange that holds a slot, and the time left to it.
Pending(r) == pc[r] \in {"slot", "go"}

At(r) == IF pc[r] = "slot" THEN timer[r] ELSE 0

\* All slots, those to come and the last one used, lie an interval apart, and a pause is
\* known to whoever has yet to return from wait().
Spaced ==
    /\ sinceStart + nextStart >= interval
    /\ \A r \in Requests : Pending(r) =>
          /\ At(r) + interval <= nextStart
          /\ sinceStart + At(r) >= interval
    /\ \A r, q \in Requests : Pending(r) /\ Pending(q) /\ r # q =>
          At(r) >= At(q) + interval \/ At(q) >= At(r) + interval

Silent ==
    /\ asked <= pausedUntil
    /\ \A r \in Requests : pc[r] = "go" => asked = 0 \/ r \in caught

TInv == TypeOK /\ Spaced /\ Silent

LEMMA TInvInit == Init => TInv
BY TypeInit, TimesAssumption DEF Init, TInv, Spaced, Silent, Pending, TypeOK

\* A claim takes the first slot that is free.
LEMMA SlotClaimed ==
    ASSUME TInv, NEW r \in Requests, ClaimSlot(r), UNCHANGED <<interval, sinceStart>>
    PROVE  Spaced'
<1>1. FirstSlot \in Nat /\ FirstSlot >= nextStart
  <2>1. nextStart \in Nat /\ pausedUntil \in Nat
    BY DEF TInv, TypeOK
  <2> QED BY <2>1, MaxOfPair DEF FirstSlot
<1>2. interval \in Nat /\ sinceStart \in Nat /\ nextStart \in Nat
  BY TimesAssumption DEF TInv, TypeOK
<1>3. /\ nextStart' = FirstSlot + interval /\ Pending(r)' /\ At(r)' = FirstSlot
      /\ \A q \in Requests \ {r} : (Pending(q)' <=> Pending(q)) /\ At(q)' = At(q)
  BY DEF ClaimSlot, TInv, TypeOK, Pending, At
<1>4. \A q \in Requests : At(q) \in Nat
  BY DEF At, TInv, TypeOK
<1> QED BY <1>1, <1>2, <1>3, <1>4 DEF TInv, Spaced

\* A step that claims nothing and sends nothing keeps what has been claimed.
LEMMA SlotsKept ==
    ASSUME TInv, UNCHANGED <<interval, nextStart, sinceStart>>,
           \A r \in Requests : Pending(r)' => Pending(r) /\ At(r)' = At(r)
    PROVE  Spaced'
BY DEF TInv, Spaced

LEMMA PauseHeard ==
    ASSUME TInv, NEW d \in PauseLengths, PauseFor(d),
           \A r \in Requests : pc'[r] = "go" => pc[r] = "go"
    PROVE  Silent'
<1>1. d \in Nat /\ asked \in Nat /\ pausedUntil \in Nat
  BY TimesAssumption DEF TInv, TypeOK
<1>2. asked' = (IF asked >= d THEN asked ELSE d) /\ pausedUntil' = (IF d >= pausedUntil THEN d ELSE pausedUntil)
  BY <1>1, MaxOfPair DEF PauseFor, LongerPause
<1> QED BY <1>1, <1>2 DEF PauseFor, TInv, Silent

LEMMA TInvStep == TInv /\ [Next]_vars => TInv'
<1> SUFFICES ASSUME TInv, [Next]_vars PROVE TInv'
  OBVIOUS
<1>0. TypeOK /\ TypeOK'
  BY TypeStep DEF TInv
<1>1. interval \in Nat /\ sinceStart \in Nat
  BY <1>0, TimesAssumption DEF TypeOK
<1>2. ASSUME UNCHANGED <<asked, pausedUntil, caught>>,
             \A r \in Requests : pc'[r] = "go" => pc[r] = "go"
      PROVE  Silent'
  BY <1>2 DEF TInv, Silent
<1>3. ASSUME NEW r \in Requests, Wait(r) PROVE TInv'
  <2>1. Spaced'
    BY <1>3, SlotClaimed DEF Wait
  <2>2. Silent'
    BY <1>0, <1>2, <1>3 DEF Wait, ClaimSlot, TypeOK
  <2> QED BY <1>0, <2>1, <2>2 DEF TInv
<1>4. ASSUME NEW r \in Requests, Wake(r) PROVE TInv'
  <2>1. CASE Paused /\ ClaimSlot(r)
    <3>1. Spaced'
      BY <1>4, <2>1, SlotClaimed DEF Wake
    <3>2. Silent'
      BY <1>0, <1>2, <1>4, <2>1 DEF Wake, ClaimSlot, TypeOK
    <3> QED BY <1>0, <3>1, <3>2 DEF TInv
  <2>2. CASE ~Paused
    <3>1. /\ pc' = [pc EXCEPT ![r] = "go"] /\ timer[r] = 0 /\ pc[r] = "slot"
          /\ UNCHANGED <<interval, nextStart, timer, pausedUntil, asked, caught, sinceStart>>
      BY <1>4, <2>2 DEF Wake
    <3>2. \A q \in Requests : Pending(q)' => Pending(q) /\ At(q)' = At(q)
      BY <1>0, <3>1 DEF Pending, At, TypeOK
    <3>3. Spaced'
      BY <3>1, <3>2, SlotsKept
    <3>4. asked = 0
      BY <1>0, <2>2 DEF Paused, TInv, Silent, TypeOK
    <3>5. Silent'
      BY <3>1, <3>4 DEF TInv, Silent
    <3> QED BY <1>0, <3>3, <3>5 DEF TInv
  <2> QED BY <1>4, <2>1, <2>2 DEF Wake
<1>5. ASSUME NEW r \in Requests, SendNow(r) PROVE TInv'
  <2>1. /\ pc[r] = "go" /\ pc' = [pc EXCEPT ![r] = "sent"] /\ sinceStart' = 0
        /\ caught' = caught \ {r}
        /\ UNCHANGED <<interval, nextStart, pausedUntil, timer, asked>>
    BY <1>5 DEF SendNow
  <2>2. Pending(r) /\ At(r) = 0 /\ ~Pending(r)'
    BY <1>0, <2>1 DEF Pending, At, TypeOK
  <2>3. \A q \in Requests \ {r} : (Pending(q)' <=> Pending(q)) /\ At(q)' = At(q)
    BY <1>0, <2>1 DEF Pending, At, TypeOK
  <2>4. \A q \in Requests : At(q) \in Nat
    BY <1>0 DEF At, TypeOK
  <2>5. nextStart >= interval /\ \A q \in Requests \ {r} : Pending(q) => At(q) >= interval
    <3>1. nextStart >= At(r) + interval
      BY <2>2 DEF TInv, Spaced
    <3>2. ASSUME NEW q \in Requests \ {r}, Pending(q) PROVE At(q) >= interval
      <4>1. At(r) >= At(q) + interval \/ At(q) >= At(r) + interval
        BY <2>2, <3>2 DEF TInv, Spaced
      <4>2. At(q) \in Nat
        BY <2>4
      <4> QED BY <1>1, <2>2, <4>1, <4>2
    <3> QED BY <2>2, <3>1, <3>2, <1>1
  <2>6. Spaced'
    <3>1. sinceStart' + nextStart' >= interval'
      BY <1>0, <1>1, <2>1, <2>5 DEF TypeOK
    <3>2. ASSUME NEW q \in Requests, Pending(q)'
          PROVE  At(q)' + interval' <= nextStart' /\ sinceStart' + At(q)' >= interval'
      <4>1. q # r /\ Pending(q) /\ At(q)' = At(q) /\ At(q) \in Nat
        BY <2>2, <2>3, <2>4, <3>2
      <4>2. At(q) + interval <= nextStart
        BY <4>1 DEF TInv, Spaced
      <4> QED BY <1>1, <2>1, <2>5, <4>1, <4>2
    <3>3. ASSUME NEW p \in Requests, NEW q \in Requests, Pending(p)', Pending(q)', p # q
          PROVE  At(p)' >= At(q)' + interval' \/ At(q)' >= At(p)' + interval'
      BY <2>1, <2>2, <2>3, <3>3 DEF TInv, Spaced
    <3> QED BY <3>1, <3>2, <3>3 DEF Spaced
  <2>7. Silent'
    BY <1>0, <2>1 DEF TInv, Silent, TypeOK
  <2> QED BY <1>0, <2>6, <2>7 DEF TInv
<1>6. ASSUME NEW r \in Requests,
             Answered(r) \/ Failed(r) \/ Conflict(r) \/ BackoffEnds(r) \/ Cancel(r)
      PROVE  TInv'
  <2>1. /\ \A q \in Requests \ {r} : pc'[q] = pc[q] /\ timer'[q] = timer[q]
        /\ pc'[r] \in {"done", "backoff", "again"}
        /\ UNCHANGED <<interval, nextStart, pausedUntil, asked, caught, sinceStart>>
    BY <1>0, <1>6 DEF Answered, Failed, Conflict, BackoffEnds, Cancel, Finish, TypeOK
  <2>2. \A q \in Requests : Pending(q)' => Pending(q) /\ At(q)' = At(q)
    BY <2>1 DEF Pending, At
  <2>3. \A q \in Requests : pc'[q] = "go" => pc[q] = "go"
    BY <2>1
  <2> QED BY <1>0, <1>2, <2>1, <2>2, <2>3, SlotsKept DEF TInv
<1>7. ASSUME NEW r \in Requests, NEW d \in PauseLengths, Throttled(r, d) \/ LoginThrottled(r, d)
      PROVE  TInv'
  <2>1. /\ \A q \in Requests \ {r} : pc'[q] = pc[q] /\ timer'[q] = timer[q]
        /\ pc'[r] \in {"done", "backoff", "again"}
        /\ UNCHANGED <<interval, nextStart, sinceStart>>
        /\ PauseFor(d) \/ UNCHANGED <<pausedUntil, asked, caught>>
    BY <1>0, <1>7 DEF Throttled, LoginThrottled, Finish, TypeOK
  <2>2. \A q \in Requests : Pending(q)' => Pending(q) /\ At(q)' = At(q)
    BY <2>1 DEF Pending, At
  <2>3. \A q \in Requests : pc'[q] = "go" => pc[q] = "go"
    BY <2>1
  <2>4. Silent'
    BY <1>2, <2>1, <2>3, PauseHeard
  <2> QED BY <1>0, <2>1, <2>2, <2>4, SlotsKept DEF TInv
<1>8. CASE Tick
  <2>1. \A r \in Requests : pc[r] # "go" /\ (Pending(r) => timer[r] \in Nat /\ timer[r] > 0)
    BY <1>0, <1>8 DEF Tick, Due, Pending, TypeOK
  <2>2. /\ nextStart' = (IF nextStart > 0 THEN nextStart - 1 ELSE 0)
        /\ pausedUntil' = (IF pausedUntil > 0 THEN pausedUntil - 1 ELSE 0)
        /\ asked' = (IF asked > 0 THEN asked - 1 ELSE 0)
        /\ timer' = [r \in Requests |-> IF timer[r] > 0 THEN timer[r] - 1 ELSE 0]
        /\ sinceStart' = (IF sinceStart + 1 <= interval THEN sinceStart + 1 ELSE interval)
        /\ UNCHANGED <<interval, pc>>
    BY <1>1, <1>8, MinOfPair DEF Tick, CountDown
  <2>3. Silent'
    BY <1>0, <2>1, <2>2 DEF TInv, Silent, TypeOK
  <2>4. \A r \in Requests : Pending(r)' => Pending(r) /\ At(r) \in Nat /\ At(r)' = At(r) - 1
    BY <2>1, <2>2 DEF Pending, At
  <2>5. nextStart \in Nat
    BY <1>0 DEF TypeOK
  <2>6. sinceStart' + nextStart' >= interval'
    BY <1>0, <1>1, <2>2, <2>5 DEF TInv, Spaced, TypeOK
  <2>7. ASSUME NEW r \in Requests, Pending(r)'
        PROVE  At(r)' + interval' <= nextStart' /\ sinceStart' + At(r)' >= interval'
    <3>1. At(r) + interval <= nextStart /\ sinceStart + At(r) >= interval
      BY <2>4, <2>7 DEF TInv, Spaced
    <3>2. At(r) \in Nat /\ At(r)' = At(r) - 1 /\ At(r) > 0
      BY <2>1, <2>4, <2>7 DEF Pending, At
    <3> QED BY <1>1, <2>2, <2>5, <3>1, <3>2
  <2>8. ASSUME NEW r \in Requests, NEW q \in Requests, Pending(r)', Pending(q)', r # q
        PROVE  At(r)' >= At(q)' + interval' \/ At(q)' >= At(r)' + interval'
    <3>1. At(r) >= At(q) + interval \/ At(q) >= At(r) + interval
      BY <2>4, <2>8 DEF TInv, Spaced
    <3>2. At(r) \in Nat /\ At(r)' = At(r) - 1 /\ At(q) \in Nat /\ At(q)' = At(q) - 1
      BY <2>4, <2>8
    <3> QED BY <1>1, <2>2, <3>1, <3>2
  <2>9. Spaced'
    BY <2>6, <2>7, <2>8 DEF Spaced
  <2> QED BY <1>0, <2>3, <2>9 DEF TInv
<1>9. CASE UNCHANGED vars
  <2>1. \A r \in Requests : Pending(r)' => Pending(r) /\ At(r)' = At(r)
    BY <1>9 DEF Pending, At
  <2> QED BY <1>0, <1>2, <1>9, <2>1, SlotsKept DEF TInv
<1> QED BY <1>3, <1>4, <1>5, <1>6, <1>7, <1>8, <1>9 DEF Next, Answer, Terminated

LEMMA Timing == Spec => []TInv
BY TInvInit, TInvStep, PTL DEF Spec

\* However many exchanges share the pacer, and whatever pauses send them back for new
\* slots, no two requests leave within one interval (reserve).
THEOREM NoBurst == Spec => StartsSpaced
<1> DEFINE Step == \A r \in Requests : Leaves(r) => sinceStart = interval
<1>1. TInv /\ [Next]_vars => Step
  <2> SUFFICES ASSUME TInv, NEW r \in Requests, Leaves(r) PROVE sinceStart = interval
    OBVIOUS
  <2>1. sinceStart + 0 >= interval
    BY DEF Leaves, TInv, Spaced, Pending, At
  <2> QED BY <2>1, TimesAssumption DEF TInv, TypeOK
<1> QED BY <1>1, Timing, PTL DEF Spec, StartsSpaced

\* Nothing leaves into a silence the host asked for but what was already past wait() when
\* it began (wait, pauseFor).
THEOREM PausesAreSilent == Spec => SilentWhilePaused
<1> DEFINE Step == \A r \in Requests : Leaves(r) => asked = 0 \/ r \in caught
<1>1. TInv /\ [Next]_vars => Step
  BY DEF Leaves, TInv, Silent
<1> QED BY <1>1, Timing, PTL DEF Spec, SilentWhilePaused

=============================================================================
