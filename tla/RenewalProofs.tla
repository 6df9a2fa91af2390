----------------------------- MODULE RenewalProofs -----------------------------
(* Proofs about what a renewal of the session costs and what a request may *)
(* see of it: renewals are accounted for, one expiry is invisible, and a   *)
(* cancelled request leaves no trace.                                      *)
EXTENDS SessionProofs

(* The groups of variables are only abbreviations. *)
USE DEF vars, clientVars, handshakeVars, hostVars, requestVars, LockFree, RenewalsLeft

-----------------------------------------------------------------------------
(* The strengthening. *)

(* The sessions the host has ended, and those of them no longer stored. *)
Dead == (1..bought) \ valid
Dropped == Dead \ {cookie}

(* The retries spent on a route that refuses any session, and the renewals *)
(* that ended without a session.                                           *)
RefusedRetries == {r \in refusing : retried[r]}
FailedRetries == {r \in Requests : retried[r] /\ result[r] \in {"failed", "aborted"}}

Reasons == Cardinality(Dropped) + Cardinality(RefusedRetries) + Cardinality(FailedRetries)

Renewing == \E r \in Requests : InHandshake(r) /\ retried[r]

(* Nothing is stored and nobody is renewing, although some request was     *)
(* given a session: the next renewal needs no reason of its own.           *)
RenewalOwed ==
  mode = "token" /\ cookie = NoSession /\ ~Renewing /\ \E r \in Requests : held[r] # NoSession

(* Every renewal has its reason, and one is put by for the next.           *)
RenewalCredit ==
  /\ renewals <= Reasons
  /\ RenewalOwed => renewals + 1 <= Reasons

(* A request that may still renew has not done so, and carries a session.  *)
RetryOnce ==
  \A r \in Requests :
     /\ pc[r] \in {"idle", "session", "renew"} => ~retried[r]
     /\ pc[r] \in {"send", "renew"} => held[r] # NoSession

-----------------------------------------------------------------------------
(* Lemmas about counting. *)

LEMMA SubsetCount ==
  ASSUME NEW S, NEW T, IsFiniteSet(T), S \subseteq T
  PROVE  /\ IsFiniteSet(S)
         /\ Cardinality(S) \in Nat /\ Cardinality(T) \in Nat
         /\ Cardinality(S) <= Cardinality(T)
         /\ \A x \in T \ S : Cardinality(S) + 1 <= Cardinality(T)
<1>1. IsFiniteSet(S) /\ Cardinality(S) \in Nat /\ Cardinality(T) \in Nat /\ Cardinality(S) <= Cardinality(T)
  BY FS_Subset, FS_CardinalityType
<1>2. ASSUME NEW x \in T \ S PROVE Cardinality(S) + 1 <= Cardinality(T)
  <2>1. Cardinality(S \cup {x}) = Cardinality(S) + 1
    BY <1>1, FS_AddElement
  <2>2. S \cup {x} \subseteq T
    OBVIOUS
  <2>3. Cardinality(S \cup {x}) <= Cardinality(T)
    BY <2>2, FS_Subset
  <2>4. QED
    BY <2>1, <2>3
<1>3. QED
  BY <1>1, <1>2

LEMMA ReasonsFinite ==
  ASSUME TypeOK
  PROVE  IsFiniteSet(Dead) /\ IsFiniteSet(Dropped) /\ IsFiniteSet(RefusedRetries) /\ IsFiniteSet(FailedRetries)
<1>1. IsFiniteSet(1..bought)
  BY FS_Interval DEF TypeOK
<1>2. QED
  BY <1>1, RequestsAssumption, FS_Subset DEF TypeOK, Dead, Dropped, RefusedRetries, FailedRetries

(* Reasons that only grow are not fewer, and one more is one more. *)
LEMMA ReasonsCount ==
  ASSUME TypeOK, TypeOK',
         Dropped \subseteq Dropped', RefusedRetries \subseteq RefusedRetries',
         FailedRetries \subseteq FailedRetries'
  PROVE  /\ Reasons \in Nat /\ Reasons' \in Nat
         /\ Reasons <= Reasons'
         /\ \A s \in Dropped' \ Dropped : Reasons + 1 <= Reasons'
         /\ \A r \in RefusedRetries' \ RefusedRetries : Reasons + 1 <= Reasons'
         /\ \A r \in FailedRetries' \ FailedRetries : Reasons + 1 <= Reasons'
<1>1. IsFiniteSet(1..bought')
  BY FS_Interval DEF TypeOK
<1>2. /\ Dropped' \subseteq 1..bought'
      /\ RefusedRetries' \subseteq Requests
      /\ FailedRetries' \subseteq Requests
  BY DEF TypeOK, Dead, Dropped, RefusedRetries, FailedRetries
<1>3. IsFiniteSet(Dropped') /\ IsFiniteSet(RefusedRetries') /\ IsFiniteSet(FailedRetries')
  BY <1>1, <1>2, RequestsAssumption, FS_Subset
<1>4. /\ Cardinality(Dropped) \in Nat /\ Cardinality(Dropped') \in Nat
      /\ Cardinality(Dropped) <= Cardinality(Dropped')
      /\ \A s \in Dropped' \ Dropped : Cardinality(Dropped) + 1 <= Cardinality(Dropped')
  BY <1>3, SubsetCount
<1>5. /\ Cardinality(RefusedRetries) \in Nat /\ Cardinality(RefusedRetries') \in Nat
      /\ Cardinality(RefusedRetries) <= Cardinality(RefusedRetries')
      /\ \A r \in RefusedRetries' \ RefusedRetries :
            Cardinality(RefusedRetries) + 1 <= Cardinality(RefusedRetries')
  BY <1>3, SubsetCount
<1>6. /\ Cardinality(FailedRetries) \in Nat /\ Cardinality(FailedRetries') \in Nat
      /\ Cardinality(FailedRetries) <= Cardinality(FailedRetries')
      /\ \A r \in FailedRetries' \ FailedRetries :
            Cardinality(FailedRetries) + 1 <= Cardinality(FailedRetries')
  BY <1>3, SubsetCount
<1>7. QED
  BY <1>4, <1>5, <1>6 DEF Reasons

-----------------------------------------------------------------------------
(* Steps. *)

(* A session the host has ended stays ended: a login is a new one.         *)
LEMMA DeadStays ==
  ASSUME TypeOK, NoLogin \/ HostLogsIn
  PROVE  Dead' = Dead
<1>1. CASE NoLogin
  BY <1>1 DEF NoLogin, Dead
<1>2. CASE HostLogsIn
  <2>1. 1..bought' = (1..bought) \cup {bought + 1}
    BY <1>2 DEF HostLogsIn, TypeOK
  <2>2. bought + 1 \notin 1..bought
    BY DEF TypeOK
  <2>3. QED
    BY <1>2, <2>1, <2>2 DEF HostLogsIn, Dead
<1>3. QED
  BY <1>1, <1>2

LEMMA DeadGrows ==
  ASSUME TypeOK, [Next]_vars
  PROVE  Dead \subseteq Dead'
<1>1. ASSUME NEW r \in Requests, WhoamiOk(r) \/ WhoamiFails(r) \/ HandshakeAborted(r)
      PROVE  Dead \subseteq Dead'
  <2>1. NoLogin \/ HostLogsIn
    BY <1>1 DEF WhoamiOk, WhoamiFails, HandshakeAborted
  <2>2. QED
    BY <2>1, DeadStays
<1>2. ASSUME NEW s \in valid, Lapse(s) PROVE Dead \subseteq Dead'
  BY <1>2 DEF Lapse, Dead
<1>3. ASSUME NEW r \in Requests, Throttled(r) \/ CsrfFails(r) PROVE Dead \subseteq Dead'
  BY <1>3 DEF Throttled, CsrfFails, HandshakeFails, NoLogin, Dead
<1>4. ASSUME UNCHANGED <<bought, valid>> PROVE Dead \subseteq Dead'
  BY <1>4 DEF Dead
<1>5. QED
  BY <1>1, <1>2, <1>3, <1>4 DEF Next, Progress, Start, GetSession, RenewSession, GiveUp, Handshake,
       CsrfOk, Send, SendOk, SendUnauthorized, SendFails, Cancel, Terminated

LEMMA RetryOnceStep ==
  ASSUME TypeOK, SingleFlight, NewestStored, RetryOnce, [Next]_vars
  PROVE  RetryOnce'
<1> USE DEF TypeOK, SingleFlight, NewestStored, RetryOnce, InHandshake, NoSession, FixedSession
<1>1. ASSUME NEW r \in Requests, Start(r) PROVE RetryOnce'
  BY <1>1 DEF Start, SendWith
<1>2. ASSUME NEW r \in Requests, GetSession(r) PROVE RetryOnce'
  BY <1>2 DEF GetSession, Finish, SendWith, StartHandshake
<1>3. ASSUME NEW r \in Requests, RenewSession(r) PROVE RetryOnce'
  BY <1>3 DEF RenewSession, Finish, SendWith, StartHandshake, AlreadyRenewed
<1>4. ASSUME NEW r \in Requests, GiveUp(r) PROVE RetryOnce'
  BY <1>4 DEF GiveUp, Finish
<1>5. ASSUME NEW r \in Requests, Throttled(r) PROVE RetryOnce'
  BY <1>5 DEF Throttled, HandshakeFails, NoLogin, Finish
<1>6. ASSUME NEW r \in Requests, WhoamiOk(r) PROVE RetryOnce'
  BY <1>6 DEF WhoamiOk, HostLogsIn
<1>7. ASSUME NEW r \in Requests, WhoamiFails(r) PROVE RetryOnce'
  BY <1>7 DEF WhoamiFails, HandshakeFails, Finish
<1>8. ASSUME NEW r \in Requests, CsrfOk(r) PROVE RetryOnce'
  BY <1>8 DEF CsrfOk, SendWith
<1>9. ASSUME NEW r \in Requests, CsrfFails(r) PROVE RetryOnce'
  BY <1>9 DEF CsrfFails, HandshakeFails, NoLogin, Finish
<1>10. ASSUME NEW r \in Requests, HandshakeAborted(r) PROVE RetryOnce'
  BY <1>10 DEF HandshakeAborted, Finish
<1>11. ASSUME NEW r \in Requests, SendOk(r) PROVE RetryOnce'
  BY <1>11 DEF SendOk, Finish
<1>12. ASSUME NEW r \in Requests, SendUnauthorized(r) PROVE RetryOnce'
  BY <1>12 DEF SendUnauthorized, Finish
<1>13. ASSUME NEW r \in Requests, SendFails(r) PROVE RetryOnce'
  BY <1>13 DEF SendFails, Finish
<1>14. ASSUME NEW r \in Requests, Cancel(r) PROVE RetryOnce'
  BY <1>14 DEF Cancel
<1>15. ASSUME NEW s \in valid, Lapse(s) PROVE RetryOnce'
  BY <1>15 DEF Lapse
<1>16. CASE UNCHANGED vars
  BY <1>16
<1>17. QED
  BY <1>1, <1>2, <1>3, <1>4, <1>5, <1>6, <1>7, <1>8, <1>9, <1>10, <1>11, <1>12, <1>13, <1>14, <1>15, <1>16
  DEF Next, Progress, Handshake, Send, Terminated

(* No step takes a reason for a renewal back.                              *)
LEMMA ReasonsGrow ==
  ASSUME TypeOK, SingleFlight, HandshakeStarted, NewestStored, NotYetApplied, [Next]_vars
  PROVE  /\ Dropped \subseteq Dropped'
         /\ RefusedRetries \subseteq RefusedRetries'
         /\ FailedRetries \subseteq FailedRetries'
<1>1. Dropped \subseteq Dropped'
  <2>1. CASE cookie' \in {cookie, NoSession}
    BY <2>1, DeadGrows DEF Dropped, Dead, NoSession, TypeOK
  <2>2. ASSUME NEW r \in Requests, CsrfOk(r) PROVE Dropped \subseteq Dropped'
    BY <2>2 DEF CsrfOk, Dropped, Dead
  <2>3. QED
    BY <2>1, <2>2 DEF Next, Progress, Start, GetSession, RenewSession, GiveUp, Handshake, Throttled,
         WhoamiOk, WhoamiFails, CsrfFails, HandshakeAborted, HandshakeFails, Send, SendOk, SendUnauthorized,
         SendFails, Cancel, Lapse, Terminated
<1>2. /\ refusing' = refusing
      /\ \A r \in Requests : /\ retried[r] => retried'[r]
                             /\ pc[r] = "done" => result'[r] = result[r]
  BY DEF TypeOK, Next, Progress, Start, GetSession, RenewSession, GiveUp, Handshake, Throttled,
         WhoamiOk, WhoamiFails, CsrfOk, CsrfFails, HandshakeAborted, HandshakeFails, Send, SendOk,
         SendUnauthorized, SendFails, Cancel, Lapse, Terminated, InHandshake, Finish, SendWith, StartHandshake
<1>3. QED
  BY <1>1, <1>2 DEF RefusedRetries, FailedRetries, NotYetApplied, TypeOK

(* A renewal is paid for: by the session it drops, by the route that       *)
(* refuses, or by the credit an earlier renewal without a session left.    *)
LEMMA RenewalPaid ==
  ASSUME TypeOK, TypeOK', SingleFlight, SessionModeBuysNothing, NewestStored, RefusalStands,
         RetryOnce, RenewalCredit,
         Dropped \subseteq Dropped', RefusedRetries \subseteq RefusedRetries',
         FailedRetries \subseteq FailedRetries',
         NEW r \in Requests, RenewSession(r), StartHandshake(r), renewals' = renewals + 1,
         cookie' = NoSession, ~AlreadyRenewed(r)
  PROVE  RenewalCredit'
<1>1. /\ pc[r] = "renew" /\ sem = {} /\ ~retried[r]
      /\ retried'[r] /\ InHandshake(r)'
      /\ mode = "token" /\ held[r] # NoSession
  BY DEF RenewSession, StartHandshake, InHandshake, TypeOK, SessionModeBuysNothing, RetryOnce
<1>2. Renewing'
  BY <1>1 DEF Renewing
<1>3. renewals + 1 <= Reasons'
  <2>1. CASE cookie = NoSession
    <3>1. RenewalOwed
      BY <2>1, <1>1 DEF RenewalOwed, Renewing, SingleFlight
    <3>2. QED
      BY <3>1, ReasonsCount DEF RenewalCredit, TypeOK
  <2>2. CASE held[r] = cookie /\ held[r] \notin valid
    <3>1. cookie \in Dead /\ cookie \notin Dropped
      BY <1>1, <2>2 DEF Dead, Dropped, NewestStored, TypeOK, NoSession
    <3>2. cookie \in Dropped'
      BY <1>1, <2>2, <3>1 DEF RenewSession, Dead, Dropped, NoSession
    <3>3. QED
      BY <3>1, <3>2, ReasonsCount DEF RenewalCredit, TypeOK
  <2>3. CASE r \in refusing
    <3>1. r \in RefusedRetries' \ RefusedRetries
      BY <1>1, <2>3 DEF RenewSession, RefusedRetries
    <3>2. QED
      BY <3>1, ReasonsCount DEF RenewalCredit, TypeOK
  <2>4. QED
    BY <1>1, <2>1, <2>2, <2>3 DEF AlreadyRenewed, RefusalStands
<1>4. QED
  BY <1>2, <1>3 DEF RenewalCredit, RenewalOwed

(* A renewal that ends without a session is a reason for the next one.     *)
LEMMA FailedRenewalPaid ==
  ASSUME TypeOK, TypeOK', NotYetApplied, RenewalCredit,
         Dropped \subseteq Dropped', RefusedRetries \subseteq RefusedRetries',
         FailedRetries \subseteq FailedRetries',
         UNCHANGED <<mode, renewals, cookie, held, retried>>,
         NEW r \in Requests, InHandshake(r), Finish(r, "failed") \/ Finish(r, "aborted"),
         \A q \in Requests : InHandshake(q) => q = r
  PROVE  RenewalCredit'
<1>1. result[r] = "none" /\ result'[r] \in {"failed", "aborted"}
  BY DEF NotYetApplied, InHandshake, Finish, TypeOK
<1>2. CASE retried[r]
  <2>1. r \in FailedRetries' \ FailedRetries
    BY <1>1, <1>2 DEF FailedRetries
  <2>2. QED
    BY <2>1, ReasonsCount DEF RenewalCredit, TypeOK
<1>3. CASE ~retried[r]
  <2>1. RenewalOwed' => RenewalOwed
    BY <1>3 DEF RenewalOwed, Renewing
  <2>2. QED
    BY <2>1, ReasonsCount DEF RenewalCredit, TypeOK
<1>4. QED
  BY <1>2, <1>3

(* Every other step leaves the debt as it was, or stores a session.        *)
LEMMA RenewalFrame ==
  ASSUME TypeOK, TypeOK', RenewalCredit,
         Dropped \subseteq Dropped', RefusedRetries \subseteq RefusedRetries',
         FailedRetries \subseteq FailedRetries',
         renewals' = renewals,
         RenewalOwed' => RenewalOwed
  PROVE  RenewalCredit'
BY ReasonsCount DEF RenewalCredit, TypeOK

LEMMA RenewalCreditStep ==
  ASSUME TypeOK, TypeOK', SingleFlight, HandshakeStarted, SessionModeBuysNothing, NewestStored,
         RefusalStands, NotYetApplied, RetryOnce, RenewalCredit, [Next]_vars
  PROVE  RenewalCredit'
<1>0. /\ Dropped \subseteq Dropped'
      /\ RefusedRetries \subseteq RefusedRetries'
      /\ FailedRetries \subseteq FailedRetries'
  BY ReasonsGrow
<1>f. ASSUME NEW r \in Requests, InHandshake(r), NEW kind, HandshakeFails(r, kind)
      PROVE  RenewalCredit'
  BY <1>0, <1>f, FailedRenewalPaid DEF HandshakeFails, SingleFlight
<1> USE DEF RenewalOwed, Renewing, InHandshake, TypeOK
<1>1. ASSUME NEW r \in Requests, Start(r) PROVE RenewalCredit'
  BY <1>0, <1>1, RenewalFrame DEF Start, SendWith
<1>2. ASSUME NEW r \in Requests, GetSession(r) PROVE RenewalCredit'
  <2>1. RenewalOwed' => RenewalOwed
    BY <1>2 DEF GetSession, Finish, SendWith, StartHandshake, RetryOnce
  <2>2. QED
    BY <1>0, <1>2, <2>1, RenewalFrame DEF GetSession
<1>3. ASSUME NEW r \in Requests, RenewSession(r) PROVE RenewalCredit'
  <2>1. CASE StartHandshake(r) /\ ~AlreadyRenewed(r) /\ renewals' = renewals + 1 /\ cookie' = NoSession
    BY <1>0, <1>3, <2>1, RenewalPaid
  <2>2. CASE AlreadyRenewed(r) /\ SendWith(r, cookie) /\ UNCHANGED <<handshakeVars, clientVars>>
    BY <1>0, <1>3, <2>2, RenewalFrame DEF AlreadyRenewed
  <2>3. CASE Finish(r, "failed") /\ UNCHANGED <<handshakeVars, clientVars, held>>
    <3>1. RenewalOwed' => RenewalOwed
      BY <1>3, <2>3 DEF RenewSession, Finish
    <3>2. QED
      BY <1>0, <2>3, <3>1, RenewalFrame
  <2>4. QED
    BY <1>3, <2>1, <2>2, <2>3 DEF RenewSession
<1>4. ASSUME NEW r \in Requests, GiveUp(r) PROVE RenewalCredit'
  BY <1>0, <1>4, RenewalFrame DEF GiveUp, Finish
<1>5. ASSUME NEW r \in Requests, Throttled(r) PROVE RenewalCredit'
  <2>1. CASE UNCHANGED <<mode, clientVars, sem, pending, hostVars, requestVars>>
    BY <1>0, <2>1, RenewalFrame
  <2>2. QED
    BY <1>5, <1>f, <2>1 DEF Throttled
<1>6. ASSUME NEW r \in Requests, WhoamiOk(r) PROVE RenewalCredit'
  BY <1>0, <1>6, RenewalFrame DEF WhoamiOk
<1>7. ASSUME NEW r \in Requests, WhoamiFails(r) PROVE RenewalCredit'
  BY <1>7, <1>f DEF WhoamiFails
<1>8. ASSUME NEW r \in Requests, CsrfOk(r) PROVE RenewalCredit'
  BY <1>0, <1>8, RenewalFrame DEF CsrfOk, NewestStored
<1>9. ASSUME NEW r \in Requests, CsrfFails(r) PROVE RenewalCredit'
  BY <1>9, <1>f DEF CsrfFails
<1>10. ASSUME NEW r \in Requests, HandshakeAborted(r) PROVE RenewalCredit'
  BY <1>0, <1>10, FailedRenewalPaid DEF HandshakeAborted, SingleFlight
<1>11. ASSUME NEW r \in Requests, SendOk(r) PROVE RenewalCredit'
  BY <1>0, <1>11, RenewalFrame DEF SendOk, Finish
<1>12. ASSUME NEW r \in Requests, SendUnauthorized(r) PROVE RenewalCredit'
  BY <1>0, <1>12, RenewalFrame DEF SendUnauthorized, Finish
<1>13. ASSUME NEW r \in Requests, SendFails(r) PROVE RenewalCredit'
  BY <1>0, <1>13, RenewalFrame DEF SendFails, Finish
<1>14. ASSUME NEW r \in Requests, Cancel(r) PROVE RenewalCredit'
  BY <1>0, <1>14, RenewalFrame DEF Cancel
<1>15. ASSUME NEW s \in valid, Lapse(s) PROVE RenewalCredit'
  BY <1>0, <1>15, RenewalFrame DEF Lapse
<1>16. CASE UNCHANGED vars
  BY <1>0, <1>16, RenewalFrame
<1>17. QED
  BY <1>1, <1>2, <1>3, <1>4, <1>5, <1>6, <1>7, <1>8, <1>9, <1>10, <1>11, <1>12, <1>13, <1>14, <1>15, <1>16
  DEF Next, Progress, Handshake, Send, Terminated

-----------------------------------------------------------------------------
(* Theorems. *)

(* The inductive invariant of the renewals.                                *)
THEOREM RenewalsInductive == Spec => [](RetryOnce /\ RenewalCredit)
<1>1. Init /\ TypeOK => RetryOnce /\ RenewalCredit
  <2> SUFFICES ASSUME Init, TypeOK PROVE RetryOnce /\ RenewalCredit
    OBVIOUS
  <2>1. RetryOnce
    BY DEF Init, RetryOnce
  <2>2. Reasons \in Nat
    BY ReasonsFinite, FS_CardinalityType DEF Reasons
  <2>3. QED
    BY <2>1, <2>2 DEF Init, RenewalCredit, RenewalOwed
<1>2. IInv /\ TypeOK' /\ RetryOnce /\ RenewalCredit /\ [Next]_vars => RetryOnce' /\ RenewalCredit'
  BY RetryOnceStep, RenewalCreditStep DEF IInv
<1>3. QED
  BY <1>1, <1>2, TypeCorrect, Inductive, PTL DEF Spec

(* Requests that all saw the same expiry share one renewal: each renewal   *)
(* is accounted for by a session the host ended, by a route that refuses   *)
(* any session, or by a renewal that itself failed (client.go:213-215).    *)
THEOREM RenewalsAreJustified == Spec => []RenewalsJustified
<1>1. TypeOK /\ RenewalCredit => RenewalsJustified
  <2> SUFFICES ASSUME TypeOK, RenewalCredit PROVE RenewalsJustified
    OBVIOUS
  <2>1. /\ Cardinality(Dropped) \in Nat /\ Cardinality(Dead) \in Nat
        /\ Cardinality(Dropped) <= Cardinality(Dead)
    BY ReasonsFinite, SubsetCount DEF Dropped
  <2>2. /\ Cardinality(RefusedRetries) \in Nat /\ Cardinality(refusing) \in Nat
        /\ Cardinality(RefusedRetries) <= Cardinality(refusing)
    BY RequestsAssumption, FS_Subset, SubsetCount DEF RefusedRetries, TypeOK
  <2>3. Cardinality(FailedRetries) \in Nat
    BY ReasonsFinite, FS_CardinalityType
  <2>4. QED
    BY <2>1, <2>2, <2>3 DEF RenewalCredit, Reasons, RenewalsJustified, Dead, FailedRetries, TypeOK
<1>2. QED
  BY <1>1, TypeCorrect, RenewalsInductive, PTL

(* A request's own cancellation or deadline leaves the stored session and  *)
(* the remembered failures as it found them (session.go:123-124).          *)
THEOREM CancellationIsForgotten == Spec => CancellationLeavesNoTrace
<1>1. TypeOK /\ [Next]_vars =>
        [\A r \in Requests :
           (ctxDone[r] /\ pc[r] # "done" /\ pc'[r] = "done")
             => UNCHANGED <<cookie, transientFails, handshakeErr>>]_vars
  BY DEF TypeOK, Next, Progress, Start, GetSession, RenewSession, GiveUp, Handshake, Throttled,
         WhoamiOk, WhoamiFails, CsrfOk, CsrfFails, HandshakeAborted, HandshakeFails, Send, SendOk,
         SendUnauthorized, SendFails, Cancel, Lapse, Terminated, Finish, SendWith, StartHandshake
<1>2. QED
  BY <1>1, TypeCorrect, PTL DEF Spec, CancellationLeavesNoTrace

-----------------------------------------------------------------------------
(* One expiry is invisible. *)

(* The host is healthy but for sessions that lapse: callers may cancel.    *)
OnlyLapses == Faults \subseteq {"cancel"}

TwoDead == \E s, t \in Dead : s # t

(* What excuses a failure: the host refused the handshake itself, a second *)
(* session lapsed, or cancelled renewals have used up the cap.             *)
Excused == handshakeErr = "definitive" \/ TwoDead \/ Cardinality(CancelledRenewals) >= MaxRenewals

(* Nothing is remembered but a session that died before its CSRF read,     *)
(* which is newer than any session in use; who renews or retries does so   *)
(* for a dead session; and whoever failed has an excuse.                   *)
HostHealthy ==
  /\ refusing = {}
  /\ handshakeErr # "transient"
  /\ mode = "session" => handshakeErr = "none"
  /\ handshakeErr = "definitive" =>
       cookie = NoSession /\ \E s \in Dead : \A q \in Requests : held[q] < s

RetriedForDead ==
  \A r \in Requests :
     /\ pc[r] = "renew" => held[r] \in Dead
     /\ retried[r] /\ InHandshake(r) => held[r] \in Dead
     /\ retried[r] /\ pc[r] = "send" => \E s \in Dead : s < held[r]

FailuresExcused ==
  \A r \in Requests : mode = "token" /\ result[r] \in {"failed", "refused", "expired"} => Excused

LEMMA HostHealthyStep ==
  ASSUME OnlyLapses, TypeOK, SingleFlight, HandshakeStarted, SessionModeBuysNothing, NewestStored,
         HostHealthy, Dead \subseteq Dead', [Next]_vars
  PROVE  HostHealthy'
<1> USE DEF OnlyLapses, TypeOK, HostHealthy, InHandshake, SingleFlight, HandshakeStarted,
        SessionModeBuysNothing, NewestStored, NoSession, FixedSession
<1>1. ASSUME NEW r \in Requests, Start(r) PROVE HostHealthy'
  BY <1>1 DEF Start, SendWith
<1>2. ASSUME NEW r \in Requests, GetSession(r) PROVE HostHealthy'
  BY <1>2 DEF GetSession, Finish, SendWith, StartHandshake
<1>3. ASSUME NEW r \in Requests, RenewSession(r) PROVE HostHealthy'
  BY <1>3 DEF RenewSession, Finish, SendWith, StartHandshake, AlreadyRenewed
<1>4. ASSUME NEW r \in Requests, GiveUp(r) PROVE HostHealthy'
  BY <1>4 DEF GiveUp, Finish
<1>5. ASSUME NEW r \in Requests, Throttled(r) PROVE HostHealthy'
  BY <1>5 DEF Throttled
<1>6. ASSUME NEW r \in Requests, WhoamiOk(r) PROVE HostHealthy'
  BY <1>6 DEF WhoamiOk
<1>7. ASSUME NEW r \in Requests, WhoamiFails(r) PROVE HostHealthy'
  BY <1>7 DEF WhoamiFails
<1>8. ASSUME NEW r \in Requests, CsrfOk(r) PROVE HostHealthy'
  BY <1>8 DEF CsrfOk, SendWith
<1>9. ASSUME NEW r \in Requests, CsrfFails(r) PROVE HostHealthy'
  BY <1>9 DEF CsrfFails, HandshakeFails, Remember, NoLogin, Finish, Dead
<1>10. ASSUME NEW r \in Requests, HandshakeAborted(r) PROVE HostHealthy'
  BY <1>10 DEF HandshakeAborted, Finish
<1>11. ASSUME NEW r \in Requests, SendOk(r) PROVE HostHealthy'
  BY <1>11 DEF SendOk, Finish
<1>12. ASSUME NEW r \in Requests, SendUnauthorized(r) PROVE HostHealthy'
  BY <1>12 DEF SendUnauthorized, Finish
<1>13. ASSUME NEW r \in Requests, SendFails(r) PROVE HostHealthy'
  BY <1>13 DEF SendFails, Finish
<1>14. ASSUME NEW r \in Requests, Cancel(r) PROVE HostHealthy'
  BY <1>14 DEF Cancel
<1>15. ASSUME NEW s \in valid, Lapse(s) PROVE HostHealthy'
  BY <1>15 DEF Lapse
<1>16. CASE UNCHANGED vars
  BY <1>16
<1>17. QED
  BY <1>1, <1>2, <1>3, <1>4, <1>5, <1>6, <1>7, <1>8, <1>9, <1>10, <1>11, <1>12, <1>13, <1>14, <1>15, <1>16
  DEF Next, Progress, Handshake, Send, Terminated

LEMMA RetriedForDeadStep ==
  ASSUME TypeOK, SingleFlight, NewestStored, RetryOnce, RefusalStands,
         HostHealthy, RetriedForDead, Dead \subseteq Dead', [Next]_vars
  PROVE  RetriedForDead'
<1> USE DEF TypeOK, HostHealthy, RetriedForDead, InHandshake, NewestStored, RetryOnce, RefusalStands,
        NoSession
<1>1. ASSUME NEW r \in Requests, Start(r) PROVE RetriedForDead'
  BY <1>1 DEF Start, SendWith
<1>2. ASSUME NEW r \in Requests, GetSession(r) PROVE RetriedForDead'
  BY <1>2 DEF GetSession, Finish, SendWith, StartHandshake
<1>3. ASSUME NEW r \in Requests, RenewSession(r) PROVE RetriedForDead'
  BY <1>3 DEF RenewSession, Finish, SendWith, StartHandshake, AlreadyRenewed
<1>4. ASSUME NEW r \in Requests, GiveUp(r) PROVE RetriedForDead'
  BY <1>4 DEF GiveUp, Finish
<1>5. ASSUME NEW r \in Requests, Throttled(r) PROVE RetriedForDead'
  BY <1>5 DEF Throttled, HandshakeFails, Finish
<1>6. ASSUME NEW r \in Requests, WhoamiOk(r) PROVE RetriedForDead'
  BY <1>6 DEF WhoamiOk
<1>7. ASSUME NEW r \in Requests, WhoamiFails(r) PROVE RetriedForDead'
  BY <1>7 DEF WhoamiFails, HandshakeFails, Finish
<1>8. ASSUME NEW r \in Requests, CsrfOk(r) PROVE RetriedForDead'
  BY <1>8 DEF CsrfOk, SendWith
<1>9. ASSUME NEW r \in Requests, CsrfFails(r) PROVE RetriedForDead'
  BY <1>9 DEF CsrfFails, HandshakeFails, Remember, NoLogin, Finish
<1>10. ASSUME NEW r \in Requests, HandshakeAborted(r) PROVE RetriedForDead'
  BY <1>10 DEF HandshakeAborted, Finish
<1>11. ASSUME NEW r \in Requests, SendOk(r) PROVE RetriedForDead'
  BY <1>11 DEF SendOk, Finish
<1>12. ASSUME NEW r \in Requests, SendUnauthorized(r) PROVE RetriedForDead'
  BY <1>12 DEF SendUnauthorized, Finish, Accepted, Dead
<1>13. ASSUME NEW r \in Requests, SendFails(r) PROVE RetriedForDead'
  BY <1>13 DEF SendFails, Finish
<1>14. ASSUME NEW r \in Requests, Cancel(r) PROVE RetriedForDead'
  BY <1>14 DEF Cancel
<1>15. ASSUME NEW s \in valid, Lapse(s) PROVE RetriedForDead'
  BY <1>15 DEF Lapse
<1>16. CASE UNCHANGED vars
  BY <1>16
<1>17. QED
  BY <1>1, <1>2, <1>3, <1>4, <1>5, <1>6, <1>7, <1>8, <1>9, <1>10, <1>11, <1>12, <1>13, <1>14, <1>15, <1>16
  DEF Next, Progress, Handshake, Send, Terminated

(* An excuse stands: a definitive failure is forgotten only by a renewal   *)
(* for a session that died, which is older than the one the failure killed. *)
LEMMA ExcuseStands ==
  ASSUME OnlyLapses, TypeOK, TypeOK', NotYetApplied, HostHealthy, RetriedForDead,
         Dead \subseteq Dead', [Next]_vars, Excused
  PROVE  Excused'
<1>1. CASE TwoDead
  BY <1>1 DEF TwoDead, Excused
<1>2. CASE Cardinality(CancelledRenewals) >= MaxRenewals
  <2>1. CancelledRenewals \subseteq CancelledRenewals' /\ IsFiniteSet(CancelledRenewals')
    <3>1. \A r \in Requests : (retried[r] => retried'[r]) /\ (pc[r] = "done" => result'[r] = result[r])
      BY DEF TypeOK, Next, Progress, Start, GetSession, RenewSession, GiveUp, Handshake, Throttled,
         WhoamiOk, WhoamiFails, CsrfOk, CsrfFails, HandshakeAborted, HandshakeFails, Send, SendOk,
         SendUnauthorized, SendFails, Cancel, Lapse, Terminated, InHandshake, Finish, SendWith, StartHandshake
    <3>2. QED
      BY <3>1, RequestsAssumption, FS_Subset DEF CancelledRenewals, NotYetApplied
  <2>2. QED
    BY <1>2, <2>1, SubsetCount, LimitsAssumption DEF Excused
<1>3. CASE handshakeErr = "definitive"
  <2>1. ASSUME NEW r \in Requests, RenewSession(r) PROVE Excused'
    <3>1. held[r] \in Dead /\ \E t \in Dead : held[r] < t
      BY <1>3, <2>1 DEF RenewSession, HostHealthy, RetriedForDead
    <3>2. TwoDead'
      BY <3>1 DEF TwoDead, TypeOK
    <3>3. QED
      BY <3>2 DEF Excused
  <2>2. CASE handshakeErr' = "definitive"
    BY <2>2 DEF Excused
  <2>3. QED
    BY <1>3, <2>1, <2>2 DEF OnlyLapses, TypeOK, Next, Progress, Start, GetSession, GiveUp, Handshake, Throttled,
         WhoamiOk, WhoamiFails, CsrfOk, CsrfFails, HandshakeAborted, HandshakeFails, Remember, Send, SendOk,
         SendUnauthorized, SendFails, Cancel, Lapse, Terminated
<1>4. QED
  BY <1>1, <1>2, <1>3 DEF Excused

(* A request finds the renewals used up only with an excuse.               *)
LEMMA CapExcused ==
  ASSUME TypeOK, SingleFlight, SessionModeBuysNothing, NewestStored, HostHealthy, RetriedForDead,
         FailuresExcused, RetryOnce, RenewalCredit,
         NEW r \in Requests, pc[r] = "renew", sem = {}, ~AlreadyRenewed(r), ~RenewalsLeft
  PROVE  Excused
<1> SUFFICES ASSUME ~Excused PROVE FALSE
  OBVIOUS
<1>1. renewals = MaxRenewals /\ mode = "token" /\ held[r] # NoSession /\ held[r] \in Dead
  BY LimitsAssumption DEF TypeOK, SessionModeBuysNothing, RetryOnce, RetriedForDead
<1>2. /\ IsFiniteSet(Dropped) /\ IsFiniteSet(CancelledRenewals)
      /\ Cardinality(Dropped) \in Nat /\ Cardinality(CancelledRenewals) \in Nat
  BY ReasonsFinite, RequestsAssumption, FS_Subset, FS_CardinalityType DEF CancelledRenewals
<1>3. Cardinality(FailedRetries) \in Nat /\ Cardinality(FailedRetries) <= Cardinality(CancelledRenewals)
  <2>1. FailedRetries \subseteq CancelledRenewals
    BY <1>1 DEF FailedRetries, CancelledRenewals, FailuresExcused
  <2>2. QED
    BY <1>2, <2>1, SubsetCount
<1>4. Cardinality(RefusedRetries) = 0
  BY FS_EmptySet DEF RefusedRetries, HostHealthy
<1>5. Cardinality(CancelledRenewals) < MaxRenewals
  BY <1>2, LimitsAssumption DEF Excused
<1>6. \A s, t \in Dead : s = t
  BY DEF Excused, TwoDead
<1>7. CASE cookie = NoSession
  <2>1. RenewalOwed
    BY <1>1, <1>7 DEF RenewalOwed, Renewing, SingleFlight
  <2>2. Cardinality(Dropped) <= 1
    <3>1. Dropped \subseteq {held[r]}
      BY <1>1, <1>6 DEF Dropped
    <3>2. IsFiniteSet({held[r]}) /\ Cardinality({held[r]}) = 1
      BY FS_Singleton
    <3>3. QED
      BY <3>1, <3>2, SubsetCount
  <2>3. QED
    BY <1>1, <1>2, <1>3, <1>4, <1>5, <2>1, <2>2, LimitsAssumption DEF RenewalCredit, Reasons
<1>8. CASE cookie # NoSession
  <2>1. Dropped = {}
    BY <1>1, <1>6, <1>8 DEF Dropped, AlreadyRenewed
  <2>2. QED
    BY <1>1, <1>2, <1>3, <1>4, <1>5, <2>1, FS_EmptySet, LimitsAssumption DEF RenewalCredit, Reasons
<1>9. QED
  BY <1>7, <1>8

(* Who fails has an excuse. *)
LEMMA FailuresExcusedStep ==
  ASSUME OnlyLapses, TypeOK, TypeOK', SingleFlight, SessionModeBuysNothing, NewestStored, NotYetApplied,
         HostHealthy, HostHealthy', RetriedForDead, FailuresExcused, RetryOnce, RenewalCredit,
         Dead \subseteq Dead', [Next]_vars
  PROVE  FailuresExcused'
<1>0. Excused => Excused'
  BY ExcuseStands
<1>u. ASSUME UNCHANGED <<mode, result>> PROVE FailuresExcused'
  BY <1>0, <1>u DEF FailuresExcused
<1>f. ASSUME NEW r \in Requests, NEW res, Finish(r, res), UNCHANGED mode,
             res \in {"failed", "refused", "expired"} /\ mode = "token" => Excused'
      PROVE  FailuresExcused'
  BY <1>0, <1>f DEF FailuresExcused, Finish, TypeOK
<1>1. ASSUME NEW r \in Requests, GetSession(r) PROVE FailuresExcused'
  <2>1. CASE handshakeErr # "none" /\ Finish(r, "failed") /\ UNCHANGED <<handshakeVars, held>>
    <3>1. Excused
      BY <2>1 DEF HostHealthy, TypeOK, Excused
    <3>2. QED
      BY <1>0, <1>1, <1>f, <2>1, <3>1 DEF GetSession
  <2>2. QED
    BY <1>1, <1>u, <2>1 DEF GetSession, SendWith, StartHandshake
<1>2. ASSUME NEW r \in Requests, RenewSession(r) PROVE FailuresExcused'
  <2>1. CASE ~AlreadyRenewed(r) /\ ~RenewalsLeft /\ Finish(r, "failed")
    <3>1. Excused
      BY <1>2, <2>1, CapExcused DEF RenewSession
    <3>2. QED
      BY <1>0, <1>2, <1>f, <2>1, <3>1 DEF RenewSession
  <2>2. QED
    BY <1>2, <1>u, <2>1 DEF RenewSession, SendWith, StartHandshake
<1>3. ASSUME NEW r \in Requests, GiveUp(r) PROVE FailuresExcused'
  BY <1>3, <1>f DEF GiveUp
<1>4. ASSUME NEW r \in Requests, CsrfFails(r) PROVE FailuresExcused'
  <2>1. handshakeErr' = "definitive" /\ Finish(r, "failed") /\ UNCHANGED mode
    BY <1>4 DEF CsrfFails, HandshakeFails, Remember, OnlyLapses
  <2>2. QED
    BY <1>f, <2>1 DEF Excused
<1>5. ASSUME NEW r \in Requests, HandshakeAborted(r) PROVE FailuresExcused'
  BY <1>5, <1>f DEF HandshakeAborted
<1>6. ASSUME NEW r \in Requests, SendOk(r) PROVE FailuresExcused'
  BY <1>6, <1>f DEF SendOk
<1>7. ASSUME NEW r \in Requests, SendUnauthorized(r) PROVE FailuresExcused'
  <2>1. CASE mode = "token" /\ retried[r] /\ Finish(r, "refused")
    <3>1. held[r] \in Dead
      BY <1>7, <2>1 DEF SendUnauthorized, Accepted, HostHealthy, Dead, RetryOnce, NewestStored, NoSession, TypeOK
    <3>2. \E s \in Dead : s < held[r]
      BY <1>7, <2>1 DEF SendUnauthorized, RetriedForDead
    <3>3. Excused
      BY <3>1, <3>2 DEF Excused, TwoDead, TypeOK
    <3>4. QED
      BY <1>0, <1>7, <1>f, <2>1, <3>3 DEF SendUnauthorized
  <2>2. CASE mode = "session" /\ Finish(r, "expired")
    BY <1>7, <1>f, <2>2 DEF SendUnauthorized
  <2>3. QED
    BY <1>7, <1>u, <2>1, <2>2 DEF SendUnauthorized
<1>8. ASSUME NEW r \in Requests, SendFails(r) PROVE FailuresExcused'
  <2>1. Finish(r, "cancelled") /\ UNCHANGED mode
    BY <1>8 DEF SendFails, OnlyLapses
  <2>2. QED
    BY <1>f, <2>1
<1>9. ASSUME NEW r \in Requests, Start(r) \/ WhoamiOk(r) \/ CsrfOk(r) \/ Cancel(r) PROVE FailuresExcused'
  BY <1>9, <1>u DEF Start, SendWith, WhoamiOk, CsrfOk, Cancel
<1>10. ASSUME NEW r \in Requests, Throttled(r) \/ WhoamiFails(r) PROVE FALSE
  BY <1>10 DEF Throttled, WhoamiFails, OnlyLapses
<1>11. ASSUME NEW s \in valid, Lapse(s) PROVE FailuresExcused'
  BY <1>11, <1>u DEF Lapse
<1>12. CASE UNCHANGED vars
  BY <1>12, <1>u
<1>13. QED
  BY <1>1, <1>2, <1>3, <1>4, <1>5, <1>6, <1>7, <1>8, <1>9, <1>10, <1>11, <1>12
  DEF Next, Progress, Handshake, Send, Terminated

(* The host refuses, throttles and loses nothing, but its sessions lapse   *)
(* when they like and callers cancel when they like: whoever fails has an  *)
(* excuse.                                                                 *)
THEOREM LapsesInductive ==
  ASSUME OnlyLapses
  PROVE  Spec => [](HostHealthy /\ RetriedForDead /\ FailuresExcused)
<1>1. Init => HostHealthy /\ RetriedForDead /\ FailuresExcused
  BY DEF Init, OnlyLapses, HostHealthy, RetriedForDead, FailuresExcused, InHandshake
<1>2. IInv /\ TypeOK' /\ RetryOnce /\ RenewalCredit /\ HostHealthy /\ RetriedForDead /\ FailuresExcused
        /\ [Next]_vars => (HostHealthy /\ RetriedForDead /\ FailuresExcused)'
  <2> SUFFICES ASSUME IInv, TypeOK', RetryOnce, RenewalCredit, HostHealthy, RetriedForDead, FailuresExcused,
                      [Next]_vars
               PROVE  HostHealthy' /\ RetriedForDead' /\ FailuresExcused'
    OBVIOUS
  <2>1. Dead \subseteq Dead'
    BY DeadGrows DEF IInv
  <2>2. HostHealthy' /\ RetriedForDead'
    BY <2>1, HostHealthyStep, RetriedForDeadStep DEF IInv
  <2>3. FailuresExcused'
    BY <2>1, <2>2, FailuresExcusedStep DEF IInv
  <2>4. QED
    BY <2>2, <2>3
<1>3. QED
  BY <1>1, <1>2, TypeCorrect, Inductive, RenewalsInductive, PTL DEF Spec

(* A request that reports a cancellation was cancelled, and only where     *)
(* callers cancel.                                                         *)
CancelledOnly ==
  \A r \in Requests : /\ result[r] \in {"cancelled", "aborted"} => ctxDone[r]
                      /\ ctxDone[r] => "cancel" \in Faults

LEMMA CancelledIsCancelled ==
  ASSUME OnlyLapses
  PROVE  Spec => []CancelledOnly
<1>1. Init => CancelledOnly
  BY DEF Init, CancelledOnly
<1>2. TypeOK /\ CancelledOnly /\ [Next]_vars => CancelledOnly'
  BY DEF OnlyLapses, TypeOK, CancelledOnly, Next, Progress, Start, GetSession, RenewSession, GiveUp, Handshake,
         Throttled, WhoamiOk, WhoamiFails, CsrfOk, CsrfFails, HandshakeAborted, HandshakeFails, Send, SendOk,
         SendUnauthorized, SendFails, Cancel, Lapse, Terminated, Finish, SendWith, StartHandshake
<1>3. QED
  BY <1>1, <1>2, TypeCorrect, PTL DEF Spec

LEMMA OneDead ==
  ASSUME TypeOK, Cardinality(Dead) <= 1
  PROVE  ~TwoDead
<1> SUFFICES ASSUME NEW s \in Dead, NEW t \in Dead, s # t PROVE FALSE
  BY DEF TwoDead
<1>1. IsFiniteSet(Dead) /\ {s} \subseteq Dead /\ t \in Dead \ {s}
  BY ReasonsFinite
<1>2. Cardinality({s}) = 1 /\ Cardinality({s}) + 1 <= Cardinality(Dead) /\ Cardinality(Dead) \in Nat
  BY <1>1, FS_Singleton, SubsetCount
<1>3. QED
  BY <1>2

(* One expiry is invisible: on a host that only lets sessions lapse, a     *)
(* request that was not itself cancelled returns what the host answered,   *)
(* unless the CSRF read itself was refused, a second session lapsed or     *)
(* cancelled renewals alone have spent the cap (client.go:213-215,         *)
(* session.go:43), for any number of requests and any cap.                 *)
THEOREM LapseIsInvisible ==
  ASSUME OnlyLapses
  PROVE  Spec => []OneLapseIsInvisible
<1>1. TypeOK /\ FailuresExcused /\ CancelledOnly => OneLapseIsInvisible
  <2> SUFFICES ASSUME TypeOK, FailuresExcused, CancelledOnly, Cardinality(CancelledRenewals) < MaxRenewals,
                      mode = "token", handshakeErr # "definitive", Cardinality(Dead) <= 1,
                      NEW r \in Requests, ~ctxDone[r]
               PROVE  result[r] \in {"none", "ok"}
    BY DEF OneLapseIsInvisible, Dead
  <2>1. Cardinality(CancelledRenewals) \in Nat /\ MaxRenewals \in Nat
    BY RequestsAssumption, FS_Subset, FS_CardinalityType, LimitsAssumption DEF CancelledRenewals
  <2>2. ~Excused
    BY <2>1, OneDead DEF Excused
  <2>3. QED
    BY <2>2 DEF FailuresExcused, CancelledOnly, TypeOK, Results
<1>2. QED
  BY <1>1, TypeCorrect, LapsesInductive, CancelledIsCancelled, PTL

=============================================================================
