---------------------------- MODULE SessionProofs ----------------------------
(* Proofs about Session, for every set of requests, every limit and every  *)
(* combination of faults.                                                  *)
EXTENDS Session, FiniteSetTheorems, TLAPS

(* The groups of variables are only abbreviations. *)
USE DEF vars, clientVars, handshakeVars, hostVars, requestVars, LockFree, RenewalsLeft

(* A login extends the sessions the host accepts by the newest one.        *)
LEMMA LoginTypes ==
  ASSUME bought \in Nat, valid \in SUBSET (1..bought), NoLogin \/ HostLogsIn
  PROVE  bought' \in Nat /\ valid' \in SUBSET (1..bought')
<1>1. CASE NoLogin
  BY <1>1 DEF NoLogin
<1>2. CASE HostLogsIn
  BY <1>2 DEF HostLogsIn
<1>3. QED
  BY <1>1, <1>2

(* A handshake that fails keeps the types, whether or not it logged in.    *)
LEMMA FailureTypes ==
  ASSUME TypeOK, NEW r \in Requests, NEW kind, HandshakeFails(r, kind), NoLogin \/ HostLogsIn
  PROVE  TypeOK'
<1> USE DEF HandshakeFails, Finish, TypeOK, Places, Results
<1>1. /\ transientFails' \in Nat
      /\ handshakeErr' \in {"none", "transient", "definitive"}
  <2>1. CASE kind = "definitive" /\ handshakeErr' = "definitive" /\ UNCHANGED transientFails
    BY <2>1
  <2>2. CASE /\ transientFails' = transientFails + 1
             /\ handshakeErr' = IF transientFails + 1 >= TransientLimit
                                THEN "transient" ELSE handshakeErr
    BY <2>2
  <2>3. QED
    BY <2>1, <2>2 DEF Remember
<1>2. bought' \in Nat /\ valid' \in SUBSET (1..bought')
  BY LoginTypes
<1>3. pc' \in [Requests -> Places] /\ result' \in [Requests -> Results]
  OBVIOUS
<1>4. QED
  BY <1>1, <1>2, <1>3

(* The type invariant is inductive: the session state, the lock and every  *)
(* request stay within their types.                                        *)
THEOREM TypeCorrect == Spec => []TypeOK
<1>1. Init => TypeOK
  BY LimitsAssumption DEF Init, TypeOK, NoSession, FixedSession, Places, Results
<1>2. TypeOK /\ [Next]_vars => TypeOK'
  <2> SUFFICES ASSUME TypeOK, [Next]_vars PROVE TypeOK'
    OBVIOUS
  <2> USE LimitsAssumption DEF TypeOK, Places, Results, Finish, SendWith, StartHandshake,
          NoSession, FixedSession
  <2>1. ASSUME NEW r \in Requests, Start(r) PROVE TypeOK'
    BY <2>1 DEF Start
  <2>2. ASSUME NEW r \in Requests, GetSession(r) PROVE TypeOK'
    BY <2>2 DEF GetSession
  <2>3. ASSUME NEW r \in Requests, RenewSession(r) PROVE TypeOK'
    BY <2>3 DEF RenewSession
  <2>4. ASSUME NEW r \in Requests, GiveUp(r) PROVE TypeOK'
    BY <2>4 DEF GiveUp
  <2>5. ASSUME NEW r \in Requests, Throttled(r) PROVE TypeOK'
    <3>1. CASE HandshakeFails(r, "definitive") /\ NoLogin
      BY <3>1, FailureTypes
    <3>2. CASE /\ attempt < HandshakeAttempts
               /\ attempt' = attempt + 1
               /\ UNCHANGED <<mode, clientVars, sem, pending, hostVars, requestVars>>
      BY <3>2
    <3>3. QED
      BY <2>5, <3>1, <3>2, FailureTypes DEF Throttled
  <2>6. ASSUME NEW r \in Requests, WhoamiOk(r) PROVE TypeOK'
    BY <2>6 DEF WhoamiOk, HostLogsIn
  <2>7. ASSUME NEW r \in Requests, WhoamiFails(r) PROVE TypeOK'
    BY <2>7, FailureTypes DEF WhoamiFails
  <2>8. ASSUME NEW r \in Requests, CsrfOk(r) PROVE TypeOK'
    BY <2>8 DEF CsrfOk
  <2>9. ASSUME NEW r \in Requests, CsrfFails(r) PROVE TypeOK'
    BY <2>9, FailureTypes DEF CsrfFails
  <2>10. ASSUME NEW r \in Requests, HandshakeAborted(r) PROVE TypeOK'
    <3>1. bought' \in Nat /\ valid' \in SUBSET (1..bought')
      BY <2>10, LoginTypes DEF HandshakeAborted
    <3>2. QED
      BY <2>10, <3>1 DEF HandshakeAborted
  <2>11. ASSUME NEW r \in Requests, Send(r) PROVE TypeOK'
    <3>1. CASE SendOk(r)
      BY <3>1 DEF SendOk
    <3>2. CASE SendUnauthorized(r)
      BY <3>2 DEF SendUnauthorized
    <3>3. CASE SendFails(r)
      <4>1. applied' \in [Requests -> Nat]
        BY <3>3 DEF SendFails
      <4>2. QED
        BY <3>3, <4>1 DEF SendFails
    <3>4. QED
      BY <2>11, <3>1, <3>2, <3>3 DEF Send
  <2>12. ASSUME NEW r \in Requests, Cancel(r) PROVE TypeOK'
    BY <2>12 DEF Cancel
  <2>13. ASSUME NEW s \in valid, Lapse(s) PROVE TypeOK'
    BY <2>13 DEF Lapse
  <2>14. CASE UNCHANGED vars
    BY <2>14
  <2>15. QED
    BY <2>1, <2>2, <2>3, <2>4, <2>5, <2>6, <2>7, <2>8, <2>9, <2>10, <2>11, <2>12, <2>13, <2>14
    DEF Next, Progress, Handshake, Terminated
<1>3. QED
  BY <1>1, <1>2, PTL DEF Spec

(* Single flight is preserved by every step.                               *)
LEMMA SingleFlightStep ==
  ASSUME TypeOK, SingleFlight, [Next]_vars
  PROVE  SingleFlight'
<1> USE LimitsAssumption DEF TypeOK, SingleFlight, InHandshake
<1>1. ASSUME NEW r \in Requests, Start(r) PROVE SingleFlight'
  BY <1>1 DEF Start, SendWith
<1>2. ASSUME NEW r \in Requests, GetSession(r) PROVE SingleFlight'
  BY <1>2 DEF GetSession, Finish, SendWith, StartHandshake
<1>3. ASSUME NEW r \in Requests, RenewSession(r) PROVE SingleFlight'
  BY <1>3 DEF RenewSession, Finish, SendWith, StartHandshake, AlreadyRenewed
<1>4. ASSUME NEW r \in Requests, GiveUp(r) PROVE SingleFlight'
  BY <1>4 DEF GiveUp, Finish
<1>5. ASSUME NEW r \in Requests, Throttled(r) PROVE SingleFlight'
  BY <1>5 DEF Throttled, HandshakeFails, NoLogin, Finish
<1>6. ASSUME NEW r \in Requests, WhoamiOk(r) PROVE SingleFlight'
  BY <1>6 DEF WhoamiOk, HostLogsIn
<1>7. ASSUME NEW r \in Requests, WhoamiFails(r) PROVE SingleFlight'
  BY <1>7 DEF WhoamiFails, HandshakeFails, NoLogin, HostLogsIn, Finish
<1>8. ASSUME NEW r \in Requests, CsrfOk(r) PROVE SingleFlight'
  BY <1>8 DEF CsrfOk, SendWith
<1>9. ASSUME NEW r \in Requests, CsrfFails(r) PROVE SingleFlight'
  BY <1>9 DEF CsrfFails, HandshakeFails, NoLogin, Finish
<1>10. ASSUME NEW r \in Requests, HandshakeAborted(r) PROVE SingleFlight'
  BY <1>10 DEF HandshakeAborted, Finish, NoLogin, HostLogsIn
<1>11. ASSUME NEW r \in Requests, SendOk(r) PROVE SingleFlight'
  BY <1>11 DEF SendOk, Finish
<1>12. ASSUME NEW r \in Requests, SendUnauthorized(r) PROVE SingleFlight'
  BY <1>12 DEF SendUnauthorized, Finish
<1>13. ASSUME NEW r \in Requests, SendFails(r) PROVE SingleFlight'
  BY <1>13 DEF SendFails, Finish
<1>14. ASSUME NEW r \in Requests, Cancel(r) PROVE SingleFlight'
  BY <1>14 DEF Cancel
<1>15. ASSUME NEW s \in valid, Lapse(s) PROVE SingleFlight'
  BY <1>15 DEF Lapse
<1>16. CASE UNCHANGED vars
  BY <1>16
<1>17. QED
  BY <1>1, <1>2, <1>3, <1>4, <1>5, <1>6, <1>7, <1>8, <1>9, <1>10, <1>11, <1>12, <1>13, <1>14, <1>15, <1>16
  DEF Next, Progress, Handshake, Send, Terminated

(* A handshake runs only while neither a session nor a failure is stored.  *)
LEMMA HandshakeStartedStep ==
  ASSUME TypeOK, SingleFlight, HandshakeStarted, [Next]_vars
  PROVE  HandshakeStarted'
<1> USE LimitsAssumption DEF TypeOK, SingleFlight, HandshakeStarted, InHandshake, NoSession
<1>1. ASSUME NEW r \in Requests, Start(r) PROVE HandshakeStarted'
  BY <1>1 DEF Start, SendWith
<1>2. ASSUME NEW r \in Requests, GetSession(r) PROVE HandshakeStarted'
  BY <1>2 DEF GetSession, Finish, SendWith, StartHandshake
<1>3. ASSUME NEW r \in Requests, RenewSession(r) PROVE HandshakeStarted'
  BY <1>3 DEF RenewSession, Finish, SendWith, StartHandshake, AlreadyRenewed
<1>4. ASSUME NEW r \in Requests, GiveUp(r) PROVE HandshakeStarted'
  BY <1>4 DEF GiveUp, Finish
<1>5. ASSUME NEW r \in Requests, Throttled(r) PROVE HandshakeStarted'
  BY <1>5 DEF Throttled, HandshakeFails, NoLogin, Finish
<1>6. ASSUME NEW r \in Requests, WhoamiOk(r) PROVE HandshakeStarted'
  BY <1>6 DEF WhoamiOk, HostLogsIn
<1>7. ASSUME NEW r \in Requests, WhoamiFails(r) PROVE HandshakeStarted'
  BY <1>7 DEF WhoamiFails, HandshakeFails, NoLogin, HostLogsIn, Finish
<1>8. ASSUME NEW r \in Requests, CsrfOk(r) PROVE HandshakeStarted'
  BY <1>8 DEF CsrfOk, SendWith
<1>9. ASSUME NEW r \in Requests, CsrfFails(r) PROVE HandshakeStarted'
  BY <1>9 DEF CsrfFails, HandshakeFails, NoLogin, Finish
<1>10. ASSUME NEW r \in Requests, HandshakeAborted(r) PROVE HandshakeStarted'
  BY <1>10 DEF HandshakeAborted, Finish, NoLogin, HostLogsIn
<1>11. ASSUME NEW r \in Requests, SendOk(r) PROVE HandshakeStarted'
  BY <1>11 DEF SendOk, Finish
<1>12. ASSUME NEW r \in Requests, SendUnauthorized(r) PROVE HandshakeStarted'
  BY <1>12 DEF SendUnauthorized, Finish
<1>13. ASSUME NEW r \in Requests, SendFails(r) PROVE HandshakeStarted'
  BY <1>13 DEF SendFails, Finish
<1>14. ASSUME NEW r \in Requests, Cancel(r) PROVE HandshakeStarted'
  BY <1>14 DEF Cancel
<1>15. ASSUME NEW s \in valid, Lapse(s) PROVE HandshakeStarted'
  BY <1>15 DEF Lapse
<1>16. CASE UNCHANGED vars
  BY <1>16
<1>17. QED
  BY <1>1, <1>2, <1>3, <1>4, <1>5, <1>6, <1>7, <1>8, <1>9, <1>10, <1>11, <1>12, <1>13, <1>14, <1>15, <1>16
  DEF Next, Progress, Handshake, Send, Terminated

(* In session mode no step reaches the lock or the handshake.              *)
LEMMA SessionModeBuysNothingStep ==
  ASSUME TypeOK, SingleFlight, SessionModeBuysNothing, [Next]_vars
  PROVE  SessionModeBuysNothing'
<1> USE LimitsAssumption DEF TypeOK, SingleFlight, SessionModeBuysNothing, InHandshake, FixedSession
<1>1. ASSUME NEW r \in Requests, Start(r) PROVE SessionModeBuysNothing'
  BY <1>1 DEF Start, SendWith
<1>2. ASSUME NEW r \in Requests, GetSession(r) PROVE SessionModeBuysNothing'
  BY <1>2 DEF GetSession, Finish, SendWith, StartHandshake
<1>3. ASSUME NEW r \in Requests, RenewSession(r) PROVE SessionModeBuysNothing'
  BY <1>3 DEF RenewSession, Finish, SendWith, StartHandshake, AlreadyRenewed
<1>4. ASSUME NEW r \in Requests, GiveUp(r) PROVE SessionModeBuysNothing'
  BY <1>4 DEF GiveUp, Finish
<1>5. ASSUME NEW r \in Requests, Throttled(r) PROVE SessionModeBuysNothing'
  BY <1>5 DEF Throttled, HandshakeFails, NoLogin, Finish
<1>6. ASSUME NEW r \in Requests, WhoamiOk(r) PROVE SessionModeBuysNothing'
  BY <1>6 DEF WhoamiOk, HostLogsIn
<1>7. ASSUME NEW r \in Requests, WhoamiFails(r) PROVE SessionModeBuysNothing'
  BY <1>7 DEF WhoamiFails, HandshakeFails, NoLogin, HostLogsIn, Finish
<1>8. ASSUME NEW r \in Requests, CsrfOk(r) PROVE SessionModeBuysNothing'
  BY <1>8 DEF CsrfOk, SendWith
<1>9. ASSUME NEW r \in Requests, CsrfFails(r) PROVE SessionModeBuysNothing'
  BY <1>9 DEF CsrfFails, HandshakeFails, NoLogin, Finish
<1>10. ASSUME NEW r \in Requests, HandshakeAborted(r) PROVE SessionModeBuysNothing'
  BY <1>10 DEF HandshakeAborted, Finish, NoLogin, HostLogsIn
<1>11. ASSUME NEW r \in Requests, SendOk(r) PROVE SessionModeBuysNothing'
  BY <1>11 DEF SendOk, Finish
<1>12. ASSUME NEW r \in Requests, SendUnauthorized(r) PROVE SessionModeBuysNothing'
  BY <1>12 DEF SendUnauthorized, Finish
<1>13. ASSUME NEW r \in Requests, SendFails(r) PROVE SessionModeBuysNothing'
  BY <1>13 DEF SendFails, Finish
<1>14. ASSUME NEW r \in Requests, Cancel(r) PROVE SessionModeBuysNothing'
  BY <1>14 DEF Cancel
<1>15. ASSUME NEW s \in valid, Lapse(s) PROVE SessionModeBuysNothing'
  BY <1>15 DEF Lapse
<1>16. CASE UNCHANGED vars
  BY <1>16
<1>17. QED
  BY <1>1, <1>2, <1>3, <1>4, <1>5, <1>6, <1>7, <1>8, <1>9, <1>10, <1>11, <1>12, <1>13, <1>14, <1>15, <1>16
  DEF Next, Progress, Handshake, Send, Terminated

(* The stored or pending session stays the newest one in use.              *)
LEMMA NewestStoredStep ==
  ASSUME TypeOK, SingleFlight, HandshakeStarted, SessionModeBuysNothing, NewestStored, [Next]_vars
  PROVE  NewestStored'
<1> USE LimitsAssumption DEF TypeOK, SingleFlight, HandshakeStarted, SessionModeBuysNothing, NewestStored, InHandshake, NoSession, FixedSession
<1>1. ASSUME NEW r \in Requests, Start(r) PROVE NewestStored'
  BY <1>1 DEF Start, SendWith
<1>2. ASSUME NEW r \in Requests, GetSession(r) PROVE NewestStored'
  BY <1>2 DEF GetSession, Finish, SendWith, StartHandshake
<1>3. ASSUME NEW r \in Requests, RenewSession(r) PROVE NewestStored'
  BY <1>3 DEF RenewSession, Finish, SendWith, StartHandshake, AlreadyRenewed
<1>4. ASSUME NEW r \in Requests, GiveUp(r) PROVE NewestStored'
  BY <1>4 DEF GiveUp, Finish
<1>5. ASSUME NEW r \in Requests, Throttled(r) PROVE NewestStored'
  BY <1>5 DEF Throttled, HandshakeFails, NoLogin, Finish
<1>6. ASSUME NEW r \in Requests, WhoamiOk(r) PROVE NewestStored'
  BY <1>6 DEF WhoamiOk, HostLogsIn
<1>7. ASSUME NEW r \in Requests, WhoamiFails(r) PROVE NewestStored'
  BY <1>7 DEF WhoamiFails, HandshakeFails, NoLogin, HostLogsIn, Finish
<1>8. ASSUME NEW r \in Requests, CsrfOk(r) PROVE NewestStored'
  BY <1>8 DEF CsrfOk, SendWith
<1>9. ASSUME NEW r \in Requests, CsrfFails(r) PROVE NewestStored'
  BY <1>9 DEF CsrfFails, HandshakeFails, NoLogin, Finish
<1>10. ASSUME NEW r \in Requests, HandshakeAborted(r) PROVE NewestStored'
  BY <1>10 DEF HandshakeAborted, Finish, NoLogin, HostLogsIn
<1>11. ASSUME NEW r \in Requests, SendOk(r) PROVE NewestStored'
  BY <1>11 DEF SendOk, Finish
<1>12. ASSUME NEW r \in Requests, SendUnauthorized(r) PROVE NewestStored'
  BY <1>12 DEF SendUnauthorized, Finish
<1>13. ASSUME NEW r \in Requests, SendFails(r) PROVE NewestStored'
  BY <1>13 DEF SendFails, Finish
<1>14. ASSUME NEW r \in Requests, Cancel(r) PROVE NewestStored'
  BY <1>14 DEF Cancel
<1>15. ASSUME NEW s \in valid, Lapse(s) PROVE NewestStored'
  BY <1>15 DEF Lapse
<1>16. CASE UNCHANGED vars
  BY <1>16
<1>17. QED
  BY <1>1, <1>2, <1>3, <1>4, <1>5, <1>6, <1>7, <1>8, <1>9, <1>10, <1>11, <1>12, <1>13, <1>14, <1>15, <1>16
  DEF Next, Progress, Handshake, Send, Terminated

(* What a request was refused for still holds when it asks for a renewal.  *)
LEMMA RefusalStandsStep ==
  ASSUME TypeOK, NewestStored, RefusalStands, [Next]_vars
  PROVE  RefusalStands'
<1> USE LimitsAssumption DEF TypeOK, NewestStored, RefusalStands, InHandshake, NoSession, Accepted
<1>1. ASSUME NEW r \in Requests, Start(r) PROVE RefusalStands'
  BY <1>1 DEF Start, SendWith
<1>2. ASSUME NEW r \in Requests, GetSession(r) PROVE RefusalStands'
  BY <1>2 DEF GetSession, Finish, SendWith, StartHandshake
<1>3. ASSUME NEW r \in Requests, RenewSession(r) PROVE RefusalStands'
  BY <1>3 DEF RenewSession, Finish, SendWith, StartHandshake, AlreadyRenewed
<1>4. ASSUME NEW r \in Requests, GiveUp(r) PROVE RefusalStands'
  BY <1>4 DEF GiveUp, Finish
<1>5. ASSUME NEW r \in Requests, Throttled(r) PROVE RefusalStands'
  BY <1>5 DEF Throttled, HandshakeFails, NoLogin, Finish
<1>6. ASSUME NEW r \in Requests, WhoamiOk(r) PROVE RefusalStands'
  BY <1>6 DEF WhoamiOk, HostLogsIn
<1>7. ASSUME NEW r \in Requests, WhoamiFails(r) PROVE RefusalStands'
  BY <1>7 DEF WhoamiFails, HandshakeFails, NoLogin, HostLogsIn, Finish
<1>8. ASSUME NEW r \in Requests, CsrfOk(r) PROVE RefusalStands'
  BY <1>8 DEF CsrfOk, SendWith
<1>9. ASSUME NEW r \in Requests, CsrfFails(r) PROVE RefusalStands'
  BY <1>9 DEF CsrfFails, HandshakeFails, NoLogin, Finish
<1>10. ASSUME NEW r \in Requests, HandshakeAborted(r) PROVE RefusalStands'
  BY <1>10 DEF HandshakeAborted, Finish, NoLogin, HostLogsIn
<1>11. ASSUME NEW r \in Requests, SendOk(r) PROVE RefusalStands'
  BY <1>11 DEF SendOk, Finish
<1>12. ASSUME NEW r \in Requests, SendUnauthorized(r) PROVE RefusalStands'
  BY <1>12 DEF SendUnauthorized, Finish
<1>13. ASSUME NEW r \in Requests, SendFails(r) PROVE RefusalStands'
  BY <1>13 DEF SendFails, Finish
<1>14. ASSUME NEW r \in Requests, Cancel(r) PROVE RefusalStands'
  BY <1>14 DEF Cancel
<1>15. ASSUME NEW s \in valid, Lapse(s) PROVE RefusalStands'
  BY <1>15 DEF Lapse
<1>16. CASE UNCHANGED vars
  BY <1>16
<1>17. QED
  BY <1>1, <1>2, <1>3, <1>4, <1>5, <1>6, <1>7, <1>8, <1>9, <1>10, <1>11, <1>12, <1>13, <1>14, <1>15, <1>16
  DEF Next, Progress, Handshake, Send, Terminated

(* Nothing is carried out, and nothing returned, before a request ends.    *)
LEMMA NotYetAppliedStep ==
  ASSUME TypeOK, NotYetApplied, [Next]_vars
  PROVE  NotYetApplied'
<1> USE LimitsAssumption DEF TypeOK, NotYetApplied, InHandshake
<1>1. ASSUME NEW r \in Requests, Start(r) PROVE NotYetApplied'
  BY <1>1 DEF Start, SendWith
<1>2. ASSUME NEW r \in Requests, GetSession(r) PROVE NotYetApplied'
  BY <1>2 DEF GetSession, Finish, SendWith, StartHandshake
<1>3. ASSUME NEW r \in Requests, RenewSession(r) PROVE NotYetApplied'
  BY <1>3 DEF RenewSession, Finish, SendWith, StartHandshake, AlreadyRenewed
<1>4. ASSUME NEW r \in Requests, GiveUp(r) PROVE NotYetApplied'
  BY <1>4 DEF GiveUp, Finish
<1>5. ASSUME NEW r \in Requests, Throttled(r) PROVE NotYetApplied'
  BY <1>5 DEF Throttled, HandshakeFails, NoLogin, Finish
<1>6. ASSUME NEW r \in Requests, WhoamiOk(r) PROVE NotYetApplied'
  BY <1>6 DEF WhoamiOk, HostLogsIn
<1>7. ASSUME NEW r \in Requests, WhoamiFails(r) PROVE NotYetApplied'
  BY <1>7 DEF WhoamiFails, HandshakeFails, NoLogin, HostLogsIn, Finish
<1>8. ASSUME NEW r \in Requests, CsrfOk(r) PROVE NotYetApplied'
  BY <1>8 DEF CsrfOk, SendWith
<1>9. ASSUME NEW r \in Requests, CsrfFails(r) PROVE NotYetApplied'
  BY <1>9 DEF CsrfFails, HandshakeFails, NoLogin, Finish
<1>10. ASSUME NEW r \in Requests, HandshakeAborted(r) PROVE NotYetApplied'
  BY <1>10 DEF HandshakeAborted, Finish, NoLogin, HostLogsIn
<1>11. ASSUME NEW r \in Requests, SendOk(r) PROVE NotYetApplied'
  BY <1>11 DEF SendOk, Finish
<1>12. ASSUME NEW r \in Requests, SendUnauthorized(r) PROVE NotYetApplied'
  BY <1>12 DEF SendUnauthorized, Finish
<1>13. ASSUME NEW r \in Requests, SendFails(r) PROVE NotYetApplied'
  BY <1>13 DEF SendFails, Finish
<1>14. ASSUME NEW r \in Requests, Cancel(r) PROVE NotYetApplied'
  BY <1>14 DEF Cancel
<1>15. ASSUME NEW s \in valid, Lapse(s) PROVE NotYetApplied'
  BY <1>15 DEF Lapse
<1>16. CASE UNCHANGED vars
  BY <1>16
<1>17. QED
  BY <1>1, <1>2, <1>3, <1>4, <1>5, <1>6, <1>7, <1>8, <1>9, <1>10, <1>11, <1>12, <1>13, <1>14, <1>15, <1>16
  DEF Next, Progress, Handshake, Send, Terminated

(* No step carries a request out a second time.                            *)
LEMMA AppliedAtMostOnceStep ==
  ASSUME TypeOK, NotYetApplied, AppliedAtMostOnce, [Next]_vars
  PROVE  AppliedAtMostOnce'
<1> USE LimitsAssumption DEF TypeOK, NotYetApplied, AppliedAtMostOnce, InHandshake, Accepted
<1>1. ASSUME NEW r \in Requests, Start(r) PROVE AppliedAtMostOnce'
  BY <1>1 DEF Start, SendWith
<1>2. ASSUME NEW r \in Requests, GetSession(r) PROVE AppliedAtMostOnce'
  BY <1>2 DEF GetSession, Finish, SendWith, StartHandshake
<1>3. ASSUME NEW r \in Requests, RenewSession(r) PROVE AppliedAtMostOnce'
  BY <1>3 DEF RenewSession, Finish, SendWith, StartHandshake, AlreadyRenewed
<1>4. ASSUME NEW r \in Requests, GiveUp(r) PROVE AppliedAtMostOnce'
  BY <1>4 DEF GiveUp, Finish
<1>5. ASSUME NEW r \in Requests, Throttled(r) PROVE AppliedAtMostOnce'
  BY <1>5 DEF Throttled, HandshakeFails, NoLogin, Finish
<1>6. ASSUME NEW r \in Requests, WhoamiOk(r) PROVE AppliedAtMostOnce'
  BY <1>6 DEF WhoamiOk, HostLogsIn
<1>7. ASSUME NEW r \in Requests, WhoamiFails(r) PROVE AppliedAtMostOnce'
  BY <1>7 DEF WhoamiFails, HandshakeFails, NoLogin, HostLogsIn, Finish
<1>8. ASSUME NEW r \in Requests, CsrfOk(r) PROVE AppliedAtMostOnce'
  BY <1>8 DEF CsrfOk, SendWith
<1>9. ASSUME NEW r \in Requests, CsrfFails(r) PROVE AppliedAtMostOnce'
  BY <1>9 DEF CsrfFails, HandshakeFails, NoLogin, Finish
<1>10. ASSUME NEW r \in Requests, HandshakeAborted(r) PROVE AppliedAtMostOnce'
  BY <1>10 DEF HandshakeAborted, Finish, NoLogin, HostLogsIn
<1>11. ASSUME NEW r \in Requests, SendOk(r) PROVE AppliedAtMostOnce'
  BY <1>11 DEF SendOk, Finish
<1>12. ASSUME NEW r \in Requests, SendUnauthorized(r) PROVE AppliedAtMostOnce'
  BY <1>12 DEF SendUnauthorized, Finish
<1>13. ASSUME NEW r \in Requests, SendFails(r) PROVE AppliedAtMostOnce'
  BY <1>13 DEF SendFails, Finish
<1>14. ASSUME NEW r \in Requests, Cancel(r) PROVE AppliedAtMostOnce'
  BY <1>14 DEF Cancel
<1>15. ASSUME NEW s \in valid, Lapse(s) PROVE AppliedAtMostOnce'
  BY <1>15 DEF Lapse
<1>16. CASE UNCHANGED vars
  BY <1>16
<1>17. QED
  BY <1>1, <1>2, <1>3, <1>4, <1>5, <1>6, <1>7, <1>8, <1>9, <1>10, <1>11, <1>12, <1>13, <1>14, <1>15, <1>16
  DEF Next, Progress, Handshake, Send, Terminated

(* One more renewal is worth TransientLimit more logins. *)
LEMMA OneMoreRenewal ==
  ASSUME TypeOK
  PROVE  /\ TransientLimit * renewals \in Nat
         /\ TransientLimit * (renewals + 1) = TransientLimit * renewals + TransientLimit
         /\ CountedFails \in 0..(TransientLimit - 1)
<1>1. renewals \in Nat /\ TransientLimit \in Nat \ {0} /\ transientFails \in Nat
  BY LimitsAssumption DEF TypeOK
<1>2. CountedFails \in 0..(TransientLimit - 1)
  BY <1>1 DEF CountedFails
<1>3. \A m, n \in Nat : m * n \in Nat /\ m * (n + 1) = m * n + m
  OBVIOUS
<1>4. QED
  BY <1>1, <1>2, <1>3

(* Only an aborted handshake changes the set of aborted requests. *)
LEMMA AbortedCount ==
  ASSUME TypeOK, NotYetApplied
  PROVE  /\ Cardinality(Aborted) \in Nat
         /\ \A r \in Requests, res \in Results \ {"aborted"} :
              pc[r] # "done" /\ Finish(r, res) => Aborted' = Aborted
         /\ \A r \in Requests :
              pc[r] # "done" /\ Finish(r, "aborted")
                => Cardinality(Aborted') = Cardinality(Aborted) + 1
<1>1. IsFiniteSet(Aborted) /\ Cardinality(Aborted) \in Nat
  BY RequestsAssumption, FS_Subset, FS_CardinalityType DEF Aborted
<1>2. ASSUME NEW r \in Requests, NEW res \in Results \ {"aborted"}, pc[r] # "done", Finish(r, res)
      PROVE Aborted' = Aborted
  BY <1>2 DEF TypeOK, Finish, NotYetApplied, Aborted
<1>3. ASSUME NEW r \in Requests, pc[r] # "done", Finish(r, "aborted")
      PROVE Cardinality(Aborted') = Cardinality(Aborted) + 1
  <2>1. Aborted' = Aborted \cup {r} /\ r \notin Aborted
    BY <1>3 DEF TypeOK, Finish, NotYetApplied, Aborted
  <2>2. QED
    BY <2>1, <1>1, FS_AddElement
<1>4. QED
  BY <1>1, <1>2, <1>3

(* A step that touches neither the stored session nor a handshake. *)
LEMMA BudgetFrame ==
  ASSUME LoginBudget, Aborted' = Aborted,
         UNCHANGED <<mode, sem, cookie, handshakeErr, renewals, transientFails, bought>>,
         \A q \in Requests : pc'[q] \in {"whoami", "csrf"} => pc'[q] = pc[q]
  PROVE  LoginBudget'
<1>1. Spent' = Spent
  BY DEF Spent, CountedFails
<1>2. QED
  BY <1>1 DEF LoginBudget

(* A failed handshake uses up at most one login of the budget. *)
LEMMA BudgetAfterFailure ==
  ASSUME TypeOK, SingleFlight, SingleFlight', HandshakeStarted, SessionModeBuysNothing, NotYetApplied,
         NEW r \in Requests, NEW kind \in {"transient", "definitive"},
         InHandshake(r), HandshakeFails(r, kind),
         bought' \in Nat, bought' <= Spent + 1
  PROVE  LoginBudget'
<1> DEFINE C == Cardinality(Aborted)
<1>1. /\ Aborted' = Aborted
      /\ C \in Nat
  BY AbortedCount DEF HandshakeFails, InHandshake, Results
<1>2. /\ TransientLimit * renewals \in Nat
      /\ TransientLimit * (renewals + 1) = TransientLimit * renewals + TransientLimit
      /\ CountedFails \in 0..(TransientLimit - 1)
  BY OneMoreRenewal
<1>3. cookie' = NoSession /\ renewals' = renewals /\ sem' = {} /\ mode' = mode /\ handshakeErr = "none"
  BY DEF HandshakeFails, HandshakeStarted, SingleFlight
<1>4. \A q \in Requests : pc'[q] \notin {"whoami", "csrf"}
  BY <1>3 DEF SingleFlight, InHandshake
<1>5. bought' <= TransientLimit * (renewals + 1) + C
  BY <1>1, <1>2, LimitsAssumption DEF Spent
<1>6. ASSUME handshakeErr' = "none" PROVE bought' <= Spent'
  <2>1. transientFails' = transientFails + 1 /\ transientFails + 1 < TransientLimit
    BY <1>6, <1>3, LimitsAssumption DEF HandshakeFails, Remember, TypeOK
  <2>2. CountedFails' = CountedFails + 1
    BY <2>1, LimitsAssumption DEF CountedFails, TypeOK
  <2>3. QED
    BY <2>2, <1>1, <1>2, <1>3 DEF Spent
<1>7. QED
  BY <1>1, <1>3, <1>4, <1>5, <1>6 DEF LoginBudget

(* Every step stays within the login budget.                               *)
LEMMA LoginBudgetStep ==
  ASSUME TypeOK, TypeOK', SingleFlight, SingleFlight', HandshakeStarted, SessionModeBuysNothing, NotYetApplied,
         LoginBudget, [Next]_vars
  PROVE  LoginBudget'
<1> DEFINE C == Cardinality(Aborted)
<1>a. /\ C \in Nat
      /\ \A r \in Requests, res \in Results \ {"aborted"} :
           pc[r] # "done" /\ Finish(r, res) => Aborted' = Aborted
      /\ \A r \in Requests : pc[r] # "done" /\ Finish(r, "aborted") => Cardinality(Aborted') = C + 1
      /\ UNCHANGED result => Aborted' = Aborted
  BY AbortedCount DEF Aborted
<1>b. /\ TransientLimit * renewals \in Nat
      /\ TransientLimit * (renewals + 1) = TransientLimit * renewals + TransientLimit
      /\ CountedFails \in 0..(TransientLimit - 1)
      /\ TransientLimit \in Nat
  BY OneMoreRenewal, LimitsAssumption
<1>0. bought \in Nat /\ bought' \in Nat
  BY DEF TypeOK
<1>c. ASSUME NEW r \in Requests, InHandshake(r)
      PROVE  mode = "token" /\ cookie = NoSession /\ handshakeErr = "none"
  BY <1>c DEF InHandshake, SessionModeBuysNothing, HandshakeStarted, SingleFlight, TypeOK
<1>1. ASSUME NEW r \in Requests, Start(r) PROVE LoginBudget'
  BY <1>1, <1>a, BudgetFrame DEF Start, SendWith, TypeOK
<1>2. ASSUME NEW r \in Requests, GetSession(r) PROVE LoginBudget'
  <2>1. CASE Finish(r, "failed") /\ UNCHANGED <<handshakeVars, held>>
    BY <1>2, <2>1, <1>a, BudgetFrame DEF GetSession, Finish, Results, TypeOK
  <2>2. CASE SendWith(r, cookie) /\ UNCHANGED handshakeVars
    BY <1>2, <2>2, <1>a, BudgetFrame DEF GetSession, SendWith, TypeOK
  <2>3. CASE handshakeErr = "none" /\ cookie = NoSession /\ StartHandshake(r)
    <3>1. Spent' = Spent
      BY <1>2, <2>3, <1>a DEF GetSession, StartHandshake, Spent, CountedFails
    <3>2. bought' <= Spent' \/ mode # "token"
      BY <1>2, <2>3, <3>1 DEF GetSession, LoginBudget
    <3>3. \A q \in Requests : pc'[q] # "csrf"
      BY <1>2, <2>3 DEF GetSession, StartHandshake, SingleFlight, InHandshake, TypeOK
    <3>4. QED
      BY <1>2, <2>3, <3>2, <3>3 DEF GetSession, StartHandshake, LoginBudget
  <2>4. QED
    BY <1>2, <2>1, <2>2, <2>3 DEF GetSession
<1>3. ASSUME NEW r \in Requests, RenewSession(r) PROVE LoginBudget'
  <2>1. CASE Finish(r, "failed") /\ UNCHANGED <<handshakeVars, clientVars, held>>
    BY <1>3, <2>1, <1>a, BudgetFrame DEF RenewSession, Finish, Results, TypeOK
  <2>2. CASE SendWith(r, cookie) /\ UNCHANGED <<handshakeVars, clientVars>>
    BY <1>3, <2>2, <1>a, BudgetFrame DEF RenewSession, SendWith, TypeOK
  <2>3. CASE /\ renewals' = renewals + 1
             /\ cookie' = NoSession
             /\ handshakeErr' = "none"
             /\ StartHandshake(r)
             /\ UNCHANGED transientFails
    <3>1. Spent' = TransientLimit * (renewals + 1) + CountedFails + C
      BY <1>3, <2>3, <1>a DEF StartHandshake, Spent, CountedFails
    <3>2. bought <= TransientLimit * (renewals + 1) + C \/ mode # "token"
      <4>1. CASE cookie # NoSession \/ handshakeErr # "none"
        BY <4>1 DEF LoginBudget, TypeOK
      <4>2. CASE cookie = NoSession /\ handshakeErr = "none"
        BY <1>3, <4>2, <1>a, <1>b DEF RenewSession, LoginBudget, Spent, TypeOK
      <4>3. QED
        BY <4>1, <4>2
    <3>3. bought' <= Spent' \/ mode # "token"
      BY <1>3, <3>1, <3>2, <1>a, <1>b DEF RenewSession, TypeOK
    <3>4. \A q \in Requests : pc'[q] # "csrf"
      BY <1>3, <2>3 DEF RenewSession, StartHandshake, SingleFlight, InHandshake, TypeOK
    <3>5. QED
      BY <1>3, <2>3, <3>3, <3>4 DEF RenewSession, StartHandshake, LoginBudget
  <2>4. QED
    BY <1>3, <2>1, <2>2, <2>3 DEF RenewSession
<1>4. ASSUME NEW r \in Requests, GiveUp(r) PROVE LoginBudget'
  BY <1>4, <1>a, BudgetFrame DEF GiveUp, Finish, Results, TypeOK
<1>5. ASSUME NEW r \in Requests, Throttled(r) PROVE LoginBudget'
  <2>1. CASE HandshakeFails(r, "definitive") /\ NoLogin
    <3>1. bought' <= Spent + 1
      BY <1>5, <2>1, <1>a, <1>b, <1>c DEF Throttled, InHandshake, LoginBudget, NoLogin, Spent, TypeOK
    <3>2. QED
      BY <1>5, <2>1, <3>1, <1>0, BudgetAfterFailure DEF Throttled
  <2>2. CASE UNCHANGED <<mode, clientVars, sem, pending, hostVars, requestVars>>
    BY <2>2, <1>a, BudgetFrame
  <2>3. QED
    BY <1>5, <2>1, <2>2 DEF Throttled
<1>6. ASSUME NEW r \in Requests, WhoamiOk(r) PROVE LoginBudget'
  <2>1. Spent' = Spent /\ Spent \in Nat
    BY <1>6, <1>a, <1>b DEF WhoamiOk, Spent, CountedFails
  <2>2. bought <= Spent /\ mode = "token"
    BY <1>6, <1>c DEF WhoamiOk, InHandshake, LoginBudget
  <2>3. bought' <= Spent' + 1
    BY <1>6, <2>1, <2>2 DEF WhoamiOk, HostLogsIn, TypeOK
  <2>4. \A q \in Requests : pc'[q] # "whoami"
    BY <1>6 DEF WhoamiOk, SingleFlight, InHandshake, TypeOK
  <2>5. sem' # {} /\ cookie' = NoSession /\ handshakeErr' = "none"
    BY <1>6, <1>c DEF WhoamiOk, SingleFlight, InHandshake
  <2>6. QED
    BY <2>3, <2>4, <2>5 DEF LoginBudget
<1>7. ASSUME NEW r \in Requests, WhoamiFails(r) PROVE LoginBudget'
  <2>1. bought <= Spent /\ Spent \in Nat
    BY <1>7, <1>a, <1>b, <1>c DEF WhoamiFails, InHandshake, LoginBudget, Spent
  <2>2. bought' <= Spent + 1
    BY <1>7, <2>1 DEF WhoamiFails, NoLogin, HostLogsIn, TypeOK
  <2>3. QED
    BY <1>7, <2>2, <1>0, BudgetAfterFailure DEF WhoamiFails, InHandshake
<1>8. ASSUME NEW r \in Requests, CsrfOk(r) PROVE LoginBudget'
  <2>1. bought <= Spent + 1 /\ mode = "token"
    BY <1>8, <1>c DEF CsrfOk, InHandshake, LoginBudget
  <2>2. bought' <= TransientLimit * (renewals' + 1) + C
    BY <1>8, <2>1, <1>a, <1>b DEF CsrfOk, Spent, TypeOK
  <2>3. Aborted' = Aborted
    BY <1>8, <1>a DEF CsrfOk, SendWith
  <2>4. \A q \in Requests : pc'[q] \notin {"whoami", "csrf"}
    BY <1>8 DEF CsrfOk, SingleFlight, InHandshake
  <2>5. cookie' # NoSession
    BY <1>8 DEF CsrfOk, TypeOK, NoSession
  <2>6. QED
    BY <2>2, <2>3, <2>4, <2>5 DEF LoginBudget
<1>9. ASSUME NEW r \in Requests, CsrfFails(r) PROVE LoginBudget'
  <2>1. bought' <= Spent + 1
    BY <1>9, <1>c DEF CsrfFails, InHandshake, LoginBudget, NoLogin
  <2>2. QED
    BY <1>9, <2>1, <1>0, BudgetAfterFailure DEF CsrfFails, InHandshake
<1>10. ASSUME NEW r \in Requests, HandshakeAborted(r) PROVE LoginBudget'
  <2>1. Cardinality(Aborted') = C + 1
    BY <1>10, <1>a DEF HandshakeAborted, InHandshake
  <2>2. Spent' = Spent + 1 /\ Spent \in Nat
    BY <1>10, <2>1, <1>a, <1>b DEF HandshakeAborted, Spent, CountedFails
  <2>3. /\ bought <= Spent + 1
        /\ pc[r] = "whoami" => bought <= Spent
    BY <1>10, <1>c, <2>2 DEF HandshakeAborted, InHandshake, LoginBudget, TypeOK
  <2>4. bought' <= Spent'
    BY <1>10, <2>2, <2>3 DEF HandshakeAborted, NoLogin, HostLogsIn, TypeOK
  <2>5. \A q \in Requests : pc'[q] \notin {"whoami", "csrf"}
    BY <1>10 DEF HandshakeAborted, SingleFlight, InHandshake
  <2>6. cookie' = NoSession /\ handshakeErr' = "none"
    BY <1>10, <1>c DEF HandshakeAborted
  <2>7. QED
    BY <2>4, <2>5, <2>6 DEF LoginBudget
<1>11. ASSUME NEW r \in Requests, SendOk(r) PROVE LoginBudget'
  BY <1>11, <1>a, BudgetFrame DEF SendOk, Finish, Results, TypeOK
<1>12. ASSUME NEW r \in Requests, SendUnauthorized(r) PROVE LoginBudget'
  <2>1. Aborted' = Aborted
    BY <1>12, <1>a DEF SendUnauthorized, Results
  <2>2. QED
    BY <1>12, <2>1, BudgetFrame DEF SendUnauthorized, Finish, TypeOK
<1>13. ASSUME NEW r \in Requests, SendFails(r) PROVE LoginBudget'
  BY <1>13, <1>a, BudgetFrame DEF SendFails, Finish, Results, TypeOK
<1>14. ASSUME NEW r \in Requests, Cancel(r) PROVE LoginBudget'
  BY <1>14, <1>a, BudgetFrame DEF Cancel
<1>15. ASSUME NEW s \in valid, Lapse(s) PROVE LoginBudget'
  BY <1>15, <1>a, BudgetFrame DEF Lapse
<1>16. CASE UNCHANGED vars
  BY <1>16, <1>a, BudgetFrame
<1>17. QED
  BY <1>1, <1>2, <1>3, <1>4, <1>5, <1>6, <1>7, <1>8, <1>9, <1>10, <1>11, <1>12, <1>13, <1>14, <1>15, <1>16
  DEF Next, Progress, Handshake, Send, Terminated

(* The inductive invariant. *)
THEOREM Inductive == Spec => []IInv
<1>1. Init => IInv
  <2> SUFFICES ASSUME Init PROVE IInv
    OBVIOUS
  <2>1. TypeOK
    BY LimitsAssumption DEF Init, TypeOK, NoSession, FixedSession, Places, Results
  <2>2. SingleFlight /\ HandshakeStarted /\ SessionModeBuysNothing
    BY DEF Init, SingleFlight, InHandshake, HandshakeStarted, SessionModeBuysNothing
  <2>3. NewestStored /\ RefusalStands /\ NotYetApplied /\ AppliedAtMostOnce
    BY DEF Init, NewestStored, RefusalStands, NotYetApplied, AppliedAtMostOnce, NoSession, FixedSession
  <2>4. LoginBudget
    <3>1. TransientLimit * renewals \in Nat /\ CountedFails \in Nat /\ Cardinality(Aborted) \in Nat
      BY <2>1, <2>3, OneMoreRenewal, AbortedCount, LimitsAssumption
    <3>2. bought <= Spent \/ mode # "token"
      BY <3>1 DEF Init, Spent
    <3>3. QED
      BY <3>2 DEF Init, LoginBudget, NoSession
  <2>5. QED
    BY <2>1, <2>2, <2>3, <2>4 DEF IInv
<1>2. TypeOK' /\ IInv /\ [Next]_vars => IInv'
  <2> SUFFICES ASSUME TypeOK', IInv, [Next]_vars PROVE IInv'
    OBVIOUS
  <2>1. SingleFlight'
    BY SingleFlightStep DEF IInv
  <2>2. HandshakeStarted' /\ SessionModeBuysNothing'
    BY HandshakeStartedStep, SessionModeBuysNothingStep DEF IInv
  <2>3. NewestStored' /\ RefusalStands'
    BY NewestStoredStep, RefusalStandsStep DEF IInv
  <2>4. NotYetApplied' /\ AppliedAtMostOnce'
    BY NotYetAppliedStep, AppliedAtMostOnceStep DEF IInv
  <2>5. LoginBudget'
    BY <2>1, LoginBudgetStep DEF IInv
  <2>6. QED
    BY <2>1, <2>2, <2>3, <2>4, <2>5 DEF IInv
<1>3. QED
  BY <1>1, <1>2, TypeCorrect, PTL DEF Spec

(* Single flight: at most one request logs in at a time, and it holds the  *)
(* session lock (session.go:70-75).                                        *)
THEOREM SingleFlightHolds == Spec => []SingleFlight
<1>1. IInv => SingleFlight
  BY DEF IInv
<1>2. QED
  BY <1>1, Inductive, PTL

(* No login storm: the logins of one Client stay within the budget of one  *)
(* first session and MaxRenewals replacements, each at most TransientLimit *)
(* times, plus the handshakes cut short by their own caller.               *)
THEOREM LoginsBoundedHolds == Spec => []LoginsBounded
<1>1. IInv => LoginsBounded
  <2> SUFFICES ASSUME IInv PROVE LoginsBounded
    OBVIOUS
  <2> DEFINE C == Cardinality(Aborted)
  <2>1. TypeOK /\ C \in Nat /\ TransientLimit \in Nat \ {0} /\ MaxRenewals \in Nat
    BY AbortedCount, LimitsAssumption DEF IInv
  <2>2. \A m, n \in Nat : m <= n => TransientLimit * m <= TransientLimit * n
    BY <2>1
  <2>3. TransientLimit * (renewals + 1) <= TransientLimit * (MaxRenewals + 1)
    BY <2>1, <2>2 DEF TypeOK
  <2>4. Spent + 1 <= TransientLimit * (renewals + 1) + C
    BY <2>1, OneMoreRenewal DEF Spent
  <2>5. bought \in Nat /\ Spent \in Nat /\ TransientLimit * (renewals + 1) \in Nat
        /\ TransientLimit * (MaxRenewals + 1) \in Nat
    BY <2>1, OneMoreRenewal DEF TypeOK, Spent
  <2>6. bought <= Spent + 1 \/ bought <= TransientLimit * (renewals + 1) + C
    <3>1. CASE mode = "session"
      BY <3>1, <2>1, OneMoreRenewal DEF IInv, SessionModeBuysNothing, FixedSession, Spent
    <3>2. CASE mode = "token" /\ sem = {}
      BY <3>2, <2>5 DEF IInv, LoginBudget
    <3>3. CASE mode = "token" /\ sem # {}
      BY <3>3, <2>1, OneMoreRenewal DEF IInv, LoginBudget, SingleFlight, InHandshake, TypeOK, Spent
    <3>4. QED
      BY <2>1, <3>1, <3>2, <3>3 DEF TypeOK
  <2>7. QED
    BY <2>1, <2>3, <2>4, <2>5, <2>6 DEF LoginsBounded
<1>2. QED
  BY <1>1, Inductive, PTL

(* A request is carried out at most once, although it may be sent twice.   *)
THEOREM AppliedAtMostOnceHolds == Spec => []AppliedAtMostOnce
<1>1. IInv => AppliedAtMostOnce
  BY DEF IInv
<1>2. QED
  BY <1>1, Inductive, PTL

(* A stale 401 never throws a working session away.                        *)
THEOREM LiveSessionKeptHolds == Spec => LiveSessionKept
<1>1. IInv /\ [Next]_vars =>
        [(cookie # NoSession /\ cookie' # cookie)
           => \/ cookie \notin valid
              \/ \E r \in refusing : pc[r] = "renew" /\ held[r] = cookie]_vars
  <2> SUFFICES ASSUME IInv, [Next]_vars, cookie # NoSession, cookie' # cookie
               PROVE  \/ cookie \notin valid
                      \/ \E r \in refusing : pc[r] = "renew" /\ held[r] = cookie
    OBVIOUS
  <2>1. ASSUME NEW r \in Requests, RenewSession(r)
        PROVE  \/ cookie \notin valid
               \/ \E q \in refusing : pc[q] = "renew" /\ held[q] = cookie
    BY <2>1 DEF RenewSession, AlreadyRenewed, IInv, RefusalStands
  <2>2. ASSUME NEW r \in Requests, CsrfOk(r) PROVE FALSE
    BY <2>2 DEF CsrfOk, IInv, HandshakeStarted, SingleFlight, InHandshake
  <2>3. QED
    BY <2>1, <2>2 DEF Next, Progress, Start, GetSession, GiveUp, Handshake, Throttled, HandshakeFails,
         WhoamiOk, WhoamiFails, CsrfFails, HandshakeAborted, Send, SendOk, SendUnauthorized, SendFails,
         Lapse, Cancel, Terminated
<1>2. QED
  BY <1>1, Inductive, PTL DEF Spec, LiveSessionKept

(* The one retry of a request carries a newer session than the one refused. *)
THEOREM RetryUsesNewerSessionHolds == Spec => RetryUsesNewerSession
<1>1. IInv /\ [Next]_vars =>
        [\A r \in Requests :
           (pc[r] # "send" /\ pc'[r] = "send" /\ held[r] # NoSession) => held'[r] > held[r]]_vars
  <2> SUFFICES ASSUME IInv, [Next]_vars, NEW r \in Requests,
                      pc[r] # "send", pc'[r] = "send", held[r] # NoSession
               PROVE  held'[r] > held[r]
    OBVIOUS
  <2> USE DEF IInv, TypeOK
  <2>1. CASE RenewSession(r)
    BY <2>1 DEF RenewSession, AlreadyRenewed, SendWith, Finish, StartHandshake, NewestStored
  <2>2. CASE CsrfOk(r)
    BY <2>2 DEF CsrfOk, SendWith, NewestStored
  <2>3. CASE Start(r) \/ GetSession(r)
    BY <2>3 DEF Start, GetSession, RefusalStands
  <2>4. Start(r) \/ GetSession(r) \/ RenewSession(r) \/ CsrfOk(r)
    BY DEF Next, Progress, Start, GetSession, RenewSession, GiveUp, Handshake, Throttled, HandshakeFails,
         WhoamiOk, WhoamiFails, CsrfOk, CsrfFails, HandshakeAborted, Send, SendOk, SendUnauthorized,
         SendFails, Lapse, Cancel, Terminated, Finish, SendWith, StartHandshake
  <2>5. QED
    BY <2>1, <2>2, <2>3, <2>4
<1>2. QED
  BY <1>1, Inductive, PTL DEF Spec, RetryUsesNewerSession

=============================================================================
