------------------------------- MODULE Session -------------------------------
(***************************************************************************)
(* The shared ChurchTools session of one Client (internal/client: the      *)
(* session half of client.go, and session.go).                             *)
(*                                                                         *)
(* One Client serves every resource, and Terraform runs resources          *)
(* concurrently.  In token mode the first request buys a session with two  *)
(* GETs (whoami, csrftoken) under a one-slot lock; a request answered 401  *)
(* renews the session once, under the same lock, and is sent once more.    *)
(* In session mode the operator supplied the session and nothing is ever   *)
(* bought.  Requests are concurrent processes; the host may end a session  *)
(* at any moment, throttle or drop a handshake, or refuse a route with a   *)
(* 401 that has nothing to do with expiry, and a request's own context may *)
(* end at any point.                                                       *)
(*                                                                         *)
(* Abstracted: a cookie and its CSRF token are one number, and the host    *)
(* never hands out the same cookie twice; send()'s own pacing and retries  *)
(* (module Pacer) are inside one Send step; a 429 wait is a step.          *)
(***************************************************************************)
EXTENDS Integers, FiniteSets

CONSTANTS
  Requests,           \* the calls of do() / AjaxJSON() of one run
  HandshakeAttempts,  \* 429s one handshake GET tolerates
  TransientLimit,     \* consecutive transient handshake failures tolerated
  MaxRenewals,        \* replacement sessions one Client may ask for
  Faults              \* what the host and the callers may do wrong

FaultKinds == {"throttle", "transient", "definitive", "cancel", "refuse"}

ASSUME RequestsAssumption == IsFiniteSet(Requests)
ASSUME LimitsAssumption ==
  /\ HandshakeAttempts \in Nat \ {0}
  /\ TransientLimit \in Nat \ {0}
  /\ MaxRenewals \in Nat
ASSUME FaultsAssumption == Faults \subseteq FaultKinds

VARIABLES
  mode,            \* "token": buys sessions; "session": was handed one
  sem,             \* sessionSem: the requests in the one-slot channel
  cookie,          \* the stored session, NoSession when there is none
  renewals,        \* renewals asked for
  transientFails,  \* consecutive handshakes that failed transiently
  handshakeErr,    \* the remembered handshake failure
  pc,              \* where each request is
  held,            \* the session each request carries
  retried,         \* the request has used its one retry
  ctxDone,         \* the request's context has ended
  result,          \* what each finished request returned
  attempt,         \* attempts made at the handshake GET under way
  pending,         \* the cookie whoami set, before the CSRF read
  valid,           \* host: the sessions it accepts
  bought,          \* host: logins performed, also the newest session's number
  applied,         \* host: how often it carried out each request
  refusing         \* host: the requests whose route it always answers 401

clientVars == <<cookie, renewals, transientFails, handshakeErr>>
handshakeVars == <<sem, attempt, pending>>
hostVars == <<valid, bought, applied, refusing>>
requestVars == <<pc, held, retried, ctxDone, result>>
vars == <<mode, clientVars, handshakeVars, hostVars, requestVars>>

NoSession == 0
FixedSession == 1
Places == {"idle", "session", "renew", "whoami", "csrf", "send", "done"}
Results == {"none", "ok", "failed", "refused", "expired", "cancelled", "aborted"}
InHandshake(r) == pc[r] \in {"whoami", "csrf"}

TypeOK ==
  /\ mode \in {"token", "session"}
  /\ sem \in SUBSET Requests
  /\ cookie \in Nat
  /\ renewals \in 0..MaxRenewals
  /\ transientFails \in Nat
  /\ handshakeErr \in {"none", "transient", "definitive"}
  /\ pc \in [Requests -> Places]
  /\ held \in [Requests -> Nat]
  /\ retried \in [Requests -> BOOLEAN]
  /\ ctxDone \in [Requests -> BOOLEAN]
  /\ result \in [Requests -> Results]
  /\ attempt \in 1..HandshakeAttempts
  /\ pending \in Nat
  /\ valid \in SUBSET (1..bought)
  /\ bought \in Nat
  /\ applied \in [Requests -> Nat]
  /\ refusing \in SUBSET Requests

(***************************************************************************)
(* New leaves the lazily bought session empty; NewWithSession is given one *)
(* that the host accepted when the operator fetched it.                    *)
(***************************************************************************)
Init ==
  /\ mode \in {"token", "session"}
  /\ sem = {}
  /\ cookie = NoSession
  /\ renewals = 0
  /\ transientFails = 0
  /\ handshakeErr = "none"
  /\ pc = [r \in Requests |-> "idle"]
  /\ held = [r \in Requests |-> NoSession]
  /\ retried = [r \in Requests |-> FALSE]
  /\ ctxDone = [r \in Requests |-> FALSE]
  /\ result = [r \in Requests |-> "none"]
  /\ attempt = 1
  /\ pending = NoSession
  /\ bought = IF mode = "session" THEN FixedSession ELSE 0
  /\ valid = 1..bought
  /\ applied = [r \in Requests |-> 0]
  /\ refusing \in IF "refuse" \in Faults THEN SUBSET Requests ELSE {{}}

-----------------------------------------------------------------------------
(* Helpers: where a request goes next. *)

Finish(r, res) ==
  /\ pc' = [pc EXCEPT ![r] = "done"]
  /\ result' = [result EXCEPT ![r] = res]

SendWith(r, s) ==
  /\ pc' = [pc EXCEPT ![r] = "send"]
  /\ held' = [held EXCEPT ![r] = s]
  /\ UNCHANGED result

StartHandshake(r) ==
  /\ sem' = {r}
  /\ pc' = [pc EXCEPT ![r] = "whoami"]
  /\ attempt' = 1
  /\ UNCHANGED <<pending, held, result>>

(* lockSession succeeds while the one slot of sessionSem is empty. *)
LockIgnored == TRUE  \* variant: the fields are used without the lock
LockFree == sem = {}

RenewalsUncapped == TRUE  \* variant: the cap is not enforced
RenewalsLeft == renewals < MaxRenewals

(***************************************************************************)
(* do() and AjaxJSON() ask for credentials first.  Session mode answers    *)
(* with the operator's pair before any lock.                               *)
(***************************************************************************)
Start(r) ==
  /\ pc[r] = "idle"
  /\ \/ /\ mode = "token"
        /\ pc' = [pc EXCEPT ![r] = "session"]
        /\ UNCHANGED <<held, result>>
     \/ /\ mode = "session"
        /\ SendWith(r, FixedSession)
  /\ UNCHANGED <<mode, clientVars, handshakeVars, hostVars, retried, ctxDone>>

(***************************************************************************)
(* session() under the lock.  The branches that do not log in leave the    *)
(* lock in the same step: nothing else reads what they read outside it.    *)
(***************************************************************************)
GetSession(r) ==
  /\ pc[r] = "session"
  /\ LockFree
  /\ \/ /\ handshakeErr # "none"
        /\ Finish(r, "failed")
        /\ UNCHANGED <<handshakeVars, held>>
     \/ /\ handshakeErr = "none"
        /\ cookie # NoSession
        /\ SendWith(r, cookie)
        /\ UNCHANGED handshakeVars
     \/ /\ handshakeErr = "none"
        /\ cookie = NoSession
        /\ StartHandshake(r)
  /\ UNCHANGED <<mode, clientVars, hostVars, retried, ctxDone>>

(* The session r was refused with has already been replaced by another request. *)
NeverRenewed(r) == FALSE                  \* variant: every 401 buys a session
AnySessionStored(r) == cookie # NoSession \* variant: stale is not compared
AlreadyRenewed(r) == cookie # NoSession /\ cookie # held[r]

(***************************************************************************)
(* renewSession(stale) under the lock, stale being what r was refused with *)
(***************************************************************************)
RenewSession(r) ==
  /\ pc[r] = "renew"
  /\ LockFree
  /\ \/ /\ AlreadyRenewed(r)
        /\ SendWith(r, cookie)
        /\ UNCHANGED <<handshakeVars, clientVars>>
     \/ /\ ~AlreadyRenewed(r)
        /\ ~RenewalsLeft
        /\ Finish(r, "failed")
        /\ UNCHANGED <<handshakeVars, clientVars, held>>
     \/ /\ ~AlreadyRenewed(r)
        /\ RenewalsLeft
        /\ renewals' = renewals + 1
        /\ cookie' = NoSession
        /\ handshakeErr' = "none"
        /\ StartHandshake(r)
        /\ UNCHANGED transientFails
  /\ retried' = [retried EXCEPT ![r] = TRUE]
  /\ UNCHANGED <<mode, hostVars, ctxDone>>

(* lockSession gives up on the lock when the waiter's own context ends. *)
GiveUp(r) ==
  /\ pc[r] \in {"session", "renew"}
  /\ ctxDone[r]
  /\ Finish(r, "cancelled")
  /\ UNCHANGED <<mode, clientVars, handshakeVars, hostVars, held, retried, ctxDone>>

-----------------------------------------------------------------------------
(***************************************************************************)
(* The handshake.  A failure the host is to blame for goes through Remember*)
(* and the lock is released; one caused by the caller's own context is     *)
(* forgotten (HandshakeAborted).                                           *)
(***************************************************************************)
Remember(kind) ==
  \/ /\ kind = "definitive"
     /\ handshakeErr' = "definitive"
     /\ UNCHANGED transientFails
  \/ /\ kind = "transient"
     /\ transientFails' = transientFails + 1
     /\ handshakeErr' = IF transientFails + 1 >= TransientLimit
                        THEN "transient" ELSE handshakeErr

HandshakeFails(r, kind) ==
  /\ Remember(kind)
  /\ sem' = {}
  /\ Finish(r, "failed")
  /\ UNCHANGED <<mode, cookie, renewals, attempt, pending,
                 held, retried, ctxDone, applied, refusing>>

(* A login at the host: a fresh session it accepts. *)
HostLogsIn ==
  /\ bought' = bought + 1
  /\ valid' = valid \cup {bought + 1}

NoLogin == UNCHANGED <<bought, valid>>

(* A 429 to a handshake GET: waited out, until the attempts are used up. *)
ThrottledLogsInAgain(r) ==  \* variant: a 429 starts the handshake over
  /\ InHandshake(r)
  /\ ~ctxDone[r]
  /\ "throttle" \in Faults
  /\ pc' = [pc EXCEPT ![r] = "whoami"]
  /\ attempt' = 1
  /\ UNCHANGED <<mode, clientVars, sem, pending, hostVars, held, retried, ctxDone, result>>
Throttled(r) ==
  /\ InHandshake(r)
  /\ ~ctxDone[r]
  /\ "throttle" \in Faults
  /\ \/ /\ attempt < HandshakeAttempts
        /\ attempt' = attempt + 1
        /\ UNCHANGED <<mode, clientVars, sem, pending, hostVars, requestVars>>
     \/ /\ attempt >= HandshakeAttempts
        /\ HandshakeFails(r, "definitive")
        /\ NoLogin

(* whoami logs in and sets the cookie; the CSRF read is next. *)
WhoamiOk(r) ==
  /\ pc[r] = "whoami"
  /\ ~ctxDone[r]
  /\ HostLogsIn
  /\ pending' = bought + 1
  /\ attempt' = 1
  /\ pc' = [pc EXCEPT ![r] = "csrf"]
  /\ UNCHANGED <<mode, clientVars, sem, applied, refusing, held, retried, ctxDone, result>>

(* whoami fails: refused or without a cookie; or a 5xx or a lost reply,    *)
(* which may have logged in nevertheless.                                  *)
WhoamiFails(r) ==
  /\ pc[r] = "whoami"
  /\ ~ctxDone[r]
  /\ \/ "definitive" \in Faults /\ HandshakeFails(r, "definitive") /\ NoLogin
     \/ "transient" \in Faults /\ HandshakeFails(r, "transient") /\ (NoLogin \/ HostLogsIn)

(* The CSRF read succeeds with a session that is still alive: it is stored. *)
CsrfOk(r) ==
  /\ pc[r] = "csrf"
  /\ ~ctxDone[r]
  /\ pending \in valid
  /\ cookie' = pending
  /\ transientFails' = 0
  /\ sem' = {}
  /\ SendWith(r, pending)
  /\ UNCHANGED <<mode, renewals, handshakeErr, attempt, pending, hostVars, retried, ctxDone>>

(* It fails: unreadable, empty or refused (the session is already over)    *)
(* are definitive, a 5xx or a lost reply is transient.                     *)
CsrfFails(r) ==
  /\ pc[r] = "csrf"
  /\ ~ctxDone[r]
  /\ \/ ("definitive" \in Faults \/ pending \notin valid) /\ HandshakeFails(r, "definitive")
     \/ "transient" \in Faults /\ HandshakeFails(r, "transient")
  /\ NoLogin

(***************************************************************************)
(* The caller's context ends the handshake: nothing is remembered.  The    *)
(* whoami request on the wire may still have logged in.                    *)
(***************************************************************************)
AbortCountsAsFailure(r) ==  \* variant: the ctx.Err() case is missing
  /\ InHandshake(r)
  /\ ctxDone[r]
  /\ Remember("transient")
  /\ sem' = {}
  /\ Finish(r, "aborted")
  /\ UNCHANGED <<mode, cookie, renewals, attempt, pending, held, retried, ctxDone, hostVars>>
AbortKeepsLock(r) ==  \* variant: an early return without unlockSession
  /\ InHandshake(r)
  /\ ctxDone[r]
  /\ Finish(r, "aborted")
  /\ UNCHANGED <<mode, clientVars, handshakeVars, held, retried, ctxDone, hostVars>>
HandshakeAborted(r) ==
  /\ InHandshake(r)
  /\ ctxDone[r]
  /\ sem' = {}
  /\ Finish(r, "aborted")
  /\ \/ NoLogin
     \/ pc[r] = "whoami" /\ HostLogsIn
  /\ UNCHANGED <<mode, clientVars, attempt, pending, held, retried, ctxDone, applied, refusing>>

Handshake(r) ==
  Throttled(r) \/ WhoamiOk(r) \/ WhoamiFails(r) \/ CsrfOk(r) \/ CsrfFails(r) \/ HandshakeAborted(r)

-----------------------------------------------------------------------------
(* The request itself. *)

Accepted(r) == held[r] \in valid /\ r \notin refusing

SendOk(r) ==
  /\ pc[r] = "send"
  /\ ~ctxDone[r]
  /\ Accepted(r)
  /\ applied' = [applied EXCEPT ![r] = @ + 1]
  /\ Finish(r, "ok")
  /\ UNCHANGED <<mode, clientVars, handshakeVars, valid, bought, refusing, held, retried, ctxDone>>

(* A 401 (or the legacy endpoint's "session expired" envelope): renew once *)
(* in token mode; a second one, or one in session mode, is the answer.     *)
SendUnauthorized(r) ==
  /\ pc[r] = "send"
  /\ ~ctxDone[r]
  /\ ~Accepted(r)
  /\ \/ /\ mode = "token"
        /\ ~retried[r]
        /\ pc' = [pc EXCEPT ![r] = "renew"]
        /\ UNCHANGED result
     \/ /\ mode = "token"
        /\ retried[r]
        /\ Finish(r, "refused")
     \/ /\ mode = "session"
        /\ Finish(r, "expired")
  /\ UNCHANGED <<mode, clientVars, handshakeVars, hostVars, held, retried, ctxDone>>

(* Any other answer, or none: the error is returned.  A request whose reply *)
(* was lost may have been carried out.                                      *)
SendFailsThenRetries(r) ==  \* variant: a lost reply is treated like a 401
  /\ pc[r] = "send"
  /\ "transient" \in Faults
  /\ IF retried[r] THEN Finish(r, "failed")
     ELSE pc' = [pc EXCEPT ![r] = "renew"] /\ UNCHANGED result
  /\ Accepted(r) /\ applied' = [applied EXCEPT ![r] = @ + 1]
  /\ UNCHANGED <<mode, clientVars, handshakeVars, valid, bought, refusing, held, retried, ctxDone>>
SendFails(r) ==
  /\ pc[r] = "send"
  /\ "transient" \in Faults \/ ctxDone[r]
  /\ Finish(r, IF ctxDone[r] THEN "cancelled" ELSE "failed")
  /\ \/ UNCHANGED applied
     \/ Accepted(r) /\ applied' = [applied EXCEPT ![r] = @ + 1]
  /\ UNCHANGED <<mode, clientVars, handshakeVars, valid, bought, refusing, held, retried, ctxDone>>

Send(r) == SendOk(r) \/ SendUnauthorized(r) \/ SendFails(r)

-----------------------------------------------------------------------------
(* The host ends a session: idle timeout, restart, logout. *)
Lapse(s) ==
  /\ s \in valid
  /\ valid' = valid \ {s}
  /\ UNCHANGED <<mode, clientVars, handshakeVars, bought, applied, refusing, requestVars>>

(* Terraform cancels a request, or its deadline passes. *)
Cancel(r) ==
  /\ "cancel" \in Faults
  /\ pc[r] \notin {"idle", "done"}
  /\ ~ctxDone[r]
  /\ ctxDone' = [ctxDone EXCEPT ![r] = TRUE]
  /\ UNCHANGED <<mode, clientVars, handshakeVars, hostVars, pc, held, retried, result>>

(* The run is over when every request has returned. *)
Terminated ==
  /\ \A r \in Requests : pc[r] = "done"
  /\ UNCHANGED vars

Progress(r) == GetSession(r) \/ RenewSession(r) \/ GiveUp(r) \/ Handshake(r) \/ Send(r)

Next ==
  \/ \E r \in Requests : Start(r) \/ Progress(r) \/ Cancel(r)
  \/ \E s \in valid : Lapse(s)
  \/ Terminated

Spec == Init /\ [][Next]_vars

(***************************************************************************)
(* A started request keeps running: goroutines are scheduled, the HTTP     *)
(* client bounds every exchange by 30 s and every wait is bounded.  The    *)
(* start of a request, expiry and cancellation carry no fairness.          *)
(***************************************************************************)
FairSpec == Spec /\ \A r \in Requests : WF_vars(Progress(r))

-----------------------------------------------------------------------------
(* Properties. *)

(* Single flight: at most one request is logging in, and it holds the lock *)
(* (session.go:70-75, 117), so concurrent first callers share one login.   *)
SingleFlight ==
  /\ \A r \in Requests : InHandshake(r) <=> r \in sem
  /\ \A r, q \in sem : r = q

(* Logins aborted by their own caller's context. *)
Aborted == {r \in Requests : result[r] = "aborted"}

(* No login storm: whatever the host does, one Client logs in at most      *)
(* TransientLimit times for the first session and for each renewal, plus   *)
(* once for each request whose own context ended its handshake             *)
(* (session.go:36-43).                                                     *)
LoginsBounded == bought <= TransientLimit * (MaxRenewals + 1) + Cardinality(Aborted)

(* A stale 401 never throws a working session away: the stored session is  *)
(* dropped only when the host has ended it, or a route refused that very   *)
(* session (session.go:97-108).                                            *)
LiveSessionKept ==
  [][(cookie # NoSession /\ cookie' # cookie)
       => \/ cookie \notin valid
          \/ \E r \in refusing : pc[r] = "renew" /\ held[r] = cookie]_vars

(* The one retry carries a session newer than the one refused              *)
(* (client.go:212-220).                                                    *)
RetryUsesNewerSession ==
  [][\A r \in Requests :
        (pc[r] # "send" /\ pc'[r] = "send" /\ held[r] # NoSession) => held'[r] > held[r]]_vars

(* A request's own cancellation or deadline says nothing about the host: it *)
(* leaves the shared session state as it found it (session.go:123-124).     *)
CancellationLeavesNoTrace ==
  [][\A r \in Requests :
        (ctxDone[r] /\ pc[r] # "done" /\ pc'[r] = "done")
          => UNCHANGED <<cookie, transientFails, handshakeErr>>]_vars

(* The host carries a request out at most once, retry or not: only a       *)
(* refusal is sent again (client.go:208-229, session.go:304-319).          *)
AppliedAtMostOnce ==
  \A r \in Requests : /\ applied[r] <= 1
                      /\ result[r] = "ok" => applied[r] = 1

(* Requests that all saw the same expiry share one renewal: each renewal is *)
(* accounted for by a session the host really ended, by a route that        *)
(* refuses any session, or by a renewal that itself failed                  *)
(* (client.go:213-215).                                                     *)
RenewalsJustified ==
  renewals <= Cardinality((1..bought) \ valid) + Cardinality(refusing)
              + Cardinality({r \in Requests : retried[r] /\ result[r] \in {"failed", "aborted"}})

(* Renewals lost to their own caller's context: each is counted against    *)
(* the cap, although it bought nothing (session.go:117, 123-124).          *)
CancelledRenewals == {r \in Requests : retried[r] /\ result[r] = "aborted"}

(* One expiry is invisible: with a host that is otherwise healthy, no       *)
(* request fails because a session lapsed, nor because another request was  *)
(* cancelled, unless a second session lapses (client.go:213-215).  Two      *)
(* exceptions are excluded here: a session that ends between whoami and the *)
(* CSRF read, whose 401 is definitive; and a cap of renewals that cancelled *)
(* renewals alone have used up, after which the next lapse is seen.         *)
OneLapseIsInvisible ==
  (/\ mode = "token"
   /\ handshakeErr # "definitive"
   /\ Cardinality((1..bought) \ valid) <= 1
   /\ Cardinality(CancelledRenewals) < MaxRenewals)
    => \A r \in Requests : ctxDone[r] \/ result[r] \in {"none", "ok"}

(* Every request that starts returns: nobody waits for the lock or the     *)
(* handshake for ever (session.go:30-31, 56-66).                           *)
EveryRequestReturns == \A r \in Requests : pc[r] # "idle" ~> pc[r] = "done"

(* What session.go:49-51 and client.go:79-81 say: a definitive handshake   *)
(* failure is remembered for the run, so no later request logs in again.   *)
DefinitiveFailureRemembered ==
  [][handshakeErr = "definitive" => handshakeErr' = "definitive"]_vars

-----------------------------------------------------------------------------
(***************************************************************************)
(* The strengthening the proofs use (SessionProofs), checked by TLC first. *)
(***************************************************************************)

(* The transient failures that still count against the next handshake. *)
CountedFails == IF transientFails < TransientLimit THEN transientFails ELSE TransientLimit - 1

(* What has been spent of the logins when no session and no failure is     *)
(* stored, while the CSRF read is pending, and otherwise.                  *)
Spent == TransientLimit * renewals + CountedFails + Cardinality(Aborted)

LoginBudget ==
  mode = "token" =>
    /\ (sem = {} /\ cookie = NoSession /\ handshakeErr = "none") => bought <= Spent
    /\ \A r \in Requests : pc[r] = "whoami" => bought <= Spent
    /\ \A r \in Requests : pc[r] = "csrf" => bought <= Spent + 1
    /\ (cookie # NoSession \/ handshakeErr # "none")
         => bought <= TransientLimit * (renewals + 1) + Cardinality(Aborted)

(* The lock is held only while nothing is stored, and only in token mode.  *)
HandshakeStarted == sem # {} => cookie = NoSession /\ handshakeErr = "none"

SessionModeBuysNothing ==
  mode = "session" =>
    /\ bought = FixedSession
    /\ sem = {}
    /\ \A r \in Requests : pc[r] \in {"idle", "send", "done"}

(* The stored and the pending session are the newest anyone has carried.   *)
NewestStored ==
  /\ cookie <= bought
  /\ \A r \in Requests : held[r] <= bought
  /\ cookie # NoSession => \A r \in Requests : held[r] <= cookie
  /\ \A r \in Requests : pc[r] = "csrf" =>
        /\ pending # NoSession
        /\ pending <= bought
        /\ \A q \in Requests : held[q] < pending

(* A request asking for a renewal was refused for a reason that stands.    *)
RefusalStands ==
  \A r \in Requests :
     /\ pc[r] = "renew" => held[r] \notin valid \/ r \in refusing
     /\ pc[r] \in {"idle", "session"} => held[r] = NoSession

NotYetApplied ==
  \A r \in Requests : pc[r] # "done" => applied[r] = 0 /\ result[r] = "none"

IInv ==
  /\ TypeOK
  /\ SingleFlight
  /\ HandshakeStarted
  /\ SessionModeBuysNothing
  /\ LoginBudget
  /\ NewestStored
  /\ RefusalStands
  /\ NotYetApplied
  /\ AppliedAtMostOnce

=============================================================================
