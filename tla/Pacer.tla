-------------------------------- MODULE Pacer --------------------------------
(***************************************************************************)
(* The request pacer of one Client and send(), the only way a request      *)
(* leaves it (internal/client/pacer.go; handshakeGet of session.go uses    *)
(* the same pacer with a retry loop of its own).                           *)
(*                                                                         *)
(* Every exchange claims a start slot, sleeps until the slot, and is sent  *)
(* back for another slot when a 429 of a sibling began a pause meanwhile.  *)
(* A 429 is retried for every method, a database conflict only where a     *)
(* resend is idempotent, anything else never.                              *)
(*                                                                         *)
(* Time is a count of ticks, and every deadline is kept as the time left   *)
(* to it (0 once past), so that the clock itself is not part of the state. *)
(* A goroutine whose timer has fired runs before the next tick: scheduling *)
(* delays are taken to be small against the slots.  How long a 429 asks to *)
(* wait (Retry-After or backoff, capped, plus jitter) is any PauseLength.  *)
(***************************************************************************)
EXTENDS Integers, FiniteSets, FiniteSetsExt

CONSTANTS
  Idempotent,     \* exchanges with GET, PUT, PATCH or DELETE
  Posts,          \* exchanges with POST
  Logins,         \* handshake GETs (session.go)
  Intervals,      \* ticks between two slots; 0: spacing is off
  PauseLengths,   \* the waits a 429 may ask for
  ConflictWait,   \* ticks waited before a resend after a conflict
  Retries,        \* rateLimitRetries
  Conflicts,      \* deadlockRetries
  LoginAttempts   \* handshakeAttempts

Requests == Idempotent \cup Posts \cup Logins

ASSUME RequestsAssumption ==
  /\ IsFiniteSet(Requests)
  /\ Idempotent \cap Posts = {}
  /\ Logins \cap (Idempotent \cup Posts) = {}
ASSUME TimesAssumption ==
  /\ Intervals \subseteq Nat
  /\ PauseLengths \subseteq Nat
  /\ ConflictWait \in Nat
ASSUME BudgetsAssumption ==
  /\ Retries \in Nat
  /\ Conflicts \in Nat
  /\ LoginAttempts \in Nat \ {0}

VARIABLES
  interval,    \* pacer.interval, set before the first request
  nextStart,   \* pacer.nextStart: the first free slot
  pausedUntil, \* pacer.pausedUntil: the end of the shared 429 pause
  pc,          \* where each exchange is
  timer,       \* what is left of its sleep
  attempt,     \* the attempt counter of its retry loop
  conflicts,   \* conflicts it was resent after
  result,      \* what it returned
  tries,       \* host: how often it was sent (counted to MaxTries + 1)
  applied,     \* host: how often a POST was carried out
  asked,       \* host: the longest silence a retried 429 asked for
  caught,      \* exchanges past wait() when that silence began
  sinceStart   \* ticks since the last request left, up to interval

pacerVars == <<interval, nextStart, pausedUntil>>
loopVars == <<pc, timer, attempt, conflicts, result>>
hostVars == <<tries, applied, asked, caught, sinceStart>>
vars == <<pacerVars, loopVars, hostVars>>

Budget(r) == IF r \in Logins THEN LoginAttempts ELSE Retries + 1
MaxTries(r) == IF r \in Idempotent THEN Budget(r) + Conflicts ELSE Budget(r)

TypeOK ==
  /\ interval \in Intervals
  /\ nextStart \in Nat
  /\ pausedUntil \in Nat
  /\ pc \in [Requests -> {"idle", "again", "slot", "go", "sent", "backoff", "done"}]
  /\ timer \in [Requests -> Nat]
  /\ attempt \in [Requests -> Nat]
  /\ conflicts \in [Requests -> 0..Conflicts]
  /\ result \in [Requests -> {"none", "ok", "failed", "limited", "cancelled"}]
  /\ tries \in [Requests -> Nat]
  /\ applied \in [Posts -> Nat]
  /\ asked \in Nat
  /\ caught \in SUBSET Requests
  /\ sinceStart \in 0..interval

Init ==
  /\ interval \in Intervals
  /\ nextStart = 0
  /\ pausedUntil = 0
  /\ pc = [r \in Requests |-> "idle"]
  /\ timer = [r \in Requests |-> 0]
  /\ attempt = [r \in Requests |-> 0]
  /\ conflicts = [r \in Requests |-> 0]
  /\ result = [r \in Requests |-> "none"]
  /\ tries = [r \in Requests |-> 0]
  /\ applied = [r \in Posts |-> 0]
  /\ asked = 0
  /\ caught = {}
  /\ sinceStart = interval

Finish(r, res) ==
  /\ pc' = [pc EXCEPT ![r] = "done"]
  /\ result' = [result EXCEPT ![r] = res]

-----------------------------------------------------------------------------
(* The pacer. *)

PauseEnd == IF pausedUntil > 0 THEN pausedUntil ELSE nextStart  \* variant: the pause replaces the queue
FirstSlot == Max({nextStart, pausedUntil})

(* reserve() claims the next slot and moves the queue on, in one critical  *)
(* section; wait() then sleeps until the slot.                             *)
ClaimSlot(r) ==
  /\ timer' = [timer EXCEPT ![r] = FirstSlot]
  /\ nextStart' = FirstSlot + interval
  /\ pc' = [pc EXCEPT ![r] = "slot"]

(* A 429 pause only ever grows, whichever exchange it was answered to.     *)
(* d is the wait the code makes of the Retry-After header, cut at           *)
(* retryAfterMax; `asked` is that wait, not what the header said.           *)
LastPauseWins(d) == d  \* variant: a later 429 may cut the pause short
LongerPause(d) == Max({d, pausedUntil})
PauseFor(d) ==
  /\ pausedUntil' = LongerPause(d)
  /\ asked' = Max({asked, d})
  /\ caught' = IF asked = 0 /\ d > 0 THEN {q \in Requests : pc[q] = "go"} ELSE caught

(* The start of an exchange and of every retry: wait() claims a slot. *)
Wait(r) ==
  /\ pc[r] \in {"idle", "again"}
  /\ ClaimSlot(r)
  /\ UNCHANGED <<interval, pausedUntil, attempt, conflicts, result, hostVars>>

QueuePending == nextStart > 0  \* variant: the wrong deadline is looked at
Paused == pausedUntil > 0

(* The slot has come: a running pause sends the exchange back for another  *)
(* one, otherwise wait() returns.                                          *)
Wake(r) ==
  /\ pc[r] = "slot"
  /\ timer[r] = 0
  /\ \/ /\ Paused
        /\ ClaimSlot(r)
     \/ /\ ~Paused
        /\ pc' = [pc EXCEPT ![r] = "go"]
        /\ UNCHANGED <<nextStart, timer>>
  /\ UNCHANGED <<interval, pausedUntil, attempt, conflicts, result, hostVars>>

-----------------------------------------------------------------------------
(* One exchange. *)

SendNow(r) ==
  /\ pc[r] = "go"
  /\ pc' = [pc EXCEPT ![r] = "sent"]
  /\ tries' = [tries EXCEPT ![r] = Min({@ + 1, MaxTries(r) + 1})]
  /\ caught' = caught \ {r}
  /\ sinceStart' = 0
  /\ UNCHANGED <<pacerVars, timer, attempt, conflicts, result, applied, asked>>

(* The host carries the request out; only POSTs are counted. *)
Carried(r) ==
  applied' = [p \in Posts |-> IF p = r THEN applied[p] + 1 ELSE applied[p]]

Answered(r) ==
  /\ pc[r] = "sent"
  /\ Carried(r)
  /\ Finish(r, "ok")
  /\ UNCHANGED <<pacerVars, timer, attempt, conflicts, tries, asked, caught, sinceStart>>

(* Another status, or a lost exchange: it may have been carried out. *)
Failed(r) ==
  /\ pc[r] = "sent"
  /\ UNCHANGED applied \/ Carried(r)
  /\ Finish(r, "failed")
  /\ UNCHANGED <<pacerVars, timer, attempt, conflicts, tries, asked, caught, sinceStart>>

(* A 500 with a database conflict, part of it committed or not.  An        *)
(* idempotent request is resent after a wait of its own, without pausing   *)
(* its siblings; for a POST or a handshake it is an error like any other.  *)
NoLimit(r) == r \in Idempotent  \* variant: resent for as long as it takes
AnyMethod(r) == conflicts[r] < Conflicts  \* variant: POSTs are resent too
Resendable(r) == r \in Idempotent /\ conflicts[r] < Conflicts

CountedTwice(r) == attempt[r] + 1  \* variant: attempt-- is missing
AfterConflict(r) == attempt[r]
Conflict(r) ==
  /\ pc[r] = "sent"
  /\ UNCHANGED applied \/ Carried(r)
  /\ \/ /\ Resendable(r)
        /\ conflicts' = [conflicts EXCEPT ![r] = @ + 1]
        /\ attempt' = [attempt EXCEPT ![r] = AfterConflict(r)]
        /\ timer' = [timer EXCEPT ![r] = ConflictWait]
        /\ pc' = [pc EXCEPT ![r] = "backoff"]
        /\ UNCHANGED result
     \/ /\ ~Resendable(r)
        /\ Finish(r, "failed")
        /\ UNCHANGED <<conflicts, attempt, timer>>
  /\ UNCHANGED <<pacerVars, tries, asked, caught, sinceStart>>

(* A 429 to send(): nothing was carried out, and everybody pauses, also    *)
(* when this exchange gives up.                                            *)
Throttled(r, d) ==
  /\ pc[r] = "sent"
  /\ r \notin Logins
  /\ PauseFor(d)
  /\ \/ /\ attempt[r] >= Retries
        /\ Finish(r, "limited")
        /\ UNCHANGED attempt
     \/ /\ attempt[r] < Retries
        /\ attempt' = [attempt EXCEPT ![r] = @ + 1]
        /\ pc' = [pc EXCEPT ![r] = "again"]
        /\ UNCHANGED result
  /\ UNCHANGED <<interval, nextStart, timer, conflicts, tries, applied, sinceStart>>

(* A 429 to a handshake GET: it sleeps the wait itself before asking for a *)
(* slot, and the last one is reported without a pause.                     *)
LoginThrottled(r, d) ==
  /\ pc[r] = "sent"
  /\ r \in Logins
  /\ \/ /\ attempt[r] + 1 >= LoginAttempts
        /\ Finish(r, "limited")
        /\ UNCHANGED <<pausedUntil, asked, caught, attempt, timer>>
     \/ /\ attempt[r] + 1 < LoginAttempts
        /\ PauseFor(d)
        /\ attempt' = [attempt EXCEPT ![r] = @ + 1]
        /\ timer' = [timer EXCEPT ![r] = d]
        /\ pc' = [pc EXCEPT ![r] = "backoff"]
        /\ UNCHANGED result
  /\ UNCHANGED <<interval, nextStart, conflicts, tries, applied, sinceStart>>

(* The backoff timer fires: the loop starts over. *)
BackoffEnds(r) ==
  /\ pc[r] = "backoff"
  /\ timer[r] = 0
  /\ pc' = [pc EXCEPT ![r] = "again"]
  /\ UNCHANGED <<pacerVars, timer, attempt, conflicts, result, hostVars>>

(* The caller's context ends: every sleep and the exchange itself return.  *)
(* The slot stays claimed; a request on the wire may be carried out.       *)
Cancel(r) ==
  /\ pc[r] \in {"slot", "go", "sent", "backoff"}
  /\ Finish(r, "cancelled")
  /\ \/ UNCHANGED applied
     \/ pc[r] = "sent" /\ Carried(r)
  /\ UNCHANGED <<pacerVars, timer, attempt, conflicts, tries, asked, caught, sinceStart>>

-----------------------------------------------------------------------------
(* The clock: it waits for everyone whose time has come. *)

CountDown(t) == IF t > 0 THEN t - 1 ELSE 0

Due(r) == pc[r] \in {"again", "go"} \/ (pc[r] \in {"slot", "backoff"} /\ timer[r] = 0)

Tick ==
  /\ \A r \in Requests : ~Due(r)
  /\ nextStart' = CountDown(nextStart)
  /\ pausedUntil' = CountDown(pausedUntil)
  /\ asked' = CountDown(asked)
  /\ timer' = [r \in Requests |-> CountDown(timer[r])]
  /\ caught' = {}
  /\ sinceStart' = Min({sinceStart + 1, interval})
  /\ UNCHANGED <<interval, pc, attempt, conflicts, result, tries, applied>>

Terminated ==
  /\ \A r \in Requests : pc[r] = "done"
  /\ UNCHANGED vars

Answer(r) ==
  \/ Answered(r) \/ Failed(r) \/ Conflict(r)
  \/ \E d \in PauseLengths : Throttled(r, d) \/ LoginThrottled(r, d)

Progress(r) ==
  pc[r] # "idle" /\ (Wait(r) \/ Wake(r) \/ SendNow(r) \/ Answer(r) \/ BackoffEnds(r))

Next ==
  \/ \E r \in Requests : Wait(r) \/ Wake(r) \/ SendNow(r) \/ Answer(r) \/ BackoffEnds(r) \/ Cancel(r)
  \/ Tick
  \/ Terminated

Spec == Init /\ [][Next]_vars

(***************************************************************************)
(* Time passes, goroutines run, and the HTTP client bounds each exchange   *)
(* by 30 s, so every request sent is answered or fails.  Nothing makes a   *)
(* caller start an exchange or cancel it.                                  *)
(***************************************************************************)
FairSpec == Spec /\ WF_vars(Tick) /\ \A r \in Requests : WF_vars(Progress(r))

-----------------------------------------------------------------------------
(* Properties. *)

Leaves(r) == pc[r] = "go" /\ pc'[r] = "sent"

(* No burst: two requests never leave closer together than the interval,   *)
(* not even when a pause has sent a whole queue of them back for new slots *)
(* (pacer.go:80-82).                                                       *)
StartsSpaced == [][\A r \in Requests : Leaves(r) => sinceStart = interval]_vars

(* While the host has asked this client for silence, nothing leaves but    *)
(* what had already left wait() when the silence began, whoever the 429    *)
(* was answered to and however the waits overlap (pacer.go:26-31, 124-126).*)
SilentWhilePaused ==
  [][\A r \in Requests : Leaves(r) => asked = 0 \/ r \in caught]_vars

(* A POST is carried out at most once however the exchange goes: a partly  *)
(* applied create must not be duplicated (pacer.go:163-167).               *)
PostAppliedOnce == \A p \in Posts : applied[p] <= 1

(* The budgets are kept apart: an exchange gives up as rate limited only   *)
(* after every 429 it may sit out, conflicts not counted, and no exchange  *)
(* is sent more often than both budgets allow (pacer.go:37-46, 190).       *)
RetryBudgets ==
  \A r \in Requests :
    /\ tries[r] <= MaxTries(r)
    /\ result[r] = "limited" => tries[r] = Budget(r) + conflicts[r]

(* Every exchange returns: pauses of its siblings may send it back for new *)
(* slots, but not for ever (pacer.go:124-142).                             *)
EveryExchangeReturns == \A r \in Requests : pc[r] # "idle" ~> pc[r] = "done"

=============================================================================
