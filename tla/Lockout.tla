--------------------------------- MODULE Lockout ---------------------------------
(***************************************************************************)
(* The second factor of one account and the lock on it.                    *)
(*                                                                         *)
(* Two routes check a code, the login and the activation, and both count   *)
(* wrong codes in the row of the account.  The count, the reading of it    *)
(* and the lock are statements of their own.  Whether a code is right is   *)
(* an input.  A lock lasts 30 minutes and a request does not, so a lock    *)
(* runs out between requests.  The tokens of a login are in Access.        *)
(***************************************************************************)
EXTENDS Slots, FiniteSets

VARIABLES
  secret,      \* is twoFactorSecret set?
  enabled,     \* twoFactorEnabled
  attempts,    \* twoFactorFailedAttempts
  lock,        \* twoFactorLockedUntil: "none", "live" or "over"
  wrong        \* wrong codes since a right one or the end of a lock (history)

rowVars == <<secret, enabled, attempts, lock>>
vars == <<rowVars, wrong, slotVars>>

MAX_FAILED_ATTEMPTS == 5

Init ==
  /\ secret = FALSE /\ enabled = FALSE
  /\ attempts = 0 /\ lock = "none" /\ wrong = 0
  /\ AllIdle

Forget == attempts' = 0 /\ lock' = "none"

(* The end of both checks of the lock: a live lock refuses, and one that is
   over is cleared first. *)
Pass(r, route, next) ==
  CASE lock = "none" -> Go(r, next, route)
    [] lock = "over" -> Go(r, "unlocking", route)
    [] lock = "live" -> Leave(r)

(* loginWith2fa reads the whole row once. *)
LoginWith2fa(r) ==
  /\ Admit(r)
  /\ secret /\ enabled
  /\ Pass(r, "login", "checking")
  /\ UNCHANGED <<rowVars, wrong>>

(* checkLockout, the start of verifyAndEnable *)
CheckLockout(r) ==
  /\ Admit(r)
  /\ Pass(r, "enable", "reading")
  /\ UNCHANGED <<rowVars, wrong>>

(* Decided on the row that was read. *)
Unlock(r) ==
  /\ At(r, "unlocking")
  /\ Forget
  /\ Step(r, IF job[r] = "login" THEN "checking" ELSE "reading")
  /\ UNCHANGED <<secret, enabled, wrong>>

ReadSecret(r) ==
  /\ At(r, "reading")
  /\ IF secret THEN Step(r, "checking") ELSE Leave(r)
  /\ UNCHANGED <<rowVars, wrong>>

(* Mutant: the last wrong code before the lock is one too many. *)
TooManyLate(n) == n > MAX_FAILED_ATTEMPTS

TooMany(n) == n >= MAX_FAILED_ATTEMPTS

(* recordFailedAttempt decides on the row its increment returns. *)
RecordFailedAttempt(r) ==
  /\ At(r, "checking")
  /\ job[r] = "enable"
  /\ attempts' = attempts + 1
  /\ wrong' = wrong + 1
  /\ IF TooMany(attempts') THEN Step(r, "locking") ELSE Leave(r)
  /\ UNCHANGED <<secret, enabled, lock>>

(* Mutant: the count is written from the value the handler once read. *)
CountFailureOnce(r) ==
  /\ At(r, "checking")
  /\ job[r] = "login"
  /\ attempts' = IF attempts = 0 THEN 1 ELSE attempts
  /\ wrong' = wrong + 1
  /\ Step(r, "counting")
  /\ UNCHANGED <<secret, enabled, lock>>

(* The login increments ... *)
CountFailure(r) ==
  /\ At(r, "checking")
  /\ job[r] = "login"
  /\ attempts' = attempts + 1
  /\ wrong' = wrong + 1
  /\ Step(r, "counting")
  /\ UNCHANGED <<secret, enabled, lock>>

(* ... reads the count again ... *)
Recount(r) ==
  /\ At(r, "counting")
  /\ IF TooMany(attempts) THEN Step(r, "locking") ELSE Leave(r)
  /\ UNCHANGED <<rowVars, wrong>>

(* ... and locks, as the activation does. *)
Lock(r) ==
  /\ At(r, "locking")
  /\ lock' = "live"
  /\ Leave(r)
  /\ UNCHANGED <<secret, enabled, attempts, wrong>>

(* A right code clears the count and the lock; the activation enables too. *)
Succeed(r) ==
  /\ At(r, "checking")
  /\ Forget
  /\ wrong' = 0
  /\ enabled' = (enabled \/ job[r] = "enable")
  /\ Leave(r)
  /\ UNCHANGED secret

GenerateSecret ==
  /\ Open
  /\ secret' = TRUE
  /\ UNCHANGED <<enabled, attempts, lock, wrong, slotVars>>

Disable ==
  /\ Open
  /\ secret' = FALSE
  /\ enabled' = FALSE
  /\ Forget
  /\ wrong' = 0
  /\ UNCHANGED slotVars

(* 30 minutes later. *)
RunOut ==
  /\ Quiet
  /\ lock = "live"
  /\ lock' = "over"
  /\ wrong' = 0
  /\ UNCHANGED <<secret, enabled, attempts, slotVars>>

Check(r) == RecordFailedAttempt(r) \/ CountFailure(r) \/ Succeed(r)

Next ==
  \/ \E r \in Requests : \/ LoginWith2fa(r) \/ CheckLockout(r) \/ Unlock(r)
                         \/ ReadSecret(r) \/ Check(r) \/ Recount(r) \/ Lock(r)
  \/ GenerateSecret \/ Disable \/ RunOut

Spec == Init /\ [][Next]_vars

-----------------------------------------------------------------------------
(* Properties *)

TypeOK ==
  /\ secret \in BOOLEAN /\ enabled \in BOOLEAN
  /\ attempts \in Nat /\ wrong \in Nat
  /\ lock \in {"none", "live", "over"}
  /\ pc \in [Requests -> {"idle", "unlocking", "reading", "checking",
                          "counting", "locking"}]
  /\ job \in [Requests -> {None, "login", "enable"}]

(* However the two routes overlap, a count that calls for a lock has one, or a
   handler in flight is about to write it: the second reading of the count, by
   another statement, never lets the fifth code slip through. *)
LockFollows ==
  attempts >= MAX_FAILED_ATTEMPTS =>
    \/ lock # "none"
    \/ \E r \in Requests : pc[r] \in {"counting", "locking"}

(* Clearing an expired lock on a stale row forgets the wrong codes counted
   since, and even a new lock; only a request that was in flight when the old
   lock was cleared can do so, and only once.  So where n requests run together,
   an account that is not locked has met, between requests, at most n times the
   four wrong codes that lock nothing, and one more for each two of them. *)
WrongIsBounded ==
  LET n == IF Overlap THEN Cardinality(Requests) ELSE 1
  IN  Quiet /\ lock = "none" =>
        wrong <= n * (MAX_FAILED_ATTEMPTS - 1) + (n * (n - 1)) \div 2
=============================================================================
