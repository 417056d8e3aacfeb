--------------------------- MODULE AccountLockout ---------------------------
(***************************************************************************)
(* AccountLockoutService and the part of AuthService.login that asks it    *)
(* (src/src/auth/services), with the lock and unlock of UsersService, for  *)
(* one account.  A request is cut at each await on the database: a login   *)
(* looks the user up, looks at the lock, compares the password, and then   *)
(* either counts a failure (a read, then a write of what was read plus     *)
(* one) or resets the count.                                               *)
(*                                                                         *)
(* lockoutUntil is kept as the ticks left until then, and attempts above   *)
(* the maximum as the maximum: the code does not tell them apart.  The     *)
(* history of failures ends at MaxFailures.  The audit event               *)
(* that follows a write may fail; that changes the answer, not the row.    *)
(***************************************************************************)
EXTENDS Naturals, FiniteSets

CONSTANTS
    Requests,           \* requests to this account that are under way together
    MaxFailedAttempts,  \* MAX_FAILED_ATTEMPTS
    LockoutTicks,       \* LOCKOUT_DURATION_MINUTES
    ManualTicks,        \* the 24 hours of a lock by an administrator
    MaxFailures,        \* bound: failures are counted up to this number
    MaxManual           \* bound: locks by an administrator

ASSUME LockoutAssumption ==
    /\ MaxFailedAttempts \in Nat \ {0}
    /\ LockoutTicks \in Nat \ {0}
    /\ ManualTicks \in Nat \ {0}
    /\ MaxFailures \in Nat
    /\ MaxManual \in Nat

VARIABLES
    account,    \* the row: isLocked, lockoutUntil, failedLoginAttempts, isActive
    request,    \* what each request does next, and what it has read
    failures,   \* history: wrong passwords counted since the row was last cleared
    stale,      \* history: failures since then that were counted from a stale read
    passed,     \* history: requests that looked at the lock before it was set
    manual      \* locks by an administrator so far

lockoutVars == <<account, request, failures, stale, passed, manual>>

NoRequest == [pc |-> "idle", seen |-> 0, active |-> TRUE]

LargerOf(a, b) == IF a > b THEN a ELSE b
SmallerOf(a, b) == IF a < b THEN a ELSE b

LockoutType ==
    /\ account \in [locked : BOOLEAN, until : 0..LargerOf(LockoutTicks, ManualTicks),
                    attempts : 0..MaxFailedAttempts, active : BOOLEAN]
    /\ request \in [Requests -> [pc : {"idle", "lock check", "password", "mfa", "count", "write",
                                       "reset", "unlock", "unlocking"},
                                 seen : 0..MaxFailedAttempts, active : BOOLEAN]]
    /\ failures \in 0..MaxFailures /\ stale \in 0..MaxFailures
    /\ passed \subseteq Requests /\ manual \in 0..MaxManual

LockoutInit ==
    /\ account = [locked |-> FALSE, until |-> 0, attempts |-> 0, active |-> TRUE]
    /\ request = [r \in Requests |-> NoRequest]
    /\ failures = 0 /\ stale = 0
    /\ passed = {} /\ manual = 0

Goto(r, pc) == request' = [request EXCEPT ![r].pc = pc]
Answered(r) == request' = [request EXCEPT ![r] = NoRequest]

PastCheck == {r \in Requests : request[r].pc \in {"password", "mfa", "count", "write", "reset",
                                                  "unlock", "unlocking"}}

(* What the writes do to the row and to the histories.                      *)

Cleared ==
    /\ account' = [account EXCEPT !.locked = FALSE, !.until = 0, !.attempts = 0]
    /\ failures' = 0 /\ stale' = 0 /\ passed' = {}

LockedFor(ticks, attempts) ==
    /\ account' = [account EXCEPT !.locked = TRUE, !.until = ticks, !.attempts = attempts]
    /\ passed' = PastCheck

Expired == account.locked /\ account.until = 0

(***************************************************************************)
(* Login                                                                   *)
(***************************************************************************)

(* findByEmail: the login goes on with this copy of the user.               *)
LookUpUser(r) ==
    /\ request[r].pc = "idle"
    /\ request' = [request EXCEPT ![r] = [pc |-> "lock check", seen |-> 0,
                                          active |-> account.active]]
    /\ UNCHANGED <<account, failures, stale, passed, manual>>

(* An account without a lock is let through when the copy of it is active.  *)
Unlocked(r) == IF request[r].active THEN Goto(r, "password") ELSE Answered(r)

(* isAccountLocked: an expired lock is taken off before the login goes on.  *)
LockLooked(r) ==
    \/ Expired /\ Goto(r, "unlock")
    \/ account.locked /\ ~Expired /\ Answered(r)
    \/ ~account.locked /\ Unlocked(r)

(* Mutant: the row's lock is not looked at.                                 *)
CheckLockBlind(r) ==
    /\ request[r].pc = "lock check"
    /\ Goto(r, "password")
    /\ UNCHANGED <<account, failures, stale, passed, manual>>

CheckLock(r) ==
    /\ request[r].pc = "lock check"
    /\ LockLooked(r)
    /\ UNCHANGED <<account, failures, stale, passed, manual>>

(* validatePassword, then the second factor, whose failure is not counted.  *)
ComparePassword(r) ==
    /\ request[r].pc = "password"
    /\ \E next \in {"count", "mfa", "reset"} : Goto(r, next)
    /\ UNCHANGED <<account, failures, stale, passed, manual>>

CompareSecondFactor(r) ==
    /\ request[r].pc = "mfa"
    /\ Goto(r, "reset") \/ Answered(r)
    /\ UNCHANGED <<account, failures, stale, passed, manual>>

ReadAttempts(r) ==
    /\ request[r].pc = "count"
    /\ request' = [request EXCEPT ![r].pc = "write", ![r].seen = account.attempts]
    /\ UNCHANGED <<account, failures, stale, passed, manual>>

(* The histories of a failure; stale reads are counted as far as failures.  *)
FailureNoted(r) ==
    /\ failures' = SmallerOf(failures + 1, MaxFailures)
    /\ stale' = IF request[r].seen # account.attempts
                THEN SmallerOf(stale + 1, MaxFailures) ELSE stale

(* Mutant: the attempt that reaches the maximum does not lock.              *)
WriteAttemptsLate(r) ==
    /\ request[r].pc = "write"
    /\ FailureNoted(r)
    /\ LET attempts == SmallerOf(request[r].seen + 1, MaxFailedAttempts)
       IN  IF attempts > MaxFailedAttempts
           THEN LockedFor(LockoutTicks, attempts)
           ELSE account' = [account EXCEPT !.attempts = attempts] /\ UNCHANGED passed
    /\ Answered(r)
    /\ UNCHANGED manual

WriteAttempts(r) ==
    /\ request[r].pc = "write"
    /\ FailureNoted(r)
    /\ LET attempts == SmallerOf(request[r].seen + 1, MaxFailedAttempts)
       IN  IF attempts >= MaxFailedAttempts
           THEN LockedFor(LockoutTicks, attempts)
           ELSE account' = [account EXCEPT !.attempts = attempts] /\ UNCHANGED passed
    /\ Answered(r)
    /\ UNCHANGED manual

(* The login succeeds: resetFailedAttempts takes off whatever lock there is.*)
ResetFailedAttempts(r) ==
    /\ request[r].pc = "reset"
    /\ Cleared
    /\ Answered(r)
    /\ UNCHANGED manual

(***************************************************************************)
(* Locking and unlocking                                                   *)
(***************************************************************************)

(* unlockAccount looks at the row again, and returns when it is unlocked.   *)
(* Either way the login goes on as one of an account without a lock.        *)
ReadLock(r) ==
    /\ request[r].pc = "unlock"
    /\ IF account.locked THEN Goto(r, "unlocking") ELSE Unlocked(r)
    /\ UNCHANGED <<account, failures, stale, passed, manual>>

UnlockAccount(r) ==
    /\ request[r].pc = "unlocking"
    /\ Cleared
    /\ Unlocked(r)
    /\ UNCHANGED manual

(* The methods of UsersService, which the REST API calls, do not look at    *)
(* the lock.  lockAccount has no caller in src.                             *)
LockUser ==
    /\ manual < MaxManual
    /\ LockedFor(ManualTicks, MaxFailedAttempts)
    /\ manual' = manual + 1
    /\ UNCHANGED <<request, failures, stale>>

UnlockUser ==
    /\ Cleared
    /\ UNCHANGED <<request, manual>>

ActivateUser ==
    /\ account' = [account EXCEPT !.active = TRUE]
    /\ UNCHANGED <<request, failures, stale, passed, manual>>

DeactivateUser ==
    /\ account' = [account EXCEPT !.active = FALSE]
    /\ UNCHANGED <<request, failures, stale, passed, manual>>

LockTick ==
    /\ account.until > 0
    /\ account' = [account EXCEPT !.until = @ - 1]
    /\ UNCHANGED <<request, failures, stale, passed, manual>>

LoginStep(r) ==
    \/ LookUpUser(r) \/ CheckLock(r) \/ ComparePassword(r) \/ CompareSecondFactor(r)
    \/ ReadAttempts(r) \/ WriteAttempts(r) \/ ResetFailedAttempts(r)
    \/ ReadLock(r) \/ UnlockAccount(r)

LockoutNext ==
    \/ \E r \in Requests : LoginStep(r)
    \/ LockUser \/ UnlockUser \/ ActivateUser \/ DeactivateUser \/ LockTick

LockoutSpec == LockoutInit /\ [][LockoutNext]_lockoutVars

-----------------------------------------------------------------------------
(* A failure that is counted from a stale read hides at most the failures   *)
(* short of the maximum, and nothing else hides any: however many logins    *)
(* overlap, the failures that an unlocked account has seen since it was     *)
(* last cleared are no more than those, once for each stale read and once   *)
(* for the row (recordFailedAttempt).  Without overlap the failure that     *)
(* reaches the maximum locks.                                               *)
FailuresLock == failures > (MaxFailedAttempts - 1) * (stale + 1) => account.locked

(* A lock that has not run out is taken off only by an administrator or by  *)
(* a request that had looked at the lock before it was set: a login under   *)
(* way resets it when it succeeds, and an automatic unlock of an expired    *)
(* lock may hit the next one.                                               *)
LockHolds ==
    [][account.locked /\ account.until > 0 /\ ~account'.locked
        => UnlockUser \/ \E r \in passed : ResetFailedAttempts(r) \/ UnlockAccount(r)]_lockoutVars
=============================================================================
