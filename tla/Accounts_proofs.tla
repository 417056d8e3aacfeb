---------------------------- MODULE Accounts_proofs ----------------------------
(***************************************************************************)
(* Proofs about AccountLockout, UserSessions and MfaEnrolment, each for    *)
(* any number of requests, and about the three together as MC_Accounts has *)
(* them.                                                                   *)
(***************************************************************************)
EXTENDS MC_Accounts, TLAPS

(***************************************************************************)
(* Proofs about AccountLockout, for any number of requests and any limits. *)
(* LockInv adds to the type what makes a lock hold: while a lock has time  *)
(* left, whoever can still take it off had looked at it before it was set. *)
(***************************************************************************)


LockInv ==
    /\ LockoutType
    /\ account.locked /\ account.until > 0 => PastCheck \subseteq passed

(* The clocks and counters of a lock stay within their ranges.              *)
LEMMA LockRanges ==
    /\ LockoutTicks \in 0..LargerOf(LockoutTicks, ManualTicks)
    /\ ManualTicks \in 0..LargerOf(LockoutTicks, ManualTicks)
    /\ LargerOf(LockoutTicks, ManualTicks) \in Nat
    /\ 0 \in 0..LargerOf(LockoutTicks, ManualTicks)
    /\ 0 \in 0..MaxFailedAttempts /\ MaxFailedAttempts \in 0..MaxFailedAttempts
    /\ 0 \in 0..MaxFailures /\ 0 \in 0..MaxManual
    /\ \A n \in 0..MaxFailedAttempts : SmallerOf(n + 1, MaxFailedAttempts) \in 0..MaxFailedAttempts
    /\ \A n \in 0..MaxFailures : SmallerOf(n + 1, MaxFailures) \in 0..MaxFailures
BY LockoutAssumption DEF LargerOf, SmallerOf

LEMMA LockInitially == LockoutInit => LockInv
<1>. SUFFICES ASSUME LockoutInit PROVE LockInv
  OBVIOUS
<1> USE LockRanges DEF LockoutInit, NoRequest
<1>1. account \in [locked : BOOLEAN, until : 0..LargerOf(LockoutTicks, ManualTicks),
                    attempts : 0..MaxFailedAttempts, active : BOOLEAN]
  OBVIOUS
<1>2. \A r \in Requests : request[r] \in [pc : {"idle", "lock check", "password", "mfa", "count", "write",
                                       "reset", "unlock", "unlocking"},
                                 seen : 0..MaxFailedAttempts, active : BOOLEAN]
  OBVIOUS
<1>3. failures \in 0..MaxFailures /\ stale \in 0..MaxFailures
    /\ passed \subseteq Requests /\ manual \in 0..MaxManual
  OBVIOUS
<1>. QED
  BY <1>1, <1>2, <1>3 DEF LockInv, LockoutType

(* The columns of the row, and what a request is doing.                     *)
Steps == {"idle", "lock check", "password", "mfa", "count", "write", "reset", "unlock", "unlocking"}
AccountRow == [locked : BOOLEAN, until : 0..LargerOf(LockoutTicks, ManualTicks),
               attempts : 0..MaxFailedAttempts, active : BOOLEAN]
RequestState == [pc : Steps, seen : 0..MaxFailedAttempts, active : BOOLEAN]
Histories ==
    /\ failures \in 0..MaxFailures /\ stale \in 0..MaxFailures
    /\ passed \subseteq Requests /\ manual \in 0..MaxManual

LEMMA TypeParts ==
    LockoutType <=> account \in AccountRow /\ request \in [Requests -> RequestState] /\ Histories
BY DEF LockoutType, AccountRow, RequestState, Histories, Steps

LEMMA TypePartsNext ==
    LockoutType' <=>
        account' \in AccountRow /\ request' \in [Requests -> RequestState] /\ Histories'
BY DEF LockoutType, AccountRow, RequestState, Histories, Steps

(* A request that goes on to another step, or is answered, keeps its type.  *)
LEMMA RequestMoves ==
    ASSUME request \in [Requests -> RequestState], NEW r \in Requests
    PROVE  /\ \A pc \in Steps : Goto(r, pc) => request' \in [Requests -> RequestState]
           /\ Answered(r) => request' \in [Requests -> RequestState]
<1>1. NoRequest \in RequestState
  BY LockRanges DEF NoRequest, RequestState, Steps
<1>2. \A q \in RequestState, pc \in Steps : [q EXCEPT !.pc = pc] \in RequestState
  BY DEF RequestState
<1> QED
  BY <1>1, <1>2 DEF Goto, Answered

LEMMA StepNames ==
    \A pc : pc \in {"password", "mfa", "count", "write", "reset", "unlock", "unlocking"} => pc \in Steps
BY DEF Steps

(* One step of a login keeps the type.                                      *)
LEMMA LoginStepTypes ==
    ASSUME LockoutType, NEW r \in Requests, LoginStep(r)
    PROVE  LockoutType'
<1> USE DEF Histories
<1>0. account \in AccountRow /\ request \in [Requests -> RequestState] /\ Histories
  BY TypeParts
<1>. SUFFICES (account \in AccountRow /\ request \in [Requests -> RequestState] /\ Histories)'
  BY TypePartsNext
<1>1. CASE LookUpUser(r)
  <2>1. [pc |-> "lock check", seen |-> 0, active |-> account.active] \in RequestState
    BY <1>0, LockRanges DEF RequestState, Steps, AccountRow
  <2> QED
    BY <1>0, <1>1, <2>1 DEF LookUpUser
<1>2. CASE CheckLock(r)
  BY <1>0, <1>2, RequestMoves, StepNames DEF CheckLock, LockLooked, Unlocked
<1>3. CASE ComparePassword(r)
  BY <1>0, <1>3, RequestMoves, StepNames DEF ComparePassword
<1>4. CASE CompareSecondFactor(r)
  BY <1>0, <1>4, RequestMoves, StepNames DEF CompareSecondFactor
<1>5. CASE ReadAttempts(r)
  <2>1. \A q \in RequestState, n \in 0..MaxFailedAttempts :
           [q EXCEPT !.pc = "write", !.seen = n] \in RequestState
    BY DEF RequestState, Steps
  <2>2. request' = [request EXCEPT ![r] = [@ EXCEPT !.pc = "write", !.seen = account.attempts]]
    BY <1>0, <1>5 DEF ReadAttempts
  <2>3. [request[r] EXCEPT !.pc = "write", !.seen = account.attempts] \in RequestState
    BY <1>0, <2>1 DEF AccountRow
  <2>4. request' \in [Requests -> RequestState]
    BY <1>0, <2>2, <2>3
  <2> QED
    BY <1>0, <1>5, <2>4 DEF ReadAttempts
<1>6. CASE WriteAttempts(r)
  <2> DEFINE attempts == SmallerOf(request[r].seen + 1, MaxFailedAttempts)
  <2>1. attempts \in 0..MaxFailedAttempts
    BY <1>0, LockRanges DEF RequestState
  <2>2. failures' \in 0..MaxFailures /\ stale' \in 0..MaxFailures /\ manual' \in 0..MaxManual
    BY <1>0, <1>6, LockRanges DEF WriteAttempts, FailureNoted
  <2>3. request' \in [Requests -> RequestState]
    BY <1>0, <1>6, RequestMoves, StepNames DEF WriteAttempts
  <2>4. \/ account' = [account EXCEPT !.locked = TRUE, !.until = LockoutTicks, !.attempts = attempts]
           /\ passed' = PastCheck
        \/ account' = [account EXCEPT !.attempts = attempts] /\ UNCHANGED passed
    BY <1>6 DEF WriteAttempts, LockedFor
  <2>5. account' \in AccountRow
    <3> HIDE DEF attempts
    <3> QED
      BY <1>0, <2>1, <2>4, LockRanges DEF AccountRow
  <2> QED
    BY <1>0, <2>2, <2>3, <2>4, <2>5 DEF PastCheck
<1>7. CASE ResetFailedAttempts(r)
  <2>1. account' \in AccountRow
    BY <1>0, <1>7, LockRanges DEF ResetFailedAttempts, Cleared, AccountRow
  <2> QED
    BY <1>0, <1>7, <2>1, RequestMoves, LockRanges DEF ResetFailedAttempts, Cleared
<1>8. CASE ReadLock(r)
  BY <1>0, <1>8, RequestMoves, StepNames DEF ReadLock, Unlocked
<1>9. CASE UnlockAccount(r)
  <2>1. account' \in AccountRow
    BY <1>0, <1>9, LockRanges DEF UnlockAccount, Cleared, AccountRow
  <2> QED
    BY <1>0, <1>9, <2>1, RequestMoves, StepNames, LockRanges DEF UnlockAccount, Unlocked, Cleared
<1> QED
  BY <1>1, <1>2, <1>3, <1>4, <1>5, <1>6, <1>7, <1>8, <1>9 DEF LoginStep

LEMMA LockoutTypeKept ==
    ASSUME LockoutType, [LockoutNext]_lockoutVars
    PROVE  LockoutType'
<1>1. CASE UNCHANGED lockoutVars
  BY <1>1 DEF lockoutVars, LockoutType
<1>2. CASE \E r \in Requests : LoginStep(r)
  BY <1>2, LoginStepTypes
<1>3. CASE LockUser
  <2>1. account' \in AccountRow
    BY <1>3, TypeParts, LockRanges DEF LockUser, LockedFor, AccountRow
  <2>2. Histories'
    BY <1>3, TypeParts, LockoutAssumption DEF LockUser, LockedFor, PastCheck, Histories
  <2> QED
    BY <1>3, <2>1, <2>2, TypeParts, TypePartsNext DEF LockUser
<1>4. CASE UnlockUser
  <2>1. account' \in AccountRow
    BY <1>4, TypeParts, LockRanges DEF UnlockUser, Cleared, AccountRow
  <2>2. Histories'
    BY <1>4, TypeParts, LockRanges DEF UnlockUser, Cleared, Histories
  <2> QED
    BY <1>4, <2>1, <2>2, TypeParts, TypePartsNext DEF UnlockUser
<1>5. CASE ActivateUser \/ DeactivateUser
  BY <1>5 DEF ActivateUser, DeactivateUser, LockoutType
<1>6. CASE LockTick
  <2>1. account' \in AccountRow
    <3>1. account.until \in 0..LargerOf(LockoutTicks, ManualTicks)
      BY TypeParts DEF AccountRow
    <3>2. account.until - 1 \in 0..LargerOf(LockoutTicks, ManualTicks)
      BY <1>6, <3>1, LockRanges DEF LockTick
    <3> QED
      BY <1>6, <3>2, TypeParts DEF LockTick, AccountRow
  <2> QED
    BY <1>6, <2>1, TypeParts, TypePartsNext DEF LockTick, Histories
<1> QED
  BY <1>1, <1>2, <1>3, <1>4, <1>5, <1>6 DEF LockoutNext

LEMMA NotExpired == account.until > 0 => ~Expired
BY DEF Expired

(* A request gets past the look at the lock only when there is no lock or   *)
(* the lock has run out, and a new lock takes down everyone who is past it. *)
LEMMA LockInvKept ==
    ASSUME LockInv, [LockoutNext]_lockoutVars
    PROVE  LockInv'
<1> USE DEF LockInv
<1>0. LockoutType'
  BY LockoutTypeKept
<1>. SUFFICES ASSUME account'.locked, account'.until > 0
              PROVE  (PastCheck \subseteq passed)'
  BY <1>0
<1>1. CASE UNCHANGED lockoutVars
  BY <1>1 DEF lockoutVars, PastCheck
<1>2. ASSUME NEW r \in Requests, LoginStep(r)
      PROVE  (PastCheck \subseteq passed)'
  <2> USE DEF LockoutType
  <2>1. CASE LookUpUser(r)
    BY <2>1 DEF LookUpUser, PastCheck
  <2>2. CASE CheckLock(r)
    <3>1. account.locked /\ account.until > 0 /\ UNCHANGED passed
      BY <2>2 DEF CheckLock
    <3>2. Answered(r)
      <4>1. LockLooked(r)
        BY <2>2 DEF CheckLock
      <4>2. ~Expired
        BY <3>1, NotExpired
      <4> QED
        BY <3>1, <4>1, <4>2 DEF LockLooked
    <3>3. PastCheck' \subseteq PastCheck
      BY <3>2 DEF Answered, NoRequest, PastCheck
    <3> QED
      BY <3>1, <3>3
  <2>3. CASE ComparePassword(r)
    BY <2>3 DEF ComparePassword, Goto, PastCheck
  <2>4. CASE CompareSecondFactor(r)
    BY <2>4 DEF CompareSecondFactor, Goto, Answered, NoRequest, PastCheck
  <2>5. CASE ReadAttempts(r)
    BY <2>5 DEF ReadAttempts, PastCheck
  <2>6. CASE WriteAttempts(r)
    <3>1. request' = [request EXCEPT ![r] = NoRequest]
      BY <2>6 DEF WriteAttempts, Answered
    <3>2. PastCheck' \subseteq PastCheck
      BY <3>1 DEF PastCheck, NoRequest
    <3>3. \/ passed' = PastCheck
          \/ passed' = passed /\ account'.locked = account.locked /\ account'.until = account.until
      BY <2>6 DEF WriteAttempts, LockedFor
    <3> QED
      BY <3>2, <3>3
  <2>7. CASE ResetFailedAttempts(r)
    BY <2>7 DEF ResetFailedAttempts, Cleared
  <2>8. CASE ReadLock(r)
    BY <2>8 DEF ReadLock, Unlocked, Goto, Answered, NoRequest, PastCheck
  <2>9. CASE UnlockAccount(r)
    BY <2>9 DEF UnlockAccount, Cleared
  <2> QED
    BY <1>2, <2>1, <2>2, <2>3, <2>4, <2>5, <2>6, <2>7, <2>8, <2>9 DEF LoginStep
<1>3. CASE LockUser
  BY <1>3 DEF LockUser, LockedFor, PastCheck
<1>4. CASE UnlockUser
  BY <1>4 DEF UnlockUser, Cleared, LockoutType
<1>5. CASE ActivateUser \/ DeactivateUser
  BY <1>5 DEF ActivateUser, DeactivateUser, PastCheck, LockoutType
<1>6. CASE LockTick
  BY <1>6 DEF LockTick, PastCheck, LockoutType
<1> QED
  BY <1>1, <1>2, <1>3, <1>4, <1>5, <1>6 DEF LockoutNext

(* The row, the requests and the histories always have their types.         *)
THEOREM LockoutTypeHolds == LockoutSpec => []LockoutType
<1>1. LockInv /\ [LockoutNext]_lockoutVars => LockInv'
  BY LockInvKept
<1>2. LockInv => LockoutType
  BY DEF LockInv
<1> QED
  BY LockInitially, <1>1, <1>2, PTL DEF LockoutSpec

(* A lock with time left comes off only by an administrator or by a request *)
(* that had looked at it before it was set.                                 *)
LEMMA OnlyPassedUnlock ==
    ASSUME LockInv, LockoutNext,
           account.locked, account.until > 0, ~account'.locked
    PROVE  UnlockUser \/ \E r \in passed : ResetFailedAttempts(r) \/ UnlockAccount(r)
<1> USE DEF LockInv, LockoutType
<1>1. ASSUME NEW r \in Requests, LoginStep(r)
      PROVE  \E q \in passed : ResetFailedAttempts(q) \/ UnlockAccount(q)
  <2>1. ~(LookUpUser(r) \/ CheckLock(r) \/ ComparePassword(r) \/ CompareSecondFactor(r)
            \/ ReadAttempts(r) \/ ReadLock(r))
    BY DEF LookUpUser, CheckLock, ComparePassword, CompareSecondFactor, ReadAttempts, ReadLock
  <2>2. ~WriteAttempts(r)
    BY DEF WriteAttempts, LockedFor
  <2>3. ResetFailedAttempts(r) \/ UnlockAccount(r)
    BY <1>1, <2>1, <2>2 DEF LoginStep
  <2>4. r \in PastCheck
    BY <2>3 DEF ResetFailedAttempts, UnlockAccount, PastCheck
  <2> QED
    BY <2>3, <2>4
<1>2. ~(LockUser \/ ActivateUser \/ DeactivateUser \/ LockTick)
  BY DEF LockUser, LockedFor, ActivateUser, DeactivateUser, LockTick
<1> QED
  BY <1>1, <1>2 DEF LockoutNext

(* That is what LockHolds says of every behaviour (isAccountLocked,         *)
(* recordFailedAttempt, resetFailedAttempts, unlockAccount).                *)
THEOREM LocksHold == LockoutSpec => LockHolds
<1> DEFINE Holds ==
      account.locked /\ account.until > 0 /\ ~account'.locked
        => UnlockUser \/ \E r \in passed : ResetFailedAttempts(r) \/ UnlockAccount(r)
<1>1. LockInv /\ [LockoutNext]_lockoutVars => LockInv'
  BY LockInvKept
<1>2. LockInv /\ [LockoutNext]_lockoutVars => [Holds]_lockoutVars
  BY OnlyPassedUnlock
<1> QED
  BY LockInitially, <1>1, <1>2, PTL DEF LockoutSpec, LockHolds

(***************************************************************************)
(* How many failures an account without a lock has seen, for any number of *)
(* overlapping logins: those that its count shows, and at most the ones    *)
(* short of the maximum for each failure that was counted from a stale     *)
(* read.                                                                   *)
(***************************************************************************)
Hidden == [n \in Nat |-> (MaxFailedAttempts - 1) * n]

CountInv ==
    /\ LockInv
    /\ ~account.locked =>
         account.attempts < MaxFailedAttempts /\ failures <= Hidden[stale] + account.attempts

LEMMA HiddenByReads ==
    /\ Hidden[0] = 0
    /\ \A n \in Nat : Hidden[n] \in Nat /\ Hidden[n + 1] = Hidden[n] + (MaxFailedAttempts - 1)
    /\ MaxFailedAttempts > 1 => \A n \in Nat : n <= Hidden[n]
<1>1. \A k, n \in Nat : k * n \in Nat /\ k * (n + 1) = k * n + k /\ k * 0 = 0
  OBVIOUS
<1>2. \A k, n \in Nat : k > 0 => n <= k * n
  OBVIOUS
<1>3. MaxFailedAttempts - 1 \in Nat /\ (MaxFailedAttempts > 1 => MaxFailedAttempts - 1 > 0)
  BY LockoutAssumption
<1> QED
  BY <1>1, <1>2, <1>3 DEF Hidden

LEMMA CountInitially == LockoutInit => CountInv
BY LockInitially, HiddenByReads, LockoutAssumption DEF LockoutInit, CountInv

(* A failure counted from the row as it is adds one to the count; one from  *)
(* a stale read leaves the count at one or more.                            *)
LEMMA WriteCounts ==
    ASSUME CountInv, LockInv', NEW r \in Requests, WriteAttempts(r)
    PROVE  CountInv'
<1>. SUFFICES ASSUME ~account'.locked
              PROVE  /\ account'.attempts < MaxFailedAttempts
                     /\ failures' <= Hidden[stale'] + account'.attempts
  BY DEF CountInv
<1> DEFINE attempts == SmallerOf(request[r].seen + 1, MaxFailedAttempts)
<1>1. account \in AccountRow /\ request[r] \in RequestState /\ Histories
  BY TypeParts DEF CountInv, LockInv
<1>2. /\ request[r].seen \in 0..MaxFailedAttempts /\ account.attempts \in 0..MaxFailedAttempts
      /\ failures \in 0..MaxFailures /\ stale \in 0..MaxFailures
  BY <1>1 DEF AccountRow, RequestState, Histories
<1>3. attempts < MaxFailedAttempts /\ account' = [account EXCEPT !.attempts = attempts]
  <2>1. attempts \in Nat
    BY <1>2, LockoutAssumption DEF SmallerOf
  <2>2. \/ account' = [account EXCEPT !.locked = TRUE, !.until = LockoutTicks, !.attempts = attempts]
        \/ ~(attempts >= MaxFailedAttempts) /\ account' = [account EXCEPT !.attempts = attempts]
    BY DEF WriteAttempts, LockedFor
  <2> HIDE DEF attempts
  <2>3. ~(attempts >= MaxFailedAttempts) /\ account' = [account EXCEPT !.attempts = attempts]
    BY <1>1, <2>2 DEF AccountRow
  <2> QED
    BY <2>1, <2>3, LockoutAssumption
<1>4. account'.attempts = request[r].seen + 1 /\ request[r].seen + 1 < MaxFailedAttempts
  BY <1>1, <1>2, <1>3, LockoutAssumption DEF AccountRow, SmallerOf
<1>5. ~account.locked
  BY <1>1, <1>3 DEF AccountRow
<1>6. account.attempts < MaxFailedAttempts /\ failures <= Hidden[stale] + account.attempts
  BY <1>5 DEF CountInv
<1>7. failures' = SmallerOf(failures + 1, MaxFailures)
  BY DEF WriteAttempts, FailureNoted
<1>8. CASE request[r].seen = account.attempts
  <2>1. stale' = stale
    BY <1>8 DEF WriteAttempts, FailureNoted
  <2> QED
    BY <1>2, <1>4, <1>6, <1>7, <1>8, <2>1, HiddenByReads, LockoutAssumption DEF SmallerOf
<1>9. CASE request[r].seen # account.attempts
  <2>1. stale' = SmallerOf(stale + 1, MaxFailures)
    BY <1>9 DEF WriteAttempts, FailureNoted
  <2>2. CASE stale < MaxFailures
    <3>1. stale' = stale + 1 /\ Hidden[stale + 1] = Hidden[stale] + (MaxFailedAttempts - 1)
      BY <1>2, <2>1, <2>2, HiddenByReads, LockoutAssumption DEF SmallerOf
    <3>2. Hidden[stale] \in Nat /\ failures' <= failures + 1 /\ failures' \in Nat
      BY <1>2, <1>7, HiddenByReads, LockoutAssumption DEF SmallerOf
    <3> QED
      BY <1>2, <1>4, <1>6, <3>1, <3>2, LockoutAssumption
  <2>3. CASE stale = MaxFailures
    <3>1. stale' = MaxFailures /\ MaxFailures <= Hidden[MaxFailures] /\ Hidden[MaxFailures] \in Nat
      BY <1>2, <1>4, <2>1, <2>3, HiddenByReads, LockoutAssumption DEF SmallerOf
    <3>2. failures' <= MaxFailures /\ failures' \in Nat
      BY <1>2, <1>7, LockoutAssumption DEF SmallerOf
    <3> QED
      BY <1>2, <1>4, <3>1, <3>2, LockoutAssumption
  <2> QED
    BY <1>2, <2>2, <2>3, LockoutAssumption
<1> QED
  BY <1>8, <1>9

(* No other step changes the count without clearing it or locking.          *)
LEMMA CountInvKept == CountInv /\ [LockoutNext]_lockoutVars => CountInv'
<1>. SUFFICES ASSUME CountInv, [LockoutNext]_lockoutVars PROVE CountInv'
  OBVIOUS
<1>0. LockInv /\ LockInv'
  BY LockInvKept DEF CountInv
<1> DEFINE Kept == /\ account'.locked = account.locked /\ account'.attempts = account.attempts
                   /\ failures' = failures /\ stale' = stale
<1>1. Kept => CountInv'
  BY <1>0 DEF CountInv, Hidden
<1>2. Cleared => CountInv'
  <2>1. ASSUME Cleared PROVE account'.attempts = 0 /\ failures' = 0 /\ stale' = 0
    BY <1>0, <2>1, TypeParts DEF Cleared, LockInv, AccountRow
  <2> QED
    BY <1>0, <2>1, HiddenByReads, LockoutAssumption DEF CountInv
<1>3. account'.locked => CountInv'
  BY <1>0 DEF CountInv
<1>4. account \in AccountRow
  BY <1>0, TypeParts DEF LockInv
<1>5. CASE UNCHANGED lockoutVars
  BY <1>1, <1>5 DEF lockoutVars
<1>6. ASSUME NEW r \in Requests, LoginStep(r) PROVE CountInv'
  <2>1. CASE WriteAttempts(r)
    BY <1>0, <2>1, WriteCounts
  <2>2. CASE ResetFailedAttempts(r) \/ UnlockAccount(r)
    BY <1>2, <2>2 DEF ResetFailedAttempts, UnlockAccount
  <2>3. CASE \/ LookUpUser(r) \/ CheckLock(r) \/ ComparePassword(r) \/ CompareSecondFactor(r)
             \/ ReadAttempts(r) \/ ReadLock(r)
    BY <1>1, <2>3 DEF LookUpUser, CheckLock, ComparePassword, CompareSecondFactor, ReadAttempts,
                      ReadLock
  <2> QED
    BY <1>6, <2>1, <2>2, <2>3 DEF LoginStep
<1>7. CASE LockUser
  BY <1>3, <1>4, <1>7 DEF LockUser, LockedFor, AccountRow
<1>8. CASE UnlockUser
  BY <1>2, <1>8 DEF UnlockUser
<1>9. CASE ActivateUser \/ DeactivateUser \/ LockTick
  BY <1>1, <1>4, <1>9 DEF ActivateUser, DeactivateUser, LockTick, AccountRow
<1> QED
  BY <1>5, <1>6, <1>7, <1>8, <1>9 DEF LockoutNext

LEMMA CountInvIsEnough == CountInv => FailuresLock
<1>. SUFFICES ASSUME CountInv, ~account.locked
              PROVE  ~(failures > (MaxFailedAttempts - 1) * (stale + 1))
  BY DEF FailuresLock
<1>1. account.attempts \in 0..MaxFailedAttempts /\ failures \in 0..MaxFailures /\ stale \in 0..MaxFailures
  BY TypeParts DEF CountInv, LockInv, AccountRow, Histories
<1>2. account.attempts < MaxFailedAttempts /\ failures <= Hidden[stale] + account.attempts
  BY DEF CountInv
<1>3. Hidden[stale] \in Nat /\ Hidden[stale + 1] = Hidden[stale] + (MaxFailedAttempts - 1)
  BY <1>1, HiddenByReads
<1>4. Hidden[stale + 1] = (MaxFailedAttempts - 1) * (stale + 1)
  BY <1>1, LockoutAssumption DEF Hidden
<1>5. ~(failures > Hidden[stale + 1])
  BY <1>1, <1>2, <1>3, LockoutAssumption
<1> QED
  BY <1>4, <1>5

(* For any number of overlapping logins an account is locked once it has    *)
(* seen more failures than stale reads can hide (recordFailedAttempt).      *)
THEOREM FailuresLockAccount == LockoutSpec => []FailuresLock
BY CountInitially, CountInvKept, CountInvIsEnough, PTL DEF LockoutSpec

(***************************************************************************)
(* Proofs about UserSessions, for any number of requests and sessions.     *)
(* A row is inserted with the password of the moment, a change of the      *)
(* password deletes them all, and an update by id inserts none.            *)
(***************************************************************************)


UserRow == [status : {"active", "inactive", "deleted"}, locked : BOOLEAN,
            password : 1..MaxPasswords, reset : BOOLEAN]
Hearsay == {"none", "told", "late", "lost"}
SessionRow == [row : BOOLEAN, used : BOOLEAN, pair : 0..MaxPairs, ended : BOOLEAN,
               since : 0..MaxPasswords, held : 0..MaxPairs, heard : Hearsay]
CallState == [pc : CallTypes, id : Sessions \cup {"none"}, pair : 0..MaxPairs]

(* A session is open under the password p, if it has a row at all.          *)
OpenUnder(q, p) == q \in SessionRow /\ (q.row => q.used /\ q.since = p)

(* A request that works on a session knows which.                           *)
Knows(c) == c \in CallState /\ (c.pc \in {"hashing", "rotating", "answering"} => c.id \in Sessions)

SessInv ==
    /\ user \in UserRow
    /\ DOMAIN session = Sessions /\ session = [s \in Sessions |-> session[s]]
    /\ \A s \in Sessions : OpenUnder(session[s], user.password)
    /\ call = [r \in SessionRequests |-> call[r]]
    /\ \A r \in SessionRequests : Knows(call[r])

LEMMA SessInvIsEnough == SessInv => SessionType /\ NoSessionOutlivesPassword
<1> SUFFICES ASSUME SessInv PROVE SessionType /\ NoSessionOutlivesPassword
  OBVIOUS
<1>1. session \in [Sessions -> SessionRow]
  BY DEF SessInv, OpenUnder
<1>2. call \in [SessionRequests -> CallState]
  BY DEF SessInv, Knows
<1>3. \A s \in Sessions : session[s].row => session[s].used /\ session[s].since = user.password
  BY DEF SessInv, OpenUnder
<1> QED
  BY <1>1, <1>2, <1>3 DEF SessInv, SessionType, UserRow, SessionRow, Hearsay, CallState,
                          NoSessionOutlivesPassword, Rows

(***************************************************************************)
(* The rows and the requests the actions write.                            *)
(***************************************************************************)

LEMMA RowRanges ==
    /\ 0 \in 0..MaxPairs /\ 0 \in 0..MaxPasswords
    /\ \A p \in 1..MaxPasswords : p \in 0..MaxPasswords
BY SessionAssumption

LEMMA NoRowIsOpen ==
    \A p : /\ OpenUnder(NoRow, p)
           /\ \A b \in BOOLEAN : OpenUnder([NoRow EXCEPT !.used = b], p)
<1>1. NoRow \in SessionRow
  BY RowRanges DEF NoRow, Temp, SessionRow, Hearsay
<1>2. \A b \in BOOLEAN : [NoRow EXCEPT !.used = b] \in SessionRow /\ ~[NoRow EXCEPT !.used = b].row
  BY <1>1 DEF SessionRow, NoRow
<1> QED
  BY <1>1, <1>2 DEF OpenUnder, NoRow

LEMMA NewRowIsOpen ==
    ASSUME NEW p \in 1..MaxPasswords
    PROVE  OpenUnder([NoRow EXCEPT !.row = TRUE, !.used = TRUE, !.since = p], p)
<1>1. NoRow \in SessionRow
  BY RowRanges DEF NoRow, Temp, SessionRow, Hearsay
<1>2. p \in 0..MaxPasswords
  BY RowRanges
<1> HIDE DEF NoRow
<1> QED
  BY <1>1, <1>2 DEF OpenUnder, SessionRow

LEMMA UpdatedRowIsOpen ==
    ASSUME NEW p, NEW q, OpenUnder(q, p)
    PROVE  /\ \A n \in 0..MaxPairs : OpenUnder([q EXCEPT !.pair = n], p)
           /\ \A b \in BOOLEAN : OpenUnder([q EXCEPT !.ended = b], p)
           /\ \A h \in Hearsay : OpenUnder([q EXCEPT !.heard = h], p)
           /\ \A n \in 0..MaxPairs, h \in Hearsay : OpenUnder([q EXCEPT !.held = n, !.heard = h], p)
           /\ \A n \in 0..MaxPairs, h \in Hearsay : OpenUnder([q EXCEPT !.pair = n, !.heard = h], p)
BY DEF OpenUnder, SessionRow

LEMMA NoCallKnows == Knows(NoCall)
BY SessionAssumption DEF Knows, CallState, NoCall, CallTypes

LEMMA CallsKnow ==
    ASSUME NEW c, Knows(c)
    PROVE  /\ \A s \in Sessions, pc \in {"hashing", "rotating"} : Knows([c EXCEPT !.pc = pc, !.id = s])
           /\ \A pc \in {"validated", "changing", "resetting"} : Knows([c EXCEPT !.pc = pc])
           /\ \A n \in 0..MaxPairs : c.id \in Sessions => Knows([c EXCEPT !.pc = "answering", !.pair = n])
BY DEF Knows, CallState, CallTypes

(* What an action that leaves some of the state alone keeps of SessInv.     *)
UserKept == user' \in UserRow /\ user'.password = user.password
SessionsKept ==
    /\ DOMAIN session' = Sessions /\ session' = [s \in Sessions |-> session'[s]]
    /\ \A s \in Sessions : OpenUnder(session'[s], user'.password)
CallsKept ==
    /\ call' = [r \in SessionRequests |-> call'[r]]
    /\ \A r \in SessionRequests : Knows(call'[r])

LEMMA Untouched ==
    ASSUME SessInv
    PROVE  /\ UNCHANGED call => CallsKept
           /\ UNCHANGED session /\ user'.password = user.password => SessionsKept
           /\ UNCHANGED user => user' \in UserRow /\ user'.password = user.password
           /\ \A r \in SessionRequests : Ends(r) => CallsKept
<1>1. \A r \in SessionRequests : Ends(r) => CallsKept
  BY NoCallKnows DEF SessInv, Ends, CallsKept
<1> QED
  BY <1>1 DEF SessInv, SessionsKept, CallsKept

LEMMA Together == user' \in UserRow /\ SessionsKept /\ CallsKept => SessInv'
BY DEF SessInv, SessionsKept, CallsKept

LEMMA DeletedRows ==
    ASSUME SessInv, NEW ids
    PROVE  /\ session' = Deleted(ids) /\ user'.password = user.password => SessionsKept
           /\ session' = Deleted(Rows) => SessionsKept
<1>1. \A s \in Sessions : session[s].used \in BOOLEAN
  BY DEF SessInv, OpenUnder, SessionRow
<1>2. \A p : \A s \in Sessions : OpenUnder([NoRow EXCEPT !.used = session[s].used], p)
  BY <1>1, NoRowIsOpen
<1>3. \A p : \A s \in Sessions : s \notin Rows => OpenUnder(session[s], p)
  BY DEF Rows, SessInv, OpenUnder
<1> QED
  BY <1>2, <1>3 DEF Deleted, SessionsKept, SessInv

(***************************************************************************)
(* The steps                                                               *)
(***************************************************************************)

LEMMA SessInitially == SessionInit => SessInv
<1> SUFFICES ASSUME SessionInit PROVE SessInv
  OBVIOUS
<1>1. user \in UserRow
  BY SessionAssumption DEF SessionInit, UserRow
<1> QED
  BY <1>1, NoRowIsOpen, NoCallKnows DEF SessionInit, SessInv

LEMMA RequestStepKeeps ==
    ASSUME SessInv, NEW r \in SessionRequests, RequestStep(r)
    PROVE  SessInv'
<1>0. /\ user \in UserRow /\ user.password \in 1..MaxPasswords
      /\ Knows(call[r]) /\ call[r].pair \in 0..MaxPairs
      /\ \A s \in Sessions : OpenUnder(session[s], user.password) /\ session[s].pair \in 0..MaxPairs
      /\ session = [s \in Sessions |-> session[s]] /\ DOMAIN session = Sessions
      /\ call = [q \in SessionRequests |-> call[q]] /\ \A q \in SessionRequests : Knows(call[q])
  BY DEF SessInv, UserRow, Knows, CallState, OpenUnder, SessionRow
<1>1. CASE CreateSession(r)
  <2>1. UNCHANGED user
    BY <1>1 DEF CreateSession
  <2>2. CASE Ends(r) /\ UNCHANGED session
    BY <2>1, <2>2, Untouched, Together
  <2>3. CASE ~(Ends(r) /\ UNCHANGED session)
    <3>1. PICK s \in Sessions :
            /\ session' = [session EXCEPT ![s] = [NoRow EXCEPT !.row = TRUE, !.used = TRUE,
                                                               !.since = user.password]]
            /\ call' = [call EXCEPT ![r].pc = "hashing", ![r].id = s]
      BY <1>1, <2>3 DEF CreateSession
    <3>2. SessionsKept
      BY <1>0, <2>1, <3>1, NewRowIsOpen DEF SessionsKept
    <3>3. call' = [call EXCEPT ![r] = [call[r] EXCEPT !.pc = "hashing", !.id = s]]
      BY <1>0, <3>1
    <3>4. CallsKept
      BY <1>0, <3>3, CallsKnow DEF CallsKept
    <3> QED
      BY <2>1, <3>2, <3>4, Untouched, Together
  <2> QED
    BY <2>2, <2>3
<1>2. CASE StoreHashes(r)
  <2> DEFINE s == call[r].id
  <2>1. UNCHANGED user /\ s \in Sessions
    BY <1>0, <1>2 DEF StoreHashes, Knows
  <2>2. CASE Ends(r) /\ UNCHANGED session
    BY <2>1, <2>2, Untouched, Together
  <2>3. CASE ~(Ends(r) /\ UNCHANGED session)
    <3>1. /\ session' = [session EXCEPT ![s].pair = 1]
          /\ call' = [call EXCEPT ![r].pc = "answering", ![r].pair = 1]
      BY <1>2, <2>3 DEF StoreHashes
    <3>2. 1 \in 0..MaxPairs
      BY SessionAssumption
    <3>3. session' = [session EXCEPT ![s] = [session[s] EXCEPT !.pair = 1]]
      BY <1>0, <2>1, <3>1
    <3>4. OpenUnder([session[s] EXCEPT !.pair = 1], user.password)
      BY <1>0, <2>1, <3>2, UpdatedRowIsOpen
    <3>5. SessionsKept
      BY <1>0, <2>1, <3>3, <3>4 DEF SessionsKept
    <3>6. call' = [call EXCEPT ![r] = [call[r] EXCEPT !.pc = "answering", !.pair = 1]]
      BY <1>0, <3>1
    <3>7. Knows([call[r] EXCEPT !.pc = "answering", !.pair = 1])
      BY <1>0, <2>1, <3>2, CallsKnow
    <3>8. CallsKept
      BY <1>0, <3>6, <3>7 DEF CallsKept
    <3> QED
      BY <2>1, <3>5, <3>8, Untouched, Together
  <2> QED
    BY <2>2, <2>3
<1>3. CASE Answer(r)
  <2> DEFINE s == call[r].id
  <2>1. UNCHANGED user /\ s \in Sessions /\ Ends(r)
    BY <1>0, <1>3 DEF Answer, Knows
  <2>2. \/ UNCHANGED session
        \/ session' = [session EXCEPT ![s] = [session[s] EXCEPT !.held = call[r].pair,
                                                                !.heard = Heard(s, call[r].pair)]]
        \/ \E h \in {"lost", session[s].heard} :
             session' = [session EXCEPT ![s] = [session[s] EXCEPT !.heard = h]]
    BY <1>3 DEF Answer
  <2>3. session[s].heard \in Hearsay
    BY <1>0, <2>1 DEF OpenUnder, SessionRow
  <2>4. Heard(s, call[r].pair) \in Hearsay /\ "lost" \in Hearsay
    BY <2>3 DEF Heard, Hearsay
  <2>5. /\ OpenUnder([session[s] EXCEPT !.held = call[r].pair, !.heard = Heard(s, call[r].pair)],
                     user.password)
        /\ \A h \in {"lost", session[s].heard} :
             OpenUnder([session[s] EXCEPT !.heard = h], user.password)
    BY <1>0, <2>1, <2>3, <2>4, UpdatedRowIsOpen
  <2>6. SessionsKept
    BY <1>0, <2>1, <2>2, <2>5 DEF SessionsKept
  <2> QED
    BY <2>1, <2>6, Untouched, Together
<1>4. CASE Rotate(r)
  <2> DEFINE s == call[r].id
  <2>1. UNCHANGED user /\ s \in Sessions
    BY <1>0, <1>4 DEF Rotate, Knows
  <2>2. CASE Ends(r) /\ UNCHANGED session
    BY <2>1, <2>2, Untouched, Together
  <2>3. CASE ~(Ends(r) /\ UNCHANGED session)
    <3> DEFINE n == session[s].pair + 1
    <3>1. /\ session' = Rotated(r)
          /\ call' = [call EXCEPT ![r].pc = "answering", ![r].pair = n]
      BY <1>4, <2>3 DEF Rotate
    <3>2. n \in 0..MaxPairs
      BY <1>0, <1>4, <2>1, SessionAssumption DEF Rotate
    <3>3. session' = [session EXCEPT ![s] = [session[s] EXCEPT !.pair = n, !.heard = "none"]]
      BY <1>0, <2>1, <3>1 DEF Rotated
    <3>4. OpenUnder([session[s] EXCEPT !.pair = n, !.heard = "none"], user.password)
      <4> HIDE DEF n
      <4> QED
        BY <1>0, <2>1, <3>2, UpdatedRowIsOpen DEF Hearsay
    <3>5. SessionsKept
      <4> HIDE DEF n
      <4> QED
        BY <1>0, <2>1, <3>3, <3>4 DEF SessionsKept
    <3>6. Knows([call[r] EXCEPT !.pc = "answering", !.pair = n])
      <4> HIDE DEF n
      <4> QED
        BY <1>0, <2>1, <3>2, CallsKnow
    <3>7. call' = [call EXCEPT ![r] = [call[r] EXCEPT !.pc = "answering", !.pair = n]]
      BY <1>0, <3>1
    <3>8. CallsKept
      <4> HIDE DEF n
      <4> QED
        BY <1>0, <3>6, <3>7 DEF CallsKept
    <3> QED
      BY <2>1, <3>5, <3>8, Untouched, Together
  <2> QED
    BY <2>2, <2>3
<1>5. CASE ChangePassword(r) \/ ConfirmPasswordReset(r)
  <2>1. user' \in UserRow
    <3>1. user.password + 1 \in 1..MaxPasswords
      BY <1>0, <1>5, SessionAssumption DEF ChangePassword, ConfirmPasswordReset, PasswordReplaced
    <3>2. \/ user' = [user EXCEPT !.password = user.password + 1]
          \/ user' = [user EXCEPT !.password = user.password + 1, !.reset = FALSE]
      BY <1>5 DEF ChangePassword, ConfirmPasswordReset
    <3> QED
      BY <1>0, <3>1, <3>2 DEF UserRow
  <2>2. session' = Deleted(Rows) /\ Ends(r)
    BY <1>5 DEF ChangePassword, ConfirmPasswordReset, PasswordReplaced
  <2> QED
    BY <2>1, <2>2, DeletedRows, Untouched, Together
<1> QED
  BY <1>1, <1>2, <1>3, <1>4, <1>5 DEF RequestStep

LEMMA FirstStepKeeps ==
    ASSUME SessInv, NEW r \in SessionRequests,
           \/ ValidateLogin(r) \/ CheckCurrentPassword(r) \/ FindResetToken(r)
           \/ \E s \in Sessions : FindByRefreshToken(r, s)
    PROVE  SessInv'
<1>0. /\ call = [q \in SessionRequests |-> call[q]]
      /\ \A q \in SessionRequests : Knows(call[q])
      /\ user \in UserRow
  BY DEF SessInv
<1>1. UNCHANGED session /\ UserKept
  BY <1>0 DEF ValidateLogin, CheckCurrentPassword, FindResetToken, FindByRefreshToken, UserKept,
              UserRow
<1>2. CallsKept
  <2>1. CASE \E pc \in {"validated", "changing", "resetting"} :
               call' = [call EXCEPT ![r] = [call[r] EXCEPT !.pc = pc]]
    <3>1. PICK pc \in {"validated", "changing", "resetting"} :
            call' = [call EXCEPT ![r] = [call[r] EXCEPT !.pc = pc]]
      BY <2>1
    <3>2. Knows([call[r] EXCEPT !.pc = pc])
      BY <1>0, CallsKnow
    <3> QED
      BY <1>0, <3>1, <3>2 DEF CallsKept
  <2>2. ASSUME NEW s \in Sessions, FindByRefreshToken(r, s)
        PROVE  CallsKept
    <3>1. call' = [call EXCEPT ![r] = [call[r] EXCEPT !.pc = "rotating", !.id = s]]
      BY <2>2 DEF FindByRefreshToken
    <3>2. Knows([call[r] EXCEPT !.pc = "rotating", !.id = s])
      BY <1>0, CallsKnow
    <3> QED
      BY <1>0, <3>1, <3>2 DEF CallsKept
  <2>3. CASE ValidateLogin(r)
    BY <2>1, <2>3 DEF ValidateLogin
  <2>4. CASE CheckCurrentPassword(r)
    BY <2>1, <2>4 DEF CheckCurrentPassword
  <2>5. CASE FindResetToken(r)
    BY <2>1, <2>5 DEF FindResetToken
  <2> QED
    BY <2>2, <2>3, <2>4, <2>5
<1> QED
  BY <1>1, <1>2, Untouched, Together DEF UserKept

LEMMA AdministrationKeeps ==
    ASSUME SessInv,
           GeneratePasswordResetToken \/ Activate \/ Deactivate \/ RemoveUser \/ Lock \/ Unlock
    PROVE  SessInv'
<1>1. user' \in UserRow /\ user'.password = user.password
  BY DEF SessInv, UserRow, GeneratePasswordResetToken, Activate, Deactivate, RemoveUser, Lock, Unlock
<1>2. UNCHANGED <<session, call>>
  BY DEF GeneratePasswordResetToken, Activate, Deactivate, RemoveUser, Lock, Unlock
<1> QED
  BY <1>1, <1>2, Untouched, Together

LEMMA EndingKeeps ==
    ASSUME SessInv,
           \/ \E s \in Sessions : RevokeSession(s) \/ SessionExpires(s)
           \/ RevokeAllUserSessions \/ AssignRole \/ CleanupExpiredSessions
    PROVE  SessInv'
<1>0. /\ session = [s \in Sessions |-> session[s]] /\ DOMAIN session = Sessions
      /\ \A s \in Sessions : OpenUnder(session[s], user.password) /\ session[s].row \in BOOLEAN
  BY DEF SessInv, OpenUnder, SessionRow
<1>1. UNCHANGED <<user, call>>
  BY DEF RevokeSession, SessionExpires, RevokeAllUserSessions, AssignRole, CleanupExpiredSessions
<1>2. CASE \E s \in Sessions : RevokeSession(s) \/ SessionExpires(s)
  <2>1. PICK s \in Sessions : session' = [session EXCEPT ![s] = [session[s] EXCEPT !.ended = TRUE]]
    BY <1>2 DEF RevokeSession, SessionExpires
  <2>2. OpenUnder([session[s] EXCEPT !.ended = TRUE], user.password)
    BY <1>0, UpdatedRowIsOpen
  <2>3. SessionsKept
    BY <1>0, <1>1, <2>1, <2>2 DEF SessionsKept
  <2> QED
    BY <1>1, <2>3, Untouched, Together
<1>3. CASE RevokeAllUserSessions \/ AssignRole
  <2>1. session' = [s \in Sessions |-> [session[s] EXCEPT !.ended = session[s].row]]
    BY <1>3 DEF RevokeAllUserSessions, AssignRole, AllRevoked
  <2>2. \A s \in Sessions : OpenUnder([session[s] EXCEPT !.ended = session[s].row], user.password)
    BY <1>0, UpdatedRowIsOpen
  <2>3. SessionsKept
    BY <1>1, <2>1, <2>2 DEF SessionsKept
  <2> QED
    BY <1>1, <2>3, Untouched, Together
<1>4. CASE CleanupExpiredSessions
  BY <1>1, <1>4, DeletedRows, Untouched, Together DEF CleanupExpiredSessions
<1> QED
  BY <1>2, <1>3, <1>4

LEMMA CrashKeeps == SessInv /\ SessionCrash => SessInv'
<1> SUFFICES ASSUME SessInv, SessionCrash PROVE SessInv'
  OBVIOUS
<1>1. UNCHANGED user
  BY DEF SessionCrash
<1>2. \A s \in Sessions : OpenUnder(session[s], user.password)
  BY DEF SessInv
<1>3. \A s \in Sessions : OpenUnder([session[s] EXCEPT !.heard = "lost"], user.password)
  BY <1>2, UpdatedRowIsOpen DEF Hearsay
<1>4. \A s \in Sessions : session'[s] \in {session[s], [session[s] EXCEPT !.heard = "lost"]}
  BY DEF SessionCrash
<1>5. SessionsKept
  BY <1>1, <1>2, <1>3, <1>4 DEF SessionsKept, SessionCrash
<1>6. CallsKept
  BY NoCallKnows DEF SessionCrash, CallsKept
<1> QED
  BY <1>1, <1>5, <1>6, Untouched, Together

LEMMA SessInvKept == SessInv /\ [SessionNext]_sessionVars => SessInv'
<1> SUFFICES ASSUME SessInv, [SessionNext]_sessionVars PROVE SessInv'
  OBVIOUS
<1>1. CASE UNCHANGED sessionVars
  BY <1>1, Untouched, Together DEF sessionVars
<1> QED
  BY <1>1, RequestStepKeeps, FirstStepKeeps, AdministrationKeeps, EndingKeeps, CrashKeeps
  DEF SessionNext

(* The user, the rows and the requests always have their types, and no row  *)
(* is one that was not opened.                                              *)
THEOREM SessionTypeHolds == SessionSpec => []SessionType
<1>1. SessInv => SessionType
  BY SessInvIsEnough
<1> QED
  BY SessInitially, SessInvKept, <1>1, PTL DEF SessionSpec

(* A change or a reset of the password leaves no session that was opened    *)
(* before it, whatever refresh was under way.                               *)
THEOREM PasswordEndsSessions == SessionSpec => []NoSessionOutlivesPassword
<1>1. SessInv => NoSessionOutlivesPassword
  BY SessInvIsEnough
<1> QED
  BY SessInitially, SessInvKept, <1>1, PTL DEF SessionSpec

(***************************************************************************)
(* Who holds the tokens of a session.  The pair of a row is one that its   *)
(* browser holds, or that some request is about to hand over, unless that  *)
(* answer was lost or an older one arrived after it.  While a row has no   *)
(* pair, only the login that opened it works on it.                        *)
(***************************************************************************)
Works(c, s) == c.pc \in {"hashing", "rotating", "answering"} /\ c.id = s
Answering(c, s) == c.pc = "answering" /\ c.id = s
Rotating(c, s) == c.pc = "rotating" /\ c.id = s
Hashing(c, s) == c.pc = "hashing" /\ c.id = s

Promised(q, calls, s) ==
    /\ q.pair = Temp => q.held = 0 /\ q.heard = "none"
    /\ \A r \in SessionRequests : Hashing(calls[r], s) =>
          q.pair = Temp /\ \A t \in SessionRequests : Works(calls[t], s) => t = r
    /\ \A r \in SessionRequests : Answering(calls[r], s) =>
          calls[r].pair # Temp /\ calls[r].pair <= q.pair
    /\ q.heard = "told" => q.held = q.pair
    /\ q.pair # Temp /\ q.heard = "none" =>
          \E r \in SessionRequests : Answering(calls[r], s) /\ calls[r].pair = q.pair

Fair(q, calls, s) ==
    /\ \A r \in SessionRequests : Works(calls[r], s) => q.used
    /\ q.row => Promised(q, calls, s)

HolderInv == SessInv /\ \A s \in Sessions : Fair(session[s], call, s)

LEMMA HolderInvIsEnough == HolderInv => HolderKeepsAccess
<1> SUFFICES ASSUME HolderInv, \A r \in SessionRequests : call[r].pc = "idle",
                    NEW s \in Rows, session[s].pair # Temp
             PROVE  session[s].held = session[s].pair \/ session[s].heard \in {"late", "lost"}
  BY DEF HolderKeepsAccess
<1>1. s \in Sessions /\ session[s].row
  BY DEF Rows
<1>2. Promised(session[s], call, s)
  BY <1>1 DEF HolderInv, Fair
<1>3. session[s].heard \in Hearsay
  BY <1>1 DEF HolderInv, SessInv, OpenUnder, SessionRow
<1>4. session[s].heard # "none"
  BY <1>2 DEF Promised, Answering
<1> QED
  BY <1>2, <1>3, <1>4 DEF Promised, Hearsay

LEMMA FieldsOfRows ==
    ASSUME SessInv
    PROVE  /\ \A s \in Sessions : session[s] \in SessionRow
           /\ \A r \in SessionRequests : call[r] \in CallState
           /\ DOMAIN session = Sessions /\ DOMAIN call = SessionRequests
           /\ \A s \in Sessions : session[s].pair \in Nat /\ session[s].held \in Nat
           /\ \A r \in SessionRequests : call[r].pair \in Nat
<1>1. \A s \in Sessions : session[s] \in SessionRow
  BY DEF SessInv, OpenUnder
<1>2. \A r \in SessionRequests : call[r] \in CallState
  BY DEF SessInv, Knows
<1>3. DOMAIN session = Sessions /\ DOMAIN call = SessionRequests
  BY DEF SessInv
<1>4. \A s \in Sessions : session[s].pair \in Nat /\ session[s].held \in Nat
  BY <1>1 DEF SessionRow
<1>5. \A r \in SessionRequests : call[r].pair \in Nat
  BY <1>2 DEF CallState
<1> QED
  BY <1>1, <1>2, <1>3, <1>4, <1>5

(* A row that is gone promises nothing.                                     *)
LEMMA Excused ==
    ASSUME NEW q, NEW p, NEW calls, NEW after, NEW s, Fair(q, calls, s),
           p.used = q.used, ~p.row,
           \A t \in SessionRequests : Works(after[t], s) => Works(calls[t], s)
    PROVE  Fair(p, after, s)
BY DEF Fair

(* A step beside a row, of requests that do not work on it.                 *)
LEMMA Elsewhere ==
    ASSUME NEW q, NEW p, NEW calls, NEW after, NEW s, Fair(q, calls, s),
           p.used = q.used, p.row = q.row, p.pair = q.pair, p.held = q.held, p.heard = q.heard,
           \A t \in SessionRequests : after[t] = calls[t] \/ ~(Works(after[t], s) \/ Works(calls[t], s))
    PROVE  Fair(p, after, s)
<1>1. \A t \in SessionRequests : /\ Works(after[t], s) <=> Works(calls[t], s)
                                 /\ Answering(after[t], s) <=> Answering(calls[t], s)
                                 /\ Rotating(after[t], s) <=> Rotating(calls[t], s)
                                 /\ Hashing(after[t], s) <=> Hashing(calls[t], s)
                                 /\ Works(calls[t], s) => after[t].pair = calls[t].pair
  BY DEF Works, Answering, Rotating, Hashing
<1>2. \A t \in SessionRequests : Answering(calls[t], s) \/ Rotating(calls[t], s) => Works(calls[t], s)
  BY DEF Works, Answering, Rotating
<1>3. Promised(q, calls, s) => Promised(p, after, s)
  <2> SUFFICES ASSUME Promised(q, calls, s) PROVE Promised(p, after, s)
    OBVIOUS
  <2>1. \A r \in SessionRequests : Hashing(after[r], s) =>
          p.pair = Temp /\ \A t \in SessionRequests : Works(after[t], s) => t = r
    BY <1>1 DEF Promised
  <2>2. \A r \in SessionRequests : Answering(after[r], s) =>
          after[r].pair # Temp /\ after[r].pair <= p.pair
    BY <1>1, <1>2 DEF Promised
  <2>3. p.pair # Temp /\ p.heard = "none" =>
          \E r \in SessionRequests : Answering(after[r], s) /\ after[r].pair = p.pair
    BY <1>1, <1>2 DEF Promised
  <2> QED
    BY <2>1, <2>2, <2>3 DEF Promised
<1> QED
  BY <1>1, <1>3 DEF Fair

(* One request moves, and no row with it.                                   *)
LEMMA IdleStepsHold ==
    ASSUME HolderInv, NEW r \in SessionRequests,
           ValidateLogin(r) \/ CheckCurrentPassword(r) \/ FindResetToken(r)
    PROVE  \A s \in Sessions : Fair(session'[s], call', s)
<1>1. PICK pc \in {"validated", "changing", "resetting"} :
        call' = [call EXCEPT ![r].pc = pc] /\ UNCHANGED session /\ call[r].pc = "idle"
  BY DEF ValidateLogin, CheckCurrentPassword, FindResetToken
<1>2. /\ \A t \in SessionRequests : t # r => call'[t] = call[t]
      /\ call'[r].pc = pc
  BY <1>1, FieldsOfRows DEF HolderInv, CallState
<1>3. \A s \in Sessions, t \in SessionRequests :
        call'[t] = call[t] \/ ~(Works(call'[t], s) \/ Works(call[t], s))
  BY <1>1, <1>2 DEF Works
<1>4. ASSUME NEW s \in Sessions PROVE Fair(session'[s], call', s)
  <2>1. session' = session /\ Fair(session[s], call, s)
    BY <1>1 DEF HolderInv
  <2>2. \A t \in SessionRequests : call'[t] = call[t] \/ ~(Works(call'[t], s) \/ Works(call[t], s))
    BY <1>3
  <2>3. Fair(session[s], call', s)
    BY <2>1, <2>2, Elsewhere
  <2> QED
    BY <2>1, <2>3
<1> QED
  BY <1>4

(* A request is over that worked on no row that is still there.             *)
LEMMA EndsHold ==
    ASSUME HolderInv, NEW r \in SessionRequests, Ends(r), UNCHANGED session,
           \A s \in Sessions : Works(call[r], s) => ~session[s].row
    PROVE  \A s \in Sessions : Fair(session'[s], call', s)
<1>1. /\ \A t \in SessionRequests : t # r => call'[t] = call[t]
      /\ call'[r].pc = "idle"
  BY FieldsOfRows DEF HolderInv, Ends, NoCall
<1>2. ASSUME NEW s \in Sessions PROVE Fair(session'[s], call', s)
  <2>1. \A t \in SessionRequests : Works(call'[t], s) => Works(call[t], s)
    BY <1>1 DEF Works
  <2>2. CASE Works(call[r], s)
    BY <2>1, <2>2, Excused DEF HolderInv
  <2>3. CASE ~Works(call[r], s)
    <3>1. \A t \in SessionRequests : call'[t] = call[t] \/ ~(Works(call'[t], s) \/ Works(call[t], s))
      BY <1>1, <2>3 DEF Works
    <3> QED
      BY <3>1, Elsewhere DEF HolderInv
  <2> QED
    BY <2>2, <2>3
<1> QED
  BY <1>2

(* The row of one session and the request that works on it change.          *)
LEMMA OthersHold ==
    ASSUME HolderInv, NEW r \in SessionRequests, NEW s \in Sessions,
           \A t \in SessionRequests : t # r => call'[t] = call[t],
           \A u \in Sessions : u # s => session'[u] = session[u],
           \A u \in Sessions : u # s => ~(Works(call'[r], u) \/ Works(call[r], u))
    PROVE  \A u \in Sessions : u # s => Fair(session'[u], call', u)
<1>1. ASSUME NEW u \in Sessions, u # s PROVE Fair(session'[u], call', u)
  <2>1. \A t \in SessionRequests : call'[t] = call[t] \/ ~(Works(call'[t], u) \/ Works(call[t], u))
    BY <1>1
  <2> QED
    BY <1>1, <2>1, Elsewhere DEF HolderInv
<1> QED
  BY <1>1

LEMMA CreateHolds ==
    ASSUME HolderInv, NEW r \in SessionRequests, CreateSession(r)
    PROVE  \A s \in Sessions : Fair(session'[s], call', s)
<1>1. CASE Ends(r) /\ UNCHANGED session
  <2>1. \A s : ~Works(call[r], s)
    BY DEF CreateSession, Works
  <2> QED
    BY <1>1, <2>1, EndsHold
<1>2. CASE ~(Ends(r) /\ UNCHANGED session)
  <2>1. PICK s \in Sessions :
          /\ ~session[s].used
          /\ session' = [session EXCEPT ![s] = [NoRow EXCEPT !.row = TRUE, !.used = TRUE,
                                                             !.since = user.password]]
          /\ call' = [call EXCEPT ![r].pc = "hashing", ![r].id = s]
    BY <1>2 DEF CreateSession
  <2>2. /\ \A t \in SessionRequests : t # r => call'[t] = call[t]
        /\ call'[r].pc = "hashing" /\ call'[r].id = s
        /\ \A u \in Sessions : u # s => session'[u] = session[u]
    BY <2>1, FieldsOfRows DEF HolderInv, CallState
  <2>3. /\ session'[s].used /\ session'[s].heard = "none"
        /\ session'[s].pair = 0 /\ session'[s].held = 0
    BY <2>1, FieldsOfRows DEF HolderInv, NoRow, Temp
  <2>4. \A u \in Sessions : u # s => ~(Works(call'[r], u) \/ Works(call[r], u))
    BY <2>2 DEF CreateSession, Works
  <2>5. \A t \in SessionRequests : ~Works(call[t], s)
    BY <2>1 DEF HolderInv, Fair
  <2>6. Fair(session'[s], call', s)
    <3>1. /\ \A t \in SessionRequests : Works(call'[t], s) => t = r
          /\ \A t \in SessionRequests : Hashing(call'[t], s) => t = r
          /\ \A t \in SessionRequests : ~Answering(call'[t], s) /\ ~Rotating(call'[t], s)
      BY <2>2, <2>5 DEF Works, Hashing, Answering, Rotating
    <3> QED
      BY <2>3, <3>1 DEF Fair, Promised, Temp
  <2> QED
    BY <2>2, <2>4, <2>6, OthersHold
<1> QED
  BY <1>1, <1>2

LEMMA StoreHolds ==
    ASSUME HolderInv, NEW r \in SessionRequests, StoreHashes(r)
    PROVE  \A s \in Sessions : Fair(session'[s], call', s)
<1>1. PICK s \in Sessions : s = call[r].id
  BY DEF HolderInv, SessInv, Knows, StoreHashes
<1>2. Hashing(call[r], s) /\ Works(call[r], s) /\ \A u : u # s => ~Works(call[r], u)
  BY <1>1 DEF StoreHashes, Hashing, Works
<1>3. CASE ~session[s].row
  BY <1>1, <1>2, <1>3, EndsHold DEF StoreHashes
<1>4. CASE session[s].row
  <2>1. /\ session' = [session EXCEPT ![s].pair = 1]
        /\ call' = [call EXCEPT ![r].pc = "answering", ![r].pair = 1]
    BY <1>1, <1>4 DEF StoreHashes
  <2>2. /\ \A t \in SessionRequests : t # r => call'[t] = call[t]
        /\ call'[r].pc = "answering" /\ call'[r].id = s /\ call'[r].pair = 1
        /\ \A u \in Sessions : u # s => session'[u] = session[u]
    BY <1>1, <2>1, FieldsOfRows DEF HolderInv, CallState
  <2>3. /\ session'[s].used = session[s].used /\ session'[s].heard = session[s].heard
        /\ session'[s].pair = 1
    BY <2>1, FieldsOfRows DEF HolderInv, SessionRow
  <2>4. \A u \in Sessions : u # s => ~(Works(call'[r], u) \/ Works(call[r], u))
    BY <1>2, <2>2 DEF Works
  <2>5. Fair(session'[s], call', s)
    <3>1. \A t \in SessionRequests : Works(call'[t], s) => Works(call[t], s)
      BY <1>2, <2>2
    <3>2. Fair(session[s], call, s) /\ session[s].used
      BY <1>2 DEF HolderInv, Fair
    <3>3. session[s].heard = "none" /\ \A t \in SessionRequests : Works(call[t], s) => t = r
      BY <1>2, <1>4, <3>2 DEF Fair, Promised
    <3>4. \A t \in SessionRequests : Works(call'[t], s) => t = r
      BY <3>1, <3>3
    <3>5. /\ \A t \in SessionRequests : ~Hashing(call'[t], s)
          /\ \A t \in SessionRequests : Answering(call'[t], s) => t = r
          /\ Answering(call'[r], s)
      BY <2>2, <3>4 DEF Works, Hashing, Answering
    <3>6. Promised(session'[s], call', s)
      BY <2>2, <2>3, <3>3, <3>5 DEF Promised, Temp
    <3> QED
      BY <2>3, <3>2, <3>6 DEF Fair
  <2> QED
    BY <2>2, <2>4, <2>5, OthersHold
<1> QED
  BY <1>3, <1>4

LEMMA AnswerHolds ==
    ASSUME HolderInv, NEW r \in SessionRequests, Answer(r)
    PROVE  \A s \in Sessions : Fair(session'[s], call', s)
<1>1. PICK s \in Sessions : s = call[r].id
  BY DEF HolderInv, SessInv, Knows, Answer
<1>2. Answering(call[r], s) /\ Works(call[r], s) /\ \A u : u # s => ~Works(call[r], u)
  BY <1>1 DEF Answer, Answering, Works
<1>3. Ends(r) /\ Fair(session[s], call, s)
  BY DEF Answer, HolderInv
<1>4. CASE ~session[s].row
  <2>1. UNCHANGED session
    BY <1>1, <1>4 DEF Answer
  <2> QED
    BY <1>2, <1>3, <1>4, <2>1, EndsHold
<1>5. CASE session[s].row
  <2>1. /\ \A t \in SessionRequests : t # r => call'[t] = call[t]
        /\ call'[r].pc = "idle"
    BY <1>3, FieldsOfRows DEF HolderInv, Ends, NoCall
  <2>2. \/ session' = [session EXCEPT ![s].held = call[r].pair, ![s].heard = Heard(s, call[r].pair)]
        \/ session' = [session EXCEPT ![s].heard =
                          IF call[r].pair = session[s].pair THEN "lost" ELSE session[s].heard]
    BY <1>1, <1>5 DEF Answer
  <2>3. /\ \A u \in Sessions : u # s => session'[u] = session[u]
        /\ session'[s].used = session[s].used /\ session'[s].pair = session[s].pair
        /\ session'[s].row = session[s].row
        /\ \/ session'[s].held = call[r].pair /\ session'[s].heard = Heard(s, call[r].pair)
           \/ /\ session'[s].held = session[s].held
              /\ session'[s].heard = IF call[r].pair = session[s].pair THEN "lost" ELSE session[s].heard
    BY <2>2, FieldsOfRows DEF HolderInv, SessionRow
  <2>4. \A u \in Sessions : u # s => ~(Works(call'[r], u) \/ Works(call[r], u))
    BY <1>2, <2>1 DEF Works
  <2>5. /\ \A t \in SessionRequests : Works(call'[t], s) => Works(call[t], s) /\ call'[t] = call[t]
        /\ ~Works(call'[r], s)
    BY <1>2, <2>1 DEF Works
  <2>6. Fair(session'[s], call', s)
    <3>1. Promised(session[s], call, s)
      BY <1>3, <1>5 DEF Fair
    <3>2. /\ call[r].pair # Temp /\ call[r].pair <= session[s].pair
          /\ \A t \in SessionRequests : ~Hashing(call'[t], s)
      <4>1. \A t \in SessionRequests : Hashing(call[t], s) => t = r
        BY <1>2, <3>1 DEF Promised
      <4> QED
        BY <1>2, <2>1, <3>1, <4>1 DEF Promised, Hashing, Answering
    <3>3. session[s].pair # Temp /\ session[s].pair \in Nat /\ call[r].pair \in Nat
      BY <3>2, FieldsOfRows DEF HolderInv, Temp
    <3>4. \A t \in SessionRequests : Answering(call'[t], s) => Answering(call[t], s) /\ call'[t] = call[t]
      BY <2>5 DEF Answering, Works
    <3>5. \A t \in SessionRequests : Answering(call'[t], s) =>
            call'[t].pair # Temp /\ call'[t].pair <= session'[s].pair
      BY <2>3, <3>1, <3>4 DEF Promised
    <3>6. session'[s].heard = "told" => session'[s].held = session'[s].pair
      BY <2>3, <3>1, <3>2, <3>3 DEF Promised, Heard
    <3>7. session'[s].heard = "none" =>
            \E t \in SessionRequests : Answering(call'[t], s) /\ call'[t].pair = session'[s].pair
      <4>1. session'[s].heard = "none" => session[s].heard = "none" /\ call[r].pair # session[s].pair
        BY <2>3 DEF Heard
      <4> QED
        BY <2>1, <2>3, <3>1, <3>3, <4>1 DEF Promised
    <3>8. Promised(session'[s], call', s)
      BY <2>3, <3>2, <3>3, <3>5, <3>6, <3>7 DEF Promised
    <3> QED
      BY <1>3, <2>3, <2>5, <3>8 DEF Fair
  <2> QED
    BY <2>1, <2>3, <2>4, <2>6, OthersHold
<1> QED
  BY <1>4, <1>5

LEMMA RotateHolds ==
    ASSUME HolderInv, NEW r \in SessionRequests, Rotate(r)
    PROVE  \A s \in Sessions : Fair(session'[s], call', s)
<1>1. PICK s \in Sessions : s = call[r].id
  BY DEF HolderInv, SessInv, Knows, Rotate
<1>2. Rotating(call[r], s) /\ Works(call[r], s) /\ \A u : u # s => ~Works(call[r], u)
  BY <1>1 DEF Rotate, Rotating, Works
<1>3. CASE ~session[s].row
  BY <1>1, <1>2, <1>3, EndsHold DEF Rotate
<1>4. CASE session[s].row
  <2>1. /\ session' = [session EXCEPT ![s].pair = @ + 1, ![s].heard = "none"]
        /\ call' = [call EXCEPT ![r].pc = "answering", ![r].pair = session[s].pair + 1]
    BY <1>1, <1>4 DEF Rotate, Rotated
  <2>2. /\ \A t \in SessionRequests : t # r => call'[t] = call[t]
        /\ call'[r].pc = "answering" /\ call'[r].id = s /\ call'[r].pair = session[s].pair + 1
        /\ \A u \in Sessions : u # s => session'[u] = session[u]
    BY <1>1, <2>1, FieldsOfRows DEF HolderInv, CallState
  <2>3. /\ session'[s].used = session[s].used
        /\ session'[s].pair = session[s].pair + 1 /\ session'[s].heard = "none"
    BY <2>1, FieldsOfRows DEF HolderInv, SessionRow
  <2>4. \A u \in Sessions : u # s => ~(Works(call'[r], u) \/ Works(call[r], u))
    BY <1>2, <2>2 DEF Works
  <2>5. Fair(session'[s], call', s)
    <3>1. \A t \in SessionRequests : Works(call'[t], s) => Works(call[t], s)
      BY <1>2, <2>2
    <3>2. Fair(session[s], call, s) /\ Promised(session[s], call, s)
      BY <1>4 DEF HolderInv, Fair
    <3>3. \A t \in SessionRequests : ~Hashing(call[t], s)
      <4>1. \A t \in SessionRequests : Hashing(call[t], s) => t = r
        BY <1>2, <3>2 DEF Promised
      <4> QED
        BY <1>2, <4>1 DEF Hashing, Rotating
    <3>4. /\ \A t \in SessionRequests : ~Hashing(call'[t], s)
          /\ \A t \in SessionRequests : Answering(call'[t], s) =>
               t = r \/ (Answering(call[t], s) /\ call'[t] = call[t])
          /\ Answering(call'[r], s)
      BY <2>2, <3>3 DEF Hashing, Answering
    <3>5. /\ session[s].pair \in Nat /\ session'[s].pair # Temp
          /\ \A n \in Nat : n <= session[s].pair => n <= session'[s].pair
          /\ session'[s].pair <= session'[s].pair
      BY <2>3, FieldsOfRows DEF HolderInv, Temp
    <3>6. \A t \in SessionRequests : Answering(call'[t], s) =>
            call'[t].pair # Temp /\ call'[t].pair <= session'[s].pair
      BY <2>2, <2>3, <3>2, <3>4, <3>5, FieldsOfRows DEF Promised, HolderInv
    <3>7. Promised(session'[s], call', s)
      BY <2>2, <2>3, <3>4, <3>5, <3>6 DEF Promised
    <3> QED
      BY <2>3, <3>1, <3>2, <3>7 DEF Fair
  <2> QED
    BY <2>2, <2>4, <2>5, OthersHold
<1> QED
  BY <1>3, <1>4

LEMMA FindHolds ==
    ASSUME HolderInv, NEW r \in SessionRequests, NEW s \in Sessions, FindByRefreshToken(r, s)
    PROVE  \A u \in Sessions : Fair(session'[u], call', u)
<1>1. /\ call' = [call EXCEPT ![r].pc = "rotating", ![r].id = s]
      /\ UNCHANGED session /\ session[s].held # 0 /\ session[s].row
      /\ call[r].pc = "idle"
  BY DEF FindByRefreshToken, Usable
<1>2. /\ \A t \in SessionRequests : t # r => call'[t] = call[t]
      /\ call'[r].pc = "rotating" /\ call'[r].id = s
  BY <1>1, FieldsOfRows DEF HolderInv, CallState
<1>3. \A u \in Sessions : u # s => ~(Works(call'[r], u) \/ Works(call[r], u))
  BY <1>1, <1>2 DEF Works
<1>4. Fair(session[s], call, s) /\ session[s].used
  BY <1>1, FieldsOfRows DEF HolderInv, SessInv, OpenUnder
<1>5. Promised(session[s], call', s)
  <2>1. Promised(session[s], call, s)
    BY <1>1, <1>4 DEF Fair
  <2>2. session[s].pair # Temp /\ \A t \in SessionRequests : ~Hashing(call[t], s)
    BY <1>1, <2>1 DEF Promised
  <2>3. /\ \A t \in SessionRequests : ~Hashing(call'[t], s)
        /\ \A t \in SessionRequests :
             /\ Answering(call'[t], s) <=> Answering(call[t], s)
             /\ Answering(call[t], s) => call'[t] = call[t]
    BY <1>1, <1>2, <2>2 DEF Hashing, Answering
  <2> QED
    BY <2>1, <2>2, <2>3 DEF Promised
<1>6. Fair(session[s], call', s)
  BY <1>4, <1>5 DEF Fair
<1>7. \A u \in Sessions : u # s => session'[u] = session[u]
  BY <1>1
<1>8. session'[s] = session[s]
  BY <1>1
<1> QED
  BY <1>2, <1>3, <1>6, <1>7, <1>8, OthersHold

LEMMA RowsEndHold ==
    ASSUME HolderInv,
           \/ \E s \in Sessions : RevokeSession(s) \/ SessionExpires(s)
           \/ RevokeAllUserSessions \/ AssignRole \/ CleanupExpiredSessions
    PROVE  \A s \in Sessions : Fair(session'[s], call', s)
<1>1. UNCHANGED call
  BY DEF RevokeSession, SessionExpires, RevokeAllUserSessions, AssignRole, CleanupExpiredSessions
<1>2. ASSUME NEW s \in Sessions
      PROVE  /\ session'[s].used = session[s].used
             /\ \/ ~session'[s].row
                \/ /\ session'[s].row = session[s].row /\ session'[s].pair = session[s].pair
                   /\ session'[s].held = session[s].held /\ session'[s].heard = session[s].heard
  <2>1. session[s] \in SessionRow /\ DOMAIN session = Sessions
    BY FieldsOfRows DEF HolderInv
  <2>2. \/ session' = Deleted({t \in Rows : session[t].ended})
        \/ session' = [t \in Sessions |-> [session[t] EXCEPT !.ended = session[t].row]]
        \/ \E t \in Sessions : session' = [session EXCEPT ![t].ended = TRUE]
    BY DEF RevokeSession, SessionExpires, RevokeAllUserSessions, AssignRole, CleanupExpiredSessions, AllRevoked
  <2>3. \/ session'[s] = session[s]
        \/ session'[s] = [NoRow EXCEPT !.used = session[s].used]
        \/ \E b : session'[s] = [session[s] EXCEPT !.ended = b]
    BY <2>1, <2>2 DEF Deleted
  <2> QED
    BY <2>1, <2>3 DEF SessionRow, NoRow
<1>3. ASSUME NEW s \in Sessions PROVE Fair(session'[s], call', s)
  <2>1. Fair(session[s], call, s)
    BY DEF HolderInv
  <2>2. CASE ~session'[s].row
    BY <1>1, <1>2, <2>1, <2>2, Excused
  <2>3. CASE session'[s].row
    BY <1>1, <1>2, <2>1, <2>3, Elsewhere
  <2> QED
    BY <2>2, <2>3
<1> QED
  BY <1>3

LEMMA NewPasswordHolds ==
    ASSUME HolderInv, NEW r \in SessionRequests, ChangePassword(r) \/ ConfirmPasswordReset(r)
    PROVE  \A s \in Sessions : Fair(session'[s], call', s)
<1>1. session' = Deleted(Rows) /\ Ends(r)
  BY DEF ChangePassword, ConfirmPasswordReset, PasswordReplaced
<1>2. /\ \A t \in SessionRequests : t # r => call'[t] = call[t]
      /\ call'[r].pc = "idle"
  BY <1>1, FieldsOfRows DEF HolderInv, Ends, NoCall
<1>3. ASSUME NEW s \in Sessions PROVE Fair(session'[s], call', s)
  <2>1. \A t \in SessionRequests : Works(call'[t], s) => Works(call[t], s)
    BY <1>2 DEF Works
  <2>2. session'[s].used = session[s].used /\ ~session'[s].row
    BY <1>1 DEF Deleted, Rows, NoRow
  <2> QED
    BY <2>1, <2>2, Excused DEF HolderInv
<1> QED
  BY <1>3

LEMMA CrashHolds ==
    ASSUME HolderInv, SessionCrash
    PROVE  \A s \in Sessions : Fair(session'[s], call', s)
<1>1. \A s, t : t \in SessionRequests =>
          ~Works(call'[t], s) /\ ~Hashing(call'[t], s) /\ ~Answering(call'[t], s) /\ ~Rotating(call'[t], s)
  BY DEF SessionCrash, NoCall, Works, Hashing, Answering, Rotating
<1>2. ASSUME NEW s \in Sessions PROVE Fair(session'[s], call', s)
  <2> DEFINE lost == session[s].row /\ \E r \in SessionRequests : Tells(r, s)
  <2>1. session'[s] = IF lost THEN [session[s] EXCEPT !.heard = "lost"] ELSE session[s]
    BY DEF SessionCrash
  <2>2. /\ session'[s].row = session[s].row
        /\ session'[s].pair = session[s].pair /\ session'[s].held = session[s].held
        /\ lost => session'[s].heard = "lost"
        /\ ~lost => session'[s].heard = session[s].heard
    <3> HIDE DEF lost
    <3> QED
      BY <2>1, FieldsOfRows DEF HolderInv, SessionRow
  <2>3. ASSUME session'[s].row PROVE Promised(session'[s], call', s)
    <3>1. Promised(session[s], call, s) /\ session[s].row
      BY <2>2, <2>3 DEF HolderInv, Fair
    <3>2. lost => session[s].pair # Temp
      BY <3>1, FieldsOfRows DEF Promised, Tells, Answering, HolderInv, Temp
    <3>3. session[s].pair # Temp /\ session[s].heard = "none" => lost
      BY <3>1 DEF Promised, Tells, Answering
    <3> HIDE DEF lost
    <3>4. /\ session'[s].pair = Temp => session'[s].held = 0 /\ session'[s].heard = "none"
          /\ session'[s].heard = "told" => session'[s].held = session'[s].pair
          /\ ~(session'[s].pair # Temp /\ session'[s].heard = "none")
      BY <2>2, <3>1, <3>2, <3>3 DEF Promised
    <3> QED
      BY <1>1, <3>4 DEF Promised
  <2> QED
    BY <1>1, <2>3 DEF Fair
<1> QED
  BY <1>2

LEMMA HolderInitially == SessionInit => HolderInv
<1> SUFFICES ASSUME SessionInit PROVE HolderInv
  OBVIOUS
<1>1. ASSUME NEW s \in Sessions PROVE Fair(session[s], call, s)
  <2>1. \A r \in SessionRequests : ~Works(call[r], s)
    BY DEF SessionInit, NoCall, Works
  <2>2. ~session[s].row
    BY DEF SessionInit, NoRow
  <2> QED
    BY <2>1, <2>2 DEF Fair
<1> QED
  BY <1>1, SessInitially DEF HolderInv

LEMMA HolderInvKept == HolderInv /\ [SessionNext]_sessionVars => HolderInv'
<1> SUFFICES ASSUME HolderInv, [SessionNext]_sessionVars PROVE HolderInv'
  OBVIOUS
<1>1. SessInv'
  BY SessInvKept DEF HolderInv
<1>2. CASE UNCHANGED <<session, call>>
  BY <1>1, <1>2 DEF HolderInv
<1>3. CASE \E r \in SessionRequests : RequestStep(r)
  BY <1>1, <1>3, CreateHolds, StoreHolds, AnswerHolds, RotateHolds, NewPasswordHolds
  DEF RequestStep, HolderInv
<1>4. CASE \E r \in SessionRequests : ValidateLogin(r) \/ CheckCurrentPassword(r) \/ FindResetToken(r)
  BY <1>1, <1>4, IdleStepsHold DEF HolderInv
<1>5. CASE \E r \in SessionRequests, s \in Sessions : FindByRefreshToken(r, s)
  BY <1>1, <1>5, FindHolds DEF HolderInv
<1>6. CASE \/ \E s \in Sessions : RevokeSession(s) \/ SessionExpires(s)
           \/ RevokeAllUserSessions \/ AssignRole \/ CleanupExpiredSessions
  BY <1>1, <1>6, RowsEndHold DEF HolderInv
<1>7. CASE SessionCrash
  BY <1>1, <1>7, CrashHolds DEF HolderInv
<1>8. CASE GeneratePasswordResetToken \/ Activate \/ Deactivate \/ RemoveUser \/ Lock \/ Unlock
  BY <1>2, <1>8 DEF GeneratePasswordResetToken, Activate, Deactivate, RemoveUser, Lock, Unlock
<1>9. CASE UNCHANGED sessionVars
  BY <1>2, <1>9 DEF sessionVars
<1> QED
  BY <1>3, <1>4, <1>5, <1>6, <1>7, <1>8, <1>9 DEF SessionNext

(* Whatever refreshes, logins, revocations and crashes overlap, a browser   *)
(* holds the valid pair of its session when nothing is under way, unless    *)
(* the answer with it was lost or an older one arrived after it             *)
(* (session.service.ts:169).                                                *)
THEOREM HoldersKeepAccess == SessionSpec => []HolderKeepsAccess
BY HolderInitially, HolderInvKept, HolderInvIsEnough, PTL DEF SessionSpec

(***************************************************************************)
(* Proofs about MfaEnrolment, for any number of requests, secrets and      *)
(* batches of codes.  What a request has read was once the row.  As long   *)
(* as no write overtook another, what it decided on its copy holds of the  *)
(* row that it writes; and codes that are written back from a copy let     *)
(* each code be accepted once more at most, which `restored' counts.       *)
(***************************************************************************)


Questions == {"idle", "store", "enable", "login", "disable", "code", "disabling", "regenerate"}
Request == [pc : Questions, for : {"idle", "login", "disable"}, code : Codes \cup {NoCode}, row : MfaRow]

(* The codes of a row are of the batches generated so far.                  *)
FromBatches(codes, n) == \A c \in codes : c[1] <= n

(* What a request has seen of its copy before it writes.                    *)
Seen(a, n) ==
    /\ a \in Request
    /\ FromBatches(a.row.codes, n)
    /\ a.pc = "store" => ~a.row.enabled
    /\ a.pc = "enable" => a.row.secret # 0
    /\ a.pc = "code" => a.code \in a.row.codes

RowInv == mfa \in MfaRow /\ FromBatches(mfa.codes, made.batches)
MadeInv == made \in [secrets : 0..MaxSecrets, batches : 0..MaxBatches]
AskedInv ==
    /\ asked = [r \in MfaRequests |-> asked[r]]
    /\ \A r \in MfaRequests : Seen(asked[r], made.batches)
HistoryType ==
    /\ uses \in [Codes -> 0..(MaxRestored + 1)] /\ restored \in 0..MaxRestored
    /\ confirmed \in 0..MaxSecrets /\ raced \in BOOLEAN

(* A code of a batch to come was not accepted yet, and one that is still    *)
(* among the codes once at most for each time that codes were written back. *)
(* Once these are no longer counted, nothing is said of it.                 *)
UsesInv ==
    /\ \A c \in Codes : c[1] > made.batches => uses[c] = 0
    /\ \A c \in Codes : uses[c] <= 1 + restored
    /\ restored < MaxRestored => \A c \in mfa.codes : uses[c] <= restored
    /\ restored = 0 => \A c \in mfa.codes : c[1] = made.batches /\ uses[c] = 0
ConfirmedInv == ~raced => (mfa.enabled => mfa.secret # 0 /\ mfa.secret = confirmed)

MfaInv == RowInv /\ MadeInv /\ AskedInv /\ HistoryType /\ UsesInv /\ ConfirmedInv

LEMMA MfaInvIsEnough == MfaInv => MfaType /\ SecondFactorHolds
<1> SUFFICES ASSUME MfaInv PROVE MfaType /\ SecondFactorHolds
  OBVIOUS
<1>1. asked \in [MfaRequests -> Request]
  BY DEF MfaInv, AskedInv, Seen
<1>2. MfaType
  BY <1>1 DEF MfaInv, RowInv, MadeInv, HistoryType, FromBatches, MfaType, Request, Questions
<1>3. SecondFactorHolds
  BY DEF MfaInv, UsesInv, ConfirmedInv, SecondFactorHolds
<1> QED
  BY <1>2, <1>3

-----------------------------------------------------------------------------
LEMMA NoneAsked == \A n \in Nat : Seen(NotAsked, n)
BY MfaAssumption DEF Seen, NotAsked, Request, Questions, MfaRow, FromBatches

(* The codes of a batch.                                                    *)
LEMMA BatchCodes ==
    ASSUME NEW n \in 1..MaxBatches
    PROVE  /\ Batch(n) \in SUBSET Codes
           /\ FromBatches(Batch(n), n)
           /\ \A c \in Batch(n) : c[1] = n
BY DEF Batch, Codes, FromBatches

(* What was seen stays seen when more batches are generated.                *)
LEMMA SeenLater ==
    ASSUME NEW m \in Nat, NEW n \in Nat, m <= n, NEW a, Seen(a, m)
    PROVE  Seen(a, n)
<1>1. \A c \in a.row.codes : c[1] \in Nat
  BY MfaAssumption DEF Seen, Request, MfaRow, Codes
<1> QED
  BY <1>1 DEF Seen, FromBatches

LEMMA MfaInitially == MfaInit => MfaInv
<1> SUFFICES ASSUME MfaInit PROVE MfaInv
  OBVIOUS
<1>1. RowInv
  BY MfaAssumption DEF MfaInit, RowInv, NotAsked, MfaRow, FromBatches
<1>2. MadeInv
  BY MfaAssumption DEF MfaInit, MadeInv
<1>5. HistoryType
  <2>1. 0 \in 0..MaxSecrets /\ 0 \in 0..MaxRestored /\ 0 \in 0..(MaxRestored + 1)
    BY MfaAssumption
  <2> QED
    BY <2>1 DEF MfaInit, HistoryType
<1>3. AskedInv
  <2>1. made.batches = 0 /\ asked = [r \in MfaRequests |-> NotAsked]
    BY DEF MfaInit
  <2> QED
    BY <2>1, NoneAsked DEF AskedInv
<1>4. UsesInv /\ ConfirmedInv
  BY MfaAssumption DEF MfaInit, UsesInv, ConfirmedInv, NotAsked
<1> QED
  BY <1>1, <1>2, <1>3, <1>4, <1>5 DEF MfaInv

(***************************************************************************)
(* Requests that read                                                      *)
(***************************************************************************)

LEMMA AskingKeeps ==
    ASSUME MfaInv, NEW r \in MfaRequests, NEW a,
           Seen(a, made.batches),
           asked' = [asked EXCEPT ![r] = a],
           UNCHANGED <<mfa, made, uses, restored, raced, confirmed>>
    PROVE  MfaInv'
<1>1. AskedInv'
  BY DEF MfaInv, AskedInv
<1> QED
  BY <1>1 DEF MfaInv, RowInv, MadeInv, HistoryType, UsesInv, ConfirmedInv

LEMMA ReadingKeeps ==
    ASSUME MfaInv, NEW r \in MfaRequests, NEW pc \in Questions \ {"code"}, Reads(r, pc),
           pc = "store" => ~mfa.enabled,
           pc = "enable" => mfa.secret # 0
    PROVE  MfaInv'
<1> DEFINE a == [NotAsked EXCEPT !.pc = pc, !.row = mfa]
<1>1. mfa \in MfaRow /\ FromBatches(mfa.codes, made.batches)
  BY DEF MfaInv, RowInv
<1>2. a.pc = pc /\ a.row = mfa
  BY DEF NotAsked
<1>3. a \in Request
  BY <1>1, MfaAssumption DEF NotAsked, Request, Questions
<1>4. Seen(a, made.batches)
  <2> HIDE DEF a
  <2> QED
    BY <1>1, <1>2, <1>3 DEF Seen, Questions
<1>5. asked' = [asked EXCEPT ![r] = a] /\ UNCHANGED <<mfa, made, uses, restored, raced, confirmed>>
  BY DEF Reads
<1> HIDE DEF a
<1> QED
  BY <1>4, <1>5, AskingKeeps

LEMMA ReadersKeep ==
    ASSUME MfaInv, NEW r \in MfaRequests,
           \/ SetupMfa(r) \/ EnableMfaChecked(r) \/ LoginAsks(r) \/ DisableAsks(r)
           \/ RegenerateBackupCodes(r)
    PROVE  MfaInv'
<1>1. /\ "store" \in Questions \ {"code"} /\ "enable" \in Questions \ {"code"}
      /\ "login" \in Questions \ {"code"} /\ "disable" \in Questions \ {"code"}
      /\ "regenerate" \in Questions \ {"code"}
  BY DEF Questions
<1>2. CASE SetupMfa(r)
  BY <1>1, <1>2, ReadingKeeps DEF SetupMfa
<1>3. CASE EnableMfaChecked(r)
  BY <1>1, <1>3, ReadingKeeps DEF EnableMfaChecked
<1>4. CASE LoginAsks(r)
  BY <1>1, <1>4, ReadingKeeps DEF LoginAsks
<1>5. CASE DisableAsks(r)
  BY <1>1, <1>5, ReadingKeeps DEF DisableAsks
<1>6. CASE RegenerateBackupCodes(r)
  BY <1>1, <1>6, ReadingKeeps DEF RegenerateBackupCodes
<1> QED
  BY <1>2, <1>3, <1>4, <1>5, <1>6

LEMMA VerifyingKeeps ==
    ASSUME MfaInv, NEW r \in MfaRequests,
           TokenVerified(r) \/ TokenRefused(r) \/ FindBackupCode(r)
    PROVE  MfaInv'
<1>1. Seen(asked[r], made.batches) /\ made.batches \in Nat
  BY MfaAssumption DEF MfaInv, AskedInv, MadeInv
<1>2. Seen(NotAsked, made.batches)
  BY <1>1, NoneAsked
<1>3. CASE TokenVerified(r)
  <2>1. Seen([asked[r] EXCEPT !.pc = "disabling"], made.batches)
    BY <1>1 DEF Seen, Request, Questions
  <2>2. /\ asked' = [asked EXCEPT ![r] = IF asked[r].pc = "disable"
                                         THEN [asked[r] EXCEPT !.pc = "disabling"] ELSE NotAsked]
        /\ UNCHANGED <<mfa, made, uses, restored, raced, confirmed>>
    BY <1>3 DEF TokenVerified
  <2> QED
    BY <1>2, <2>1, <2>2, AskingKeeps
<1>4. CASE TokenRefused(r)
  BY <1>2, <1>4, AskingKeeps DEF TokenRefused
<1>5. CASE FindBackupCode(r)
  <2>1. PICK c \in mfa.codes :
          asked' = [asked EXCEPT ![r] = [pc |-> "code", for |-> asked[r].pc, row |-> mfa, code |-> c]]
    BY <1>5 DEF FindBackupCode
  <2>2. /\ mfa \in MfaRow /\ FromBatches(mfa.codes, made.batches) /\ c \in Codes
        /\ asked[r].pc \in {"login", "disable"}
    BY <1>5 DEF MfaInv, RowInv, MfaRow, FindBackupCode
  <2>3. Seen([pc |-> "code", for |-> asked[r].pc, row |-> mfa, code |-> c], made.batches)
    BY <2>2 DEF Seen, Request, Questions
  <2>4. UNCHANGED <<mfa, made, uses, restored, raced, confirmed>>
    BY <1>5 DEF FindBackupCode
  <2> QED
    BY <2>1, <2>3, <2>4, AskingKeeps
<1> QED
  BY <1>3, <1>4, <1>5

(***************************************************************************)
(* Requests that write                                                     *)
(***************************************************************************)

Answers(r) == asked' = [asked EXCEPT ![r] = NotAsked]
Later == made.batches \in Nat /\ made'.batches \in Nat /\ made.batches <= made'.batches

(* Where no write was overtaken the row still has what was read.            *)
LEMMA WrittenOnTheCopy ==
    ASSUME MfaInv, NEW r, NEW pc, NEW row, Writes(r, pc, row)
    PROVE  /\ mfa' = row /\ raced' \in BOOLEAN /\ asked[r].pc = pc
           /\ Answers(r)
           /\ ~raced' => /\ ~raced
                         /\ asked[r].row.enabled = mfa.enabled
                         /\ asked[r].row.secret = mfa.secret
BY DEF Writes, Answers, MfaInv, HistoryType

LEMMA AnswersKeep ==
    ASSUME MfaInv, NEW r \in MfaRequests, Answers(r), Later
    PROVE  AskedInv'
<1>1. \A q \in MfaRequests : Seen(asked[q], made'.batches)
  BY SeenLater DEF MfaInv, AskedInv, Later
<1>2. Seen(NotAsked, made'.batches)
  BY NoneAsked DEF Later
<1> QED
  BY <1>1, <1>2 DEF MfaInv, AskedInv, Answers

LEMMA NewBatch ==
    ASSUME MfaInv, MadeInv', made'.batches = made.batches + 1,
           mfa'.codes = Batch(made'.batches), UNCHANGED <<uses, restored>>
    PROVE  UsesInv'
<1> DEFINE n == made.batches + 1
<1>1. made.batches \in Nat /\ n \in 1..MaxBatches /\ restored \in Nat
  BY MfaAssumption DEF MfaInv, MadeInv, HistoryType
<1>2. \A c \in Codes : c[1] \in Nat
  BY MfaAssumption DEF Codes
<1>3. \A c \in Batch(n) : c[1] = n
  BY <1>1, BatchCodes
<1>4. \A c \in Codes : c[1] > n => uses[c] = 0
  BY <1>1, <1>2 DEF MfaInv, UsesInv
<1>5. \A c \in Codes : c \in Batch(n) => uses[c] = 0
  BY <1>1, <1>3 DEF MfaInv, UsesInv
<1>6. Batch(n) \in SUBSET Codes
  BY <1>1, BatchCodes
<1>7. \A c \in mfa'.codes : c[1] = made'.batches /\ uses[c] = 0
  BY <1>3, <1>5, <1>6
<1> HIDE DEF n
<1> QED
  BY <1>1, <1>4, <1>7 DEF MfaInv, UsesInv, n

LEMMA StoringKeeps ==
    ASSUME MfaInv, NEW r \in MfaRequests, StoreMfaSetup(r)
    PROVE  MfaInv'
<1> DEFINE n == made.batches + 1
           row == [mfa EXCEPT !.secret = made.secrets + 1, !.codes = Batch(n)]
<1>1. /\ made' = [secrets |-> made.secrets + 1, batches |-> n]
      /\ Writes(r, "store", row) /\ UNCHANGED <<uses, restored, confirmed>>
  BY DEF StoreMfaSetup
<1>2. /\ made.batches \in Nat /\ n \in 1..MaxBatches /\ made.secrets + 1 \in 0..MaxSecrets
      /\ mfa \in MfaRow
  BY MfaAssumption DEF MfaInv, MadeInv, RowInv, StoreMfaSetup
<1>3. Batch(n) \in SUBSET Codes /\ FromBatches(Batch(n), n)
  BY <1>2, BatchCodes
<1>4. MadeInv' /\ made'.batches = n
  BY <1>1, <1>2 DEF MadeInv
<1>5. /\ mfa' = row /\ raced' \in BOOLEAN /\ asked[r].pc = "store"
      /\ Answers(r)
      /\ ~raced' => /\ ~raced
                    /\ asked[r].row.enabled = mfa.enabled
                    /\ asked[r].row.secret = mfa.secret
  <2> HIDE DEF row
  <2> QED
    BY <1>1, WrittenOnTheCopy
<1>6. row \in MfaRow /\ row.codes = Batch(n) /\ row.enabled = mfa.enabled
  BY <1>2, <1>3 DEF MfaRow
<1>7. RowInv'
  BY <1>3, <1>4, <1>5, <1>6 DEF RowInv
<1>8. AskedInv'
  <2>1. Later
    BY <1>2, <1>4 DEF Later
  <2> QED
    BY <1>5, <2>1, AnswersKeep
<1>9. UsesInv'
  BY <1>1, <1>4, <1>5, <1>6, NewBatch
<1>10. ConfirmedInv'
  <2>1. ~asked[r].row.enabled
    BY <1>5 DEF MfaInv, AskedInv, Seen
  <2> QED
    BY <1>5, <1>6, <2>1 DEF ConfirmedInv
<1> QED
  BY <1>1, <1>4, <1>5, <1>7, <1>8, <1>9, <1>10 DEF MfaInv, HistoryType

LEMMA RegeneratingKeeps ==
    ASSUME MfaInv, NEW r \in MfaRequests, UpdateBackupCodes(r)
    PROVE  MfaInv'
<1> DEFINE n == made.batches + 1
           row == [mfa EXCEPT !.codes = Batch(n)]
<1>2. /\ made.batches \in Nat /\ n \in 1..MaxBatches /\ mfa \in MfaRow
      /\ made \in [secrets : 0..MaxSecrets, batches : 0..MaxBatches]
  BY MfaAssumption DEF MfaInv, MadeInv, RowInv, UpdateBackupCodes
<1>1. /\ made' = [made EXCEPT !.batches = n] /\ made'.batches = n
      /\ Writes(r, "regenerate", row) /\ UNCHANGED <<uses, restored, confirmed>>
  BY <1>2 DEF UpdateBackupCodes
<1>3. Batch(n) \in SUBSET Codes /\ FromBatches(Batch(n), n)
  BY <1>2, BatchCodes
<1>4. MadeInv'
  BY <1>1, <1>2 DEF MadeInv
<1>5. /\ mfa' = row /\ raced' \in BOOLEAN
      /\ Answers(r)
      /\ ~raced' => ~raced
  <2> HIDE DEF row
  <2> QED
    BY <1>1, WrittenOnTheCopy
<1>6. row \in MfaRow /\ row.codes = Batch(n) /\ row.enabled = mfa.enabled /\ row.secret = mfa.secret
  BY <1>2, <1>3 DEF MfaRow
<1>7. RowInv'
  BY <1>1, <1>3, <1>5, <1>6 DEF RowInv
<1>8. AskedInv'
  <2>1. Later
    BY <1>1, <1>2 DEF Later
  <2> QED
    BY <1>5, <2>1, AnswersKeep
<1>9. UsesInv'
  BY <1>1, <1>4, <1>5, <1>6, NewBatch
<1>10. ConfirmedInv'
  BY <1>1, <1>5, <1>6 DEF MfaInv, ConfirmedInv
<1> QED
  BY <1>1, <1>4, <1>5, <1>7, <1>8, <1>9, <1>10 DEF MfaInv, HistoryType

LEMMA EnablingKeeps ==
    ASSUME MfaInv, NEW r \in MfaRequests, EnableMfa(r)
    PROVE  MfaInv'
<1> DEFINE row == [mfa EXCEPT !.enabled = TRUE]
<1>1. Writes(r, "enable", row) /\ confirmed' = asked[r].row.secret /\ UNCHANGED <<made, uses, restored>>
  BY DEF EnableMfa
<1>2. mfa \in MfaRow /\ made.batches \in Nat
  BY MfaAssumption DEF MfaInv, RowInv, MadeInv
<1>3. row \in MfaRow /\ row.codes = mfa.codes /\ row.secret = mfa.secret
  BY <1>2 DEF MfaRow
<1>4. /\ mfa' = row /\ raced' \in BOOLEAN /\ asked[r].pc = "enable"
      /\ Answers(r)
      /\ ~raced' => /\ ~raced
                    /\ asked[r].row.enabled = mfa.enabled
                    /\ asked[r].row.secret = mfa.secret
  <2> HIDE DEF row
  <2> QED
    BY <1>1, WrittenOnTheCopy
<1>5. asked[r].row.secret # 0 /\ asked[r].row.secret \in 0..MaxSecrets
  BY <1>4 DEF MfaInv, AskedInv, Seen, Request, MfaRow
<1>6. AskedInv'
  <2>1. Later
    BY <1>1, <1>2 DEF Later
  <2> QED
    BY <1>4, <2>1, AnswersKeep
<1> HIDE DEF row
<1>7. RowInv' /\ MadeInv' /\ HistoryType'
  BY <1>1, <1>3, <1>4, <1>5 DEF MfaInv, RowInv, MadeInv, HistoryType
<1>8. UsesInv'
  BY <1>1, <1>3, <1>4 DEF MfaInv, UsesInv
<1>9. ConfirmedInv'
  BY <1>1, <1>3, <1>4, <1>5 DEF ConfirmedInv
<1> QED
  BY <1>6, <1>7, <1>8, <1>9 DEF MfaInv

LEMMA DisablingKeeps ==
    ASSUME MfaInv, NEW r \in MfaRequests, DisableMfa(r)
    PROVE  MfaInv'
<1>1. Writes(r, "disabling", NotAsked.row) /\ UNCHANGED <<made, uses, restored, confirmed>>
  BY DEF DisableMfa
<1>2. /\ mfa' = NotAsked.row /\ raced' \in BOOLEAN
      /\ Answers(r)
      /\ ~raced' => ~raced
  BY <1>1, WrittenOnTheCopy
<1>3. mfa' \in MfaRow /\ mfa'.codes = {} /\ mfa'.enabled = FALSE
  BY <1>2, MfaAssumption DEF NotAsked, MfaRow
<1>4. AskedInv'
  <2>1. Later
    BY <1>1, MfaAssumption DEF MfaInv, MadeInv, Later
  <2> QED
    BY <1>2, <2>1, AnswersKeep
<1>5. RowInv' /\ MadeInv' /\ HistoryType'
  BY <1>1, <1>2, <1>3 DEF MfaInv, RowInv, MadeInv, HistoryType, FromBatches
<1>6. UsesInv'
  <2>1. \A c : c \notin mfa'.codes
    BY <1>3
  <2> QED
    BY <1>1, <1>2, <2>1 DEF MfaInv, UsesInv
<1>7. ConfirmedInv'
  BY <1>3 DEF ConfirmedInv
<1> QED
  BY <1>4, <1>5, <1>6, <1>7 DEF MfaInv

LEMMA AcceptingKeeps ==
    ASSUME MfaInv, NEW r \in MfaRequests, UseBackupCode(r)
    PROVE  MfaInv'
<1> DEFINE a == asked[r]
           c == a.code
           row == [mfa EXCEPT !.codes = a.row.codes \ {c}]
           again == IF uses[c] <= MaxRestored THEN uses[c] + 1 ELSE uses[c]
<1>1. /\ a.pc = "code" /\ mfa' = row
      /\ restored' = IF a.row.codes # mfa.codes /\ restored < MaxRestored THEN restored + 1 ELSE restored
      /\ uses' = [uses EXCEPT ![c] = again]
      /\ asked' = [asked EXCEPT ![r] = IF a.for = "disable"
                                       THEN [NotAsked EXCEPT !.pc = "disabling", !.row = mfa']
                                       ELSE NotAsked]
      /\ UNCHANGED <<made, confirmed, raced>>
  BY DEF UseBackupCode, BackupCodeAccepted, Verified
<1>2. /\ a \in Request /\ FromBatches(a.row.codes, made.batches) /\ c \in a.row.codes
      /\ mfa \in MfaRow /\ made.batches \in Nat /\ a.row \in MfaRow
      /\ uses \in [Codes -> 0..(MaxRestored + 1)] /\ restored \in 0..MaxRestored
  BY <1>1, MfaAssumption DEF MfaInv, AskedInv, Seen, Request, RowInv, MadeInv, HistoryType
<1>3. c \in Codes /\ c[1] \in Nat /\ c[1] <= made.batches
  BY <1>2, MfaAssumption DEF MfaRow, FromBatches, Codes
<1>4. row \in MfaRow /\ row.codes = a.row.codes \ {c} /\ row.enabled = mfa.enabled
      /\ row.secret = mfa.secret
  BY <1>2 DEF MfaRow
<1>5. again \in 0..(MaxRestored + 1) /\ again <= uses[c] + 1 /\ restored' \in 0..MaxRestored
  BY <1>1, <1>2, <1>3, MfaAssumption
<1> HIDE DEF row, again
<1>6. RowInv' /\ MadeInv' /\ HistoryType'
  BY <1>1, <1>2, <1>3, <1>4, <1>5 DEF MfaInv, RowInv, MadeInv, HistoryType, FromBatches
<1>7. AskedInv'
  <2>1. Seen([NotAsked EXCEPT !.pc = "disabling", !.row = mfa'], made.batches)
    <3> DEFINE b == [NotAsked EXCEPT !.pc = "disabling", !.row = mfa']
    <3>1. b.pc = "disabling" /\ b.row = mfa'
      BY DEF NotAsked
    <3>2. mfa' \in MfaRow /\ FromBatches(mfa'.codes, made.batches)
      BY <1>1, <1>6 DEF RowInv
    <3>3. b \in Request
      BY <3>2, MfaAssumption DEF NotAsked, Request, Questions
    <3> HIDE DEF b
    <3>4. Seen(b, made.batches)
      BY <3>1, <3>2, <3>3 DEF Seen
    <3> QED
      BY <3>4 DEF b
  <2>2. Seen(NotAsked, made.batches)
    BY <1>2, NoneAsked
  <2> QED
    BY <1>1, <2>1, <2>2 DEF MfaInv, AskedInv
<1>8. \A d \in Codes : uses'[d] = IF d = c THEN again ELSE uses[d]
  BY <1>1, <1>2
<1>9. UsesInv'
  <2>1. \A d \in Codes : d[1] > made'.batches => uses'[d] = 0
    BY <1>1, <1>2, <1>3, <1>8 DEF MfaInv, UsesInv
  <2>2. CASE a.row.codes = mfa.codes
    <3>1. restored' = restored
      BY <1>1, <2>2
    <3>2. \A d \in mfa'.codes : d # c /\ d \in mfa.codes /\ d \in Codes
      BY <1>1, <1>2, <1>4, <2>2 DEF MfaRow
    <3>3. restored < MaxRestored => uses[c] <= restored
      BY <1>2, <2>2 DEF MfaInv, UsesInv
    <3>4. \A d \in Codes : uses'[d] <= 1 + restored'
      BY <1>2, <1>3, <1>5, <1>8, <3>1, <3>3, MfaAssumption DEF MfaInv, UsesInv
    <3>5. \A d \in mfa'.codes : uses'[d] = uses[d]
      BY <1>8, <3>2
    <3> QED
      BY <1>1, <2>1, <3>1, <3>2, <3>4, <3>5 DEF MfaInv, UsesInv
  <2>3. CASE a.row.codes # mfa.codes
    <3>1. restored' # 0
      BY <1>1, <1>2, <2>3, MfaAssumption
    <3>2. \A d \in Codes : uses[d] <= 1 + restored /\ uses[d] \in 0..(MaxRestored + 1)
      BY <1>2 DEF MfaInv, UsesInv
    <3>3. \A d \in Codes : uses'[d] <= 1 + restored'
      BY <1>1, <1>2, <1>3, <1>5, <1>8, <2>3, <3>2, MfaAssumption
    <3>4. restored' < MaxRestored => \A d \in mfa'.codes : uses'[d] <= restored'
      <4> SUFFICES ASSUME restored' < MaxRestored, NEW d \in mfa'.codes PROVE uses'[d] <= restored'
        OBVIOUS
      <4>1. d # c /\ d \in Codes
        BY <1>1, <1>2, <1>4 DEF MfaRow
      <4>2. restored' = restored + 1
        BY <1>1, <1>2, <2>3, MfaAssumption
      <4> QED
        BY <1>2, <1>8, <3>2, <4>1, <4>2
    <3> QED
      BY <2>1, <3>1, <3>3, <3>4 DEF UsesInv
  <2> QED
    BY <2>2, <2>3
<1>10. ConfirmedInv'
  BY <1>1, <1>2, <1>4 DEF MfaInv, ConfirmedInv
<1> QED
  BY <1>6, <1>7, <1>9, <1>10 DEF MfaInv

-----------------------------------------------------------------------------
LEMMA MfaInvKept == MfaInv /\ [MfaNext]_mfaVars => MfaInv'
<1> SUFFICES ASSUME MfaInv, [MfaNext]_mfaVars PROVE MfaInv'
  OBVIOUS
<1>1. CASE UNCHANGED mfaVars
  BY <1>1 DEF mfaVars, MfaInv, RowInv, MadeInv, AskedInv, HistoryType, UsesInv, ConfirmedInv
<1> QED
  BY <1>1, ReadersKeep, VerifyingKeeps, StoringKeeps, RegeneratingKeeps, EnablingKeeps,
     DisablingKeeps, AcceptingKeeps
  DEF MfaNext

(* The row, the requests and the histories always have their types.         *)
THEOREM MfaTypeHolds == MfaSpec => []MfaType
<1>1. MfaInv => MfaType
  BY MfaInvIsEnough
<1> QED
  BY MfaInitially, MfaInvKept, <1>1, PTL DEF MfaSpec

(* A backup code is accepted once, and once more for each time that codes   *)
(* were written back which were no longer those of the row; and where no    *)
(* write overtook another, an enabled factor has the secret whose token     *)
(* enabled it (validateBackupCode, enableMfa).                              *)
THEOREM SecondFactorHeld == MfaSpec => []SecondFactorHolds
<1>1. MfaInv => SecondFactorHolds
  BY MfaInvIsEnough
<1> QED
  BY MfaInitially, MfaInvKept, <1>1, PTL DEF MfaSpec

(***************************************************************************)
(* The account                                                             *)
(***************************************************************************)
accountsVars == <<lockoutVars, sessionVars, mfaVars, explored>>

AccountsInv == CountInv /\ HolderInv /\ MfaInv

LEMMA AccountsStart == AccountsInit => AccountsInv
BY CountInitially, HolderInitially, MfaInitially DEF AccountsInit, AccountsInv

LEMMA AccountsStep == AccountsInv /\ [AccountsNext]_accountsVars => AccountsInv'
<1> SUFFICES ASSUME AccountsInv, [AccountsNext]_accountsVars PROVE AccountsInv'
  OBVIOUS
<1>1. [LockoutNext]_lockoutVars /\ [SessionNext]_sessionVars /\ [MfaNext]_mfaVars
  BY DEF AccountsNext, accountsVars
<1> QED
  BY <1>1, CountInvKept, HolderInvKept, MfaInvKept DEF AccountsInv

LEMMA AccountsMean ==
    AccountsInv =>
        /\ AccountsType /\ FailuresLock /\ NoSessionOutlivesPassword
        /\ HolderKeepsAccess /\ SecondFactorHolds
BY CountInvIsEnough, SessInvIsEnough, HolderInvIsEnough, MfaInvIsEnough
DEF AccountsInv, HolderInv, AccountsType, CountInv, LockInv

(* The rows and the requests of the account always have their types.        *)
THEOREM AccountTypesHold == AccountsSpec => []AccountsType
BY AccountsStart, AccountsStep, AccountsMean, PTL DEF AccountsSpec, accountsVars

(* Failures lock the account, no session outlives a password, whoever holds *)
(* the tokens of a session keeps access, and the second factor holds, for   *)
(* any number of requests to the account.                                   *)
THEOREM AccountSafe ==
    AccountsSpec => [](/\ FailuresLock /\ NoSessionOutlivesPassword
                       /\ HolderKeepsAccess /\ SecondFactorHolds)
BY AccountsStart, AccountsStep, AccountsMean, PTL DEF AccountsSpec, accountsVars
=============================================================================
