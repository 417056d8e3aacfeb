----------------------------- MODULE MC_Accounts -----------------------------
(***************************************************************************)
(* The lockout, the sessions and the second factor of one account.  They   *)
(* write different columns and tables and read none of the others', so     *)
(* each is explored by itself, with the others where they start.           *)
(***************************************************************************)
EXTENDS AccountLockout, UserSessions, MfaEnrolment

VARIABLE explored

AccountsInit ==
    /\ explored \in {"lockout", "sessions", "second factor"}
    /\ LockoutInit /\ SessionInit /\ MfaInit

AccountsNext ==
    \/ explored = "lockout" /\ LockoutNext /\ UNCHANGED <<sessionVars, mfaVars, explored>>
    \/ explored = "sessions" /\ SessionNext /\ UNCHANGED <<lockoutVars, mfaVars, explored>>
    \/ explored = "second factor" /\ MfaNext /\ UNCHANGED <<lockoutVars, sessionVars, explored>>

(* Where the sessions are not explored there is none, so that their         *)
(* fairness asks nothing there.                                             *)
AccountsSpec ==
    /\ AccountsInit
    /\ [][AccountsNext]_<<lockoutVars, sessionVars, mfaVars, explored>>
    /\ SessionFairness

(* Every column and request of the three has its type, and a session row is *)
(* one that was opened, a backup code one that was generated.               *)
AccountsType == LockoutType /\ SessionType /\ MfaType
=============================================================================
