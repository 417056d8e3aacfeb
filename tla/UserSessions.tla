---------------------------- MODULE UserSessions ----------------------------
(***************************************************************************)
(* SessionService, PasswordService and the parts of AuthService and        *)
(* UsersService that open and end sessions (src/src/auth/services,         *)
(* src/src/users), for one user.  A request is cut at each await on the    *)
(* database that another request can come between; what runs in one        *)
(* transaction is one step.                                                *)
(*                                                                         *)
(* A session row is inserted with the hashes 'temp', which the schema      *)
(* declares unique, and updated with the real ones; a refresh looks the    *)
(* row up by its hash and updates it by its id.  Pairs of tokens of a      *)
(* session are numbered in the order in which they are written.  Browser   *)
(* tabs share the pair they hold, and the last answer to arrive is kept.   *)
(***************************************************************************)
EXTENDS Naturals, FiniteSets

CONSTANTS
    SessionRequests,    \* requests under way together
    Sessions,           \* sessions that may be opened; an id is not used again
    MaxPairs,           \* bound: pairs written for one session
    MaxPasswords        \* bound: passwords the user has had

ASSUME SessionAssumption == MaxPairs \in Nat \ {0} /\ MaxPasswords \in Nat \ {0}

VARIABLES
    user,       \* isActive and deletedAt, isLocked, the number of the password, a reset
                \* token that may be used
    session,    \* the row of userSession of each id; ended: revokedAt set or past expiresAt;
                \* held: the pair the browser has, 0 without one; history: heard, what
                \* became of the answer with the pair of the row
    call        \* what each request does next

sessionVars == <<user, session, call>>

Temp == 0
NoRow == [row |-> FALSE, used |-> FALSE, pair |-> Temp, ended |-> FALSE, since |-> 0,
          held |-> 0, heard |-> "none"]
NoCall == [pc |-> "idle", id |-> "none", pair |-> 0]

CallTypes == {"idle", "validated", "hashing", "rotating", "answering", "changing", "resetting"}

SessionType ==
    /\ user \in [status : {"active", "inactive", "deleted"}, locked : BOOLEAN,
                 password : 1..MaxPasswords, reset : BOOLEAN]
    /\ session \in [Sessions -> [row : BOOLEAN, used : BOOLEAN, pair : 0..MaxPairs,
                                 ended : BOOLEAN, since : 0..MaxPasswords,
                                 held : 0..MaxPairs,
                                 heard : {"none", "told", "late", "lost"}]]
    /\ call \in [SessionRequests -> [pc : CallTypes, id : Sessions \cup {"none"},
                                     pair : 0..MaxPairs]]
    /\ \A s \in Sessions : session[s].row => session[s].used

SessionInit ==
    /\ user = [status |-> "active", locked |-> FALSE, password |-> 1, reset |-> FALSE]
    /\ session = [s \in Sessions |-> NoRow]
    /\ call = [r \in SessionRequests |-> NoCall]

Rows == {s \in Sessions : session[s].row}
TempRows == {s \in Rows : session[s].pair = Temp}
Usable(s) == session[s].row /\ ~session[s].ended

Ends(r) == call' = [call EXCEPT ![r] = NoCall]

(* What deleteMany and updateMany do to the rows of the user.  The tokens   *)
(* of a row that is gone are as good as none.                               *)
Deleted(ids) ==
    [s \in Sessions |-> IF s \in ids THEN [NoRow EXCEPT !.used = session[s].used] ELSE session[s]]
AllRevoked == [s \in Sessions |-> [session[s] EXCEPT !.ended = session[s].row]]

(***************************************************************************)
(* Login                                                                   *)
(***************************************************************************)

(* findByEmail, the checks and validatePassword have let the login pass,    *)
(* and resetFailedAttempts takes off whatever lock there is by now.         *)
ValidateLogin(r) ==
    /\ call[r].pc = "idle"
    /\ user.status = "active"
    /\ call' = [call EXCEPT ![r].pc = "validated"]
    /\ user' = [user EXCEPT !.locked = FALSE]
    /\ UNCHANGED session

(* The insertion fails while any row has the hash 'temp', and the login     *)
(* with it.                                                                 *)
CreateSession(r) ==
    /\ call[r].pc = "validated"
    /\ \/ /\ TempRows = {}
          /\ \E s \in Sessions :
               /\ ~session[s].used
               /\ session' = [session EXCEPT ![s] = [NoRow EXCEPT !.row = TRUE, !.used = TRUE,
                                                                  !.since = user.password]]
               /\ call' = [call EXCEPT ![r].pc = "hashing", ![r].id = s]
       \/ /\ TempRows # {}
          /\ Ends(r)
          /\ UNCHANGED session
    /\ UNCHANGED user

(* The update by id fails when the row has been deleted.                    *)
StoreHashes(r) ==
    LET s == call[r].id IN
    /\ call[r].pc = "hashing"
    /\ IF session[s].row
       THEN /\ session' = [session EXCEPT ![s].pair = 1]
            /\ call' = [call EXCEPT ![r].pc = "answering", ![r].pair = 1]
       ELSE Ends(r) /\ UNCHANGED session
    /\ UNCHANGED user

(* The answer arrives, or is lost: the connection broke, or the audit event *)
(* that is written before it failed.  One with an older pair than the row's *)
(* is late when it replaces that pair in the browser.                       *)
Heard(s, pair) ==
    IF pair = session[s].pair THEN "told"
    ELSE IF pair < session[s].pair /\ session[s].heard = "told" THEN "late"
    ELSE session[s].heard

Answer(r) ==
    LET s == call[r].id
        pair == call[r].pair
    IN
    /\ call[r].pc = "answering"
    /\ \/ ~session[s].row /\ UNCHANGED session
       \/ /\ session[s].row
          /\ session' = [session EXCEPT ![s].held = pair, ![s].heard = Heard(s, pair)]
       \/ /\ session[s].row
          /\ session' = [session EXCEPT ![s].heard = IF pair = session[s].pair THEN "lost" ELSE @]
    /\ Ends(r)
    /\ UNCHANGED user

(***************************************************************************)
(* Refresh                                                                 *)
(***************************************************************************)

FindByRefreshToken(r, s) ==
    /\ call[r].pc = "idle"
    /\ session[s].held # 0 /\ session[s].held = session[s].pair
    /\ Usable(s)
    /\ user.status = "active" /\ ~user.locked
    /\ call' = [call EXCEPT ![r].pc = "rotating", ![r].id = s]
    /\ UNCHANGED <<user, session>>

Rotated(r) == [session EXCEPT ![call[r].id].pair = @ + 1, ![call[r].id].heard = "none"]

(* Mutant: the new hashes are stored where no refresh was answered since    *)
(* the last, and answered in any case.                                      *)
RotateOnce(r) ==
    LET s == call[r].id IN
    /\ call[r].pc = "rotating"
    /\ session[s].pair < MaxPairs
    /\ IF session[s].row
       THEN /\ session' = IF session[s].heard = "told" THEN Rotated(r) ELSE session
            /\ call' = [call EXCEPT ![r].pc = "answering", ![r].pair = session[s].pair + 1]
       ELSE Ends(r) /\ UNCHANGED session
    /\ UNCHANGED user

(* The update is by id: whatever was written since the row was found is     *)
(* overwritten, the revocation stays.                                       *)
Rotate(r) ==
    LET s == call[r].id IN
    /\ call[r].pc = "rotating"
    /\ session[s].pair < MaxPairs
    /\ IF session[s].row
       THEN /\ session' = Rotated(r)
            /\ call' = [call EXCEPT ![r].pc = "answering", ![r].pair = session[s].pair + 1]
       ELSE Ends(r) /\ UNCHANGED session
    /\ UNCHANGED user

(***************************************************************************)
(* Ending sessions                                                         *)
(***************************************************************************)

RevokeSession(s) ==
    /\ session[s].row
    /\ session' = [session EXCEPT ![s].ended = TRUE]
    /\ UNCHANGED <<user, call>>

(* logoutAll is given no session to spare: the user that the JWT strategy   *)
(* returns has no sessionId.                                                *)
RevokeAllUserSessions ==
    /\ session' = AllRevoked
    /\ UNCHANGED <<user, call>>

(* Mutant: rows that were never given hashes are left to their creator.     *)
CleanupFinishedOnly ==
    /\ session' = Deleted({s \in Rows \ TempRows : session[s].ended})
    /\ UNCHANGED <<user, call>>

CleanupExpiredSessions ==
    /\ session' = Deleted({s \in Rows : session[s].ended})
    /\ UNCHANGED <<user, call>>

SessionExpires(s) ==
    /\ session[s].row
    /\ session' = [session EXCEPT ![s].ended = TRUE]
    /\ UNCHANGED <<user, call>>

(***************************************************************************)
(* Passwords                                                               *)
(***************************************************************************)

PasswordReplaced ==
    /\ user.password < MaxPasswords
    /\ session' = Deleted(Rows)

(* The current password is compared with the row as it is now.              *)
CheckCurrentPassword(r) ==
    /\ call[r].pc = "idle"
    /\ user.status = "active"
    /\ call' = [call EXCEPT ![r].pc = "changing"]
    /\ UNCHANGED <<user, session>>

(* Mutant: only the sessions that were not used yet are closed.             *)
ChangePasswordKeepsSessions(r) ==
    /\ call[r].pc = "changing"
    /\ user.password < MaxPasswords
    /\ session' = Deleted(TempRows)
    /\ user' = [user EXCEPT !.password = @ + 1]
    /\ Ends(r)

(* The transaction: the new hash, and every session deleted.                *)
ChangePassword(r) ==
    /\ call[r].pc = "changing"
    /\ PasswordReplaced
    /\ user' = [user EXCEPT !.password = @ + 1]
    /\ Ends(r)

(* The tokens of earlier requests are deleted, a new one is created.        *)
GeneratePasswordResetToken ==
    /\ user.status = "active"
    /\ user' = [user EXCEPT !.reset = TRUE]
    /\ UNCHANGED <<session, call>>

FindResetToken(r) ==
    /\ call[r].pc = "idle"
    /\ user.reset
    /\ call' = [call EXCEPT ![r].pc = "resetting"]
    /\ UNCHANGED <<user, session>>

(* The token is marked as used whether or not it was meanwhile.             *)
ConfirmPasswordReset(r) ==
    /\ call[r].pc = "resetting"
    /\ PasswordReplaced
    /\ user' = [user EXCEPT !.password = @ + 1, !.reset = FALSE]
    /\ Ends(r)

(***************************************************************************)
(* The administration of users                                             *)
(***************************************************************************)

Activate ==
    /\ user.status # "deleted"
    /\ user' = [user EXCEPT !.status = "active"]
    /\ UNCHANGED <<session, call>>

(* deactivateUser, behind the REST API, revokes nothing.                    *)
Deactivate ==
    /\ user.status # "deleted"
    /\ user' = [user EXCEPT !.status = "inactive"]
    /\ UNCHANGED <<session, call>>

RemoveUser ==
    /\ user.status # "deleted"
    /\ user' = [user EXCEPT !.status = "deleted"]
    /\ UNCHANGED <<session, call>>

(* isLocked, which failed logins and administrators set; AccountLockout     *)
(* says when.                                                               *)
Lock ==
    /\ user' = [user EXCEPT !.locked = TRUE]
    /\ UNCHANGED <<session, call>>

Unlock ==
    /\ user' = [user EXCEPT !.locked = FALSE]
    /\ UNCHANGED <<session, call>>

(* assignRole writes the role, then revokes the sessions; a crash between   *)
(* the two leaves them as they are.                                         *)
AssignRole ==
    /\ user.status # "deleted"
    /\ session' = AllRevoked
    /\ UNCHANGED <<user, call>>

(* A request is about to answer with the pair of the row.                   *)
Tells(r, s) == call[r].pc = "answering" /\ call[r].id = s /\ call[r].pair = session[s].pair

(* The process ends: what is under way is lost, the rows stay.              *)
SessionCrash ==
    /\ \E r \in SessionRequests : call[r].pc # "idle"
    /\ session' = [s \in Sessions |->
                     IF session[s].row /\ \E r \in SessionRequests : Tells(r, s)
                     THEN [session[s] EXCEPT !.heard = "lost"] ELSE session[s]]
    /\ call' = [r \in SessionRequests |-> NoCall]
    /\ UNCHANGED user

RequestStep(r) ==
    CreateSession(r) \/ StoreHashes(r) \/ Answer(r) \/ Rotate(r)
        \/ ChangePassword(r) \/ ConfirmPasswordReset(r)

SessionNext ==
    \/ \E r \in SessionRequests :
         \/ ValidateLogin(r) \/ CheckCurrentPassword(r) \/ FindResetToken(r) \/ RequestStep(r)
         \/ \E s \in Sessions : FindByRefreshToken(r, s)
    \/ \E s \in Sessions : RevokeSession(s) \/ SessionExpires(s)
    \/ RevokeAllUserSessions \/ CleanupExpiredSessions \/ GeneratePasswordResetToken
    \/ Activate \/ Deactivate \/ RemoveUser \/ Lock \/ Unlock
    \/ AssignRole \/ SessionCrash

(* A session's seven days pass, and the clean-up runs every hour.  Nothing  *)
(* is asked of the requests that are under way.                             *)
SessionFairness ==
    /\ \A s \in Sessions : WF_sessionVars(SessionExpires(s))
    /\ WF_sessionVars(CleanupExpiredSessions)

SessionSpec == SessionInit /\ [][SessionNext]_sessionVars /\ SessionFairness

-----------------------------------------------------------------------------
(* Every session row was inserted since the password was last changed or    *)
(* reset: no refresh that was under way brings one back (changePassword,    *)
(* confirmPasswordReset, refreshToken).  A login that had compared the old  *)
(* password before does insert its row after the change.                    *)
NoSessionOutlivesPassword == \A s \in Rows : session[s].since = user.password

(* When nothing is under way, a browser holds the pair that is valid for    *)
(* its session, also after refreshes that overlapped, unless the answer     *)
(* with that pair was lost, or the answer of a refresh that was written     *)
(* before arrived after it (refreshToken).                                  *)
HolderKeepsAccess ==
    (\A r \in SessionRequests : call[r].pc = "idle") =>
        \A s \in Rows : session[s].pair # Temp =>
            session[s].held = session[s].pair \/ session[s].heard \in {"late", "lost"}

(* A row that a crash left with the hash 'temp' refuses every login; it     *)
(* goes at the latest when its session has expired and is cleaned up.       *)
StuckLoginsEnd == \A s \in Sessions : s \in TempRows ~> s \notin TempRows
=============================================================================
