---------------------------- MODULE MfaEnrolment ----------------------------
(***************************************************************************)
(* The second factor of one account: MfaService and the parts of           *)
(* AuthService and UsersService that set it up, enable it, ask for it and   *)
(* disable it (src/src/auth/services, src/src/users).  Each request reads  *)
(* the user, checks what it read, and writes some columns by id: the two   *)
(* halves are steps of their own.                                          *)
(*                                                                         *)
(* Secrets are numbered in the order in which they are generated, 0 is     *)
(* null.  A backup code is <<batch, which>>, two to a batch for the ten of *)
(* the code.  A token is right for the secret it was made from.            *)
(*                                                                         *)
(* disableMfaEmergency asks for a role named 'Super Admin', which the seed *)
(* does not create (it is 'SUPER_ADMIN' there), and is not modelled.       *)
(***************************************************************************)
EXTENDS Naturals, FiniteSets

CONSTANTS
    MfaRequests,    \* requests under way together
    MaxSecrets,     \* bound: secrets generated
    MaxBatches,     \* bound: batches of backup codes generated
    MaxRestored     \* bound: codes that are written back stale are counted up to here

ASSUME MfaAssumption == MaxSecrets \in Nat /\ MaxBatches \in Nat /\ MaxRestored \in Nat \ {0}

VARIABLES
    mfa,        \* the row: mfaEnabled, mfaSecret, mfaBackupCodes
    made,       \* secrets and batches generated so far
    asked,      \* what each request writes next, and what it has read
    uses,       \* history: how often each backup code was accepted
    restored,   \* history: how often codes other than those of the row were written back
    confirmed,  \* history: the secret whose token enabled the factor last
    raced       \* history: a write whose request had read another secret, or mfaEnabled

mfaVars == <<mfa, made, asked, uses, restored, confirmed, raced>>

Codes == (1..MaxBatches) \X {"first", "second"}
Batch(n) == {<<n, "first">>, <<n, "second">>}
NoCode == <<0, "first">>
NotAsked == [pc |-> "idle", for |-> "idle", code |-> NoCode,
             row |-> [enabled |-> FALSE, secret |-> 0, codes |-> {}]]

MfaRow == [enabled : BOOLEAN, secret : 0..MaxSecrets, codes : SUBSET Codes]

MfaType ==
    /\ mfa \in MfaRow
    /\ made \in [secrets : 0..MaxSecrets, batches : 0..MaxBatches]
    /\ asked \in [MfaRequests -> [pc : {"idle", "store", "enable", "login", "disable", "code",
                                        "disabling", "regenerate"},
                                  for : {"idle", "login", "disable"},
                                  code : Codes \cup {NoCode}, row : MfaRow]]
    /\ uses \in [Codes -> 0..(MaxRestored + 1)] /\ restored \in 0..MaxRestored
    /\ confirmed \in 0..MaxSecrets /\ raced \in BOOLEAN
    /\ \A c \in mfa.codes : c[1] <= made.batches

MfaInit ==
    /\ mfa = NotAsked.row /\ made = [secrets |-> 0, batches |-> 0]
    /\ asked = [r \in MfaRequests |-> NotAsked]
    /\ uses = [c \in Codes |-> 0] /\ restored = 0 /\ confirmed = 0 /\ raced = FALSE

(* The user is read, and the request goes on with that copy.                *)
Reads(r, pc) ==
    /\ asked[r].pc = "idle"
    /\ asked' = [asked EXCEPT ![r] = [NotAsked EXCEPT !.pc = pc, !.row = mfa]]
    /\ UNCHANGED <<mfa, made, uses, restored, raced, confirmed>>

(* The columns are written whatever the row has become.                     *)
Writes(r, pc, row) ==
    /\ asked[r].pc = pc
    /\ mfa' = row
    /\ raced' = (raced \/ asked[r].row.enabled # mfa.enabled \/ asked[r].row.secret # mfa.secret)
    /\ asked' = [asked EXCEPT ![r] = NotAsked]

SetupMfa(r) == ~mfa.enabled /\ Reads(r, "store")

(* Mutant: the codes that are stored are not the ones that were shown.      *)
StoreMfaSetupOtherCodes(r) ==
    /\ made.secrets < MaxSecrets /\ made.batches < MaxBatches
    /\ made' = [made EXCEPT !.secrets = @ + 1]
    /\ Writes(r, "store", [mfa EXCEPT !.secret = made'.secrets, !.codes = Batch(made.batches + 1)])
    /\ UNCHANGED <<uses, restored, confirmed>>

StoreMfaSetup(r) ==
    /\ made.secrets < MaxSecrets /\ made.batches < MaxBatches
    /\ made' = [secrets |-> made.secrets + 1, batches |-> made.batches + 1]
    /\ Writes(r, "store", [mfa EXCEPT !.secret = made'.secrets, !.codes = Batch(made'.batches)])
    /\ UNCHANGED <<uses, restored, confirmed>>

(* verifyToken against the secret that was read: no token is right for null.*)
EnableMfaChecked(r) ==
    /\ ~mfa.enabled /\ mfa.secret # 0
    /\ Reads(r, "enable")

EnableMfa(r) ==
    /\ Writes(r, "enable", [mfa EXCEPT !.enabled = TRUE])
    /\ confirmed' = asked[r].row.secret
    /\ UNCHANGED <<made, uses, restored>>

(***************************************************************************)
(* verifyMfaToken, for a login or before the factor is disabled: a token of *)
(* the secret that was read, or one of the backup codes, which are read     *)
(* again.  A login asks only where there is a secret.                       *)
(***************************************************************************)
LoginAsks(r) == mfa.enabled /\ mfa.secret # 0 /\ Reads(r, "login")
DisableAsks(r) == mfa.enabled /\ Reads(r, "disable")

Verified(r, row) ==
    asked' = [asked EXCEPT ![r] = IF asked[r].for = "disable"
                                  THEN [NotAsked EXCEPT !.pc = "disabling", !.row = row]
                                  ELSE NotAsked]

TokenVerified(r) ==
    /\ asked[r].pc \in {"login", "disable"} /\ asked[r].row.secret # 0
    /\ asked' = [asked EXCEPT ![r] = IF asked[r].pc = "disable"
                                     THEN [@ EXCEPT !.pc = "disabling"]
                                     ELSE NotAsked]
    /\ UNCHANGED <<mfa, made, uses, restored, raced, confirmed>>

FindBackupCode(r) ==
    /\ asked[r].pc \in {"login", "disable"} /\ asked[r].row.codes # {}
    /\ \E c \in mfa.codes :
         asked' = [asked EXCEPT ![r] = [pc |-> "code", for |-> @.pc, row |-> mfa, code |-> c]]
    /\ UNCHANGED <<mfa, made, uses, restored, raced, confirmed>>

TokenRefused(r) ==
    /\ asked[r].pc \in {"login", "disable"}
    /\ asked' = [asked EXCEPT ![r] = NotAsked]
    /\ UNCHANGED <<mfa, made, uses, restored, raced, confirmed>>

BackupCodeAccepted(r, remaining) ==
    /\ asked[r].pc = "code"
    /\ mfa' = [mfa EXCEPT !.codes = remaining]
    /\ uses' = [uses EXCEPT ![asked[r].code] = IF @ <= MaxRestored THEN @ + 1 ELSE @]
    /\ restored' = IF asked[r].row.codes # mfa.codes /\ restored < MaxRestored
                     THEN restored + 1 ELSE restored
    /\ Verified(r, mfa')
    /\ UNCHANGED <<made, confirmed, raced>>

(* Mutant: the code that was used stays among the codes.                    *)
UseBackupCodeKept(r) == BackupCodeAccepted(r, asked[r].row.codes)

(* The codes that were read, without the one used, are written back.        *)
UseBackupCode(r) == BackupCodeAccepted(r, asked[r].row.codes \ {asked[r].code})

DisableMfa(r) ==
    /\ Writes(r, "disabling", NotAsked.row)
    /\ UNCHANGED <<made, uses, restored, confirmed>>

RegenerateBackupCodes(r) == mfa.enabled /\ Reads(r, "regenerate")

UpdateBackupCodes(r) ==
    /\ made.batches < MaxBatches
    /\ made' = [made EXCEPT !.batches = @ + 1]
    /\ Writes(r, "regenerate", [mfa EXCEPT !.codes = Batch(made'.batches)])
    /\ UNCHANGED <<uses, restored, confirmed>>

MfaNext ==
    \E r \in MfaRequests :
        \/ SetupMfa(r) \/ StoreMfaSetup(r) \/ EnableMfaChecked(r) \/ EnableMfa(r)
        \/ LoginAsks(r) \/ DisableAsks(r) \/ TokenVerified(r) \/ TokenRefused(r)
        \/ FindBackupCode(r) \/ UseBackupCode(r) \/ DisableMfa(r)
        \/ RegenerateBackupCodes(r) \/ UpdateBackupCodes(r)

MfaSpec == MfaInit /\ [][MfaNext]_mfaVars

-----------------------------------------------------------------------------
(* However requests overlap, a backup code is accepted once, and once more *)
(* for each time that codes were written back which were no longer those of *)
(* the row; without such a write the codes are of the batch that was shown  *)
(* last (validateBackupCode).  An enabled second factor has the secret      *)
(* whose token enabled it, unless one request's write overtook another's    *)
(* between setting up, enabling and disabling (setupMfa, enableMfa).        *)
SecondFactorHolds ==
    /\ \A c \in Codes : uses[c] <= 1 + restored
    /\ restored = 0 => \A c \in mfa.codes : c[1] = made.batches
    /\ ~raced => (mfa.enabled => mfa.secret # 0 /\ mfa.secret = confirmed)
=============================================================================
