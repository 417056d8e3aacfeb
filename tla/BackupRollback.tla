---------------------------- MODULE BackupRollback ----------------------------
(***************************************************************************)
(* BackupService (src/src/backup/services): backups of files and           *)
(* directories of a server for one incident, and the rollback that puts    *)
(* them back, while the fixes go on editing.                               *)
(*                                                                         *)
(* A backup is several awaits: the size is asked for, the file is fetched  *)
(* to a local name made of the millisecond, the type and the base name,    *)
(* its checksum is taken, a row is written.  Contents are numbers; 2k and   *)
(* 2k + 1 have the same size.  A row has its call for an id.                *)
(***************************************************************************)
EXTENDS Naturals, Sequences, FiniteSets, SequencesExt

CONSTANTS
    BackupCalls,    \* concurrent calls of createFileBackup and createDirectoryBackup
    MaxBackupEdits, \* bound: edits of the server's files
    MaxTicks,       \* bound: milliseconds that pass
    MaxLinkFaults   \* bound: transfers and commands that fail

ASSUME BackupAssumption ==
    /\ IsFiniteSet(BackupCalls)
    /\ MaxBackupEdits \in Nat /\ MaxTicks \in Nat /\ MaxLinkFaults \in Nat

VARIABLES
    remote,     \* target -> content on the server
    files,      \* local name -> content of the backup file
    rows,       \* the backup artifacts of the incident, in the order of createdAt
    calls,      \* call -> how far createFileBackup or createDirectoryBackup is
    rollback,   \* executeRollback
    world       \* the clock, and how many edits and faults there were

backupVars == <<remote, files, rows, calls, rollback, world>>

(* Two files of one base name, and a directory.                             *)
Directory == "themes/x"
BackupTargets == {"a/index.php", "b/index.php", Directory}
BaseName(t) == IF t = Directory THEN "x" ELSE "index.php"

Gone == 0
Garbage == 1    \* an archive in the place of a file, or over what was left of a directory

Size(content) == content \div 2
First(t) == CASE t = "a/index.php" -> 10 [] t = "b/index.php" -> 20 [] t = Directory -> 30

(* ArtifactType, as far as rollback tells its members apart: by whether     *)
(* they contain "DIRECTORY".                                                *)
ArtifactTypes == {"DIRECTORY_BACKUP", "PLUGIN_BACKUP"}

(* generateBackupFileName                                                   *)
BackupFileName(t, type) == <<world.now, type, BaseName(t)>>

NoCall == [step |-> "idle", target |-> Directory, type |-> "PLUGIN_BACKUP", name |-> <<>>,
           size |-> 0, took |-> Gone]
\* "was": the rows as they were read, "todo": the places in them of those that are left
\* "chosen", "edited": history, those it began with, and what was edited since or was
\* not removed before an archive was unpacked
NoRollback == [step |-> "idle", was |-> <<>>, chosen |-> {}, todo |-> {}, restored |-> {},
               lost |-> {}, edited |-> {}]

BackupInit ==
    /\ remote = [t \in BackupTargets |-> First(t)]
    /\ files = <<>> /\ rows = <<>>
    /\ calls = [c \in BackupCalls |-> NoCall]
    /\ rollback = NoRollback
    /\ world = [now |-> 0, edits |-> 0, faults |-> 0]

Faulted == world' = [world EXCEPT !.faults = @ + 1]
MayFault == world.faults < MaxLinkFaults

(* Fixes and owners edit what is backed up.                                 *)
EditRemote(t) ==
    /\ world.edits < MaxBackupEdits /\ remote[t] \notin {Gone, Garbage}
    /\ remote' = [remote EXCEPT ![t] = @ + 1]
    /\ world' = [world EXCEPT !.edits = @ + 1]
    /\ rollback' = [rollback EXCEPT !.edited = @ \cup {t}]
    /\ UNCHANGED <<files, rows, calls>>

TickBackup ==
    /\ world.now < MaxTicks
    /\ world' = [world EXCEPT !.now = @ + 1]
    /\ UNCHANGED <<remote, files, rows, calls, rollback>>

-----------------------------------------------------------------------------
(* validateBackupInputs, getRemoteFileInfo and checkStorageSpace, or their  *)
(* counterparts for a directory: the size of a file is the one of now.      *)
BeginBackup(c, t, type) ==
    /\ calls[c].step = "idle" /\ remote[t] # Gone
    /\ calls' = [calls EXCEPT ![c] = [NoCall EXCEPT !.step = "fetching", !.target = t, !.type = type,
                                                    !.name = BackupFileName(t, type),
                                                    !.size = Size(remote[t])]]
    /\ UNCHANGED <<remote, files, rows, rollback, world>>

(* The transfer; another call may have the same local name, and overwrites. *)
FetchBackup(c) ==
    /\ calls[c].step = "fetching"
    /\ LET call == calls[c]
           content == remote[call.target]
       IN  \/ /\ content # Gone
              /\ files' = [n \in DOMAIN files \cup {call.name} |->
                              IF n = call.name THEN content ELSE files[n]]
              /\ calls' = [calls EXCEPT ![c].step = "storing", ![c].took = content]
              /\ UNCHANGED world
           \/ /\ content = Gone
              /\ calls' = [calls EXCEPT ![c].step = "failed"] /\ UNCHANGED <<files, world>>
           \/ /\ MayFault /\ Faulted
              /\ calls' = [calls EXCEPT ![c].step = "failed"] /\ UNCHANGED files
    /\ UNCHANGED <<remote, rows, rollback>>

(* The checksum is that of the local file; so is the size of an archive.    *)
StoredRow(c) ==
    LET call == calls[c] IN
    [id |-> c, target |-> call.target, type |-> call.type, name |-> call.name,
     checksum |-> files[call.name],
     size |-> IF call.target = Directory THEN Size(files[call.name]) ELSE call.size,
     took |-> call.took]

(* Mutant: a call whose row is stored stores it again.                      *)
StoreBackupAgain(c) ==
    /\ calls[c].step = "storing" /\ calls[c].name \in DOMAIN files
    /\ rows' = Append(rows, StoredRow(c))
    /\ UNCHANGED <<remote, files, calls, rollback, world>>

StoreBackup(c) ==
    /\ calls[c].step = "storing"
    /\ \/ /\ calls[c].name \in DOMAIN files
          /\ rows' = Append(rows, StoredRow(c))
          /\ calls' = [calls EXCEPT ![c].step = "done"]
       \/ /\ calls[c].name \notin DOMAIN files
          /\ calls' = [calls EXCEPT ![c].step = "failed"] /\ UNCHANGED rows
    /\ UNCHANGED <<remote, files, rollback, world>>

(* deleteBackupArtifact: the file first, then the row.                      *)
DeleteBackupArtifact(i) ==
    /\ i \in DOMAIN rows
    /\ files' = [n \in DOMAIN files \ {rows[i].name} |-> files[n]]
    /\ rows' = RemoveAt(rows, i)
    /\ UNCHANGED <<remote, calls, rollback, world>>

-----------------------------------------------------------------------------
(* validateBackupArtifact, which reads the row again.                       *)
ValidArtifact(row) ==
    /\ \E i \in DOMAIN rows : rows[i].id = row.id
    /\ row.name \in DOMAIN files
    /\ files[row.name] = row.checksum
    /\ Size(files[row.name]) = row.size

(* Mutant: the artifacts in the order in which they were made.              *)
OldestOf(places) == CHOOSE i \in places : \A j \in places : i <= j

(* Newest first, so that the oldest copy of a target is the last to be put  *)
(* back.                                                                    *)
NewestOf(places) == CHOOSE i \in places : \A j \in places : j <= i

(* All the artifacts of the incident, or some that the caller names.        *)
ExecuteRollback ==
    /\ rollback.step = "idle"
    /\ \E chosen \in SUBSET DOMAIN rows :
          /\ chosen # {}
          /\ rollback' = [NoRollback EXCEPT !.step = "running", !.was = rows, !.chosen = chosen,
                                            !.todo = chosen]
    /\ UNCHANGED <<remote, files, rows, calls, world>>

Restored(r, i) == [r EXCEPT !.todo = @ \ {i}, !.restored = @ \cup {r.was[i].target}]
Lost(r, i) == [r EXCEPT !.todo = @ \ {i}, !.lost = @ \cup {r.was[i].target}]
Blended(r, i) == [Restored(r, i) EXCEPT !.edited = @ \cup {r.was[i].target}]

(* rollbackFileArtifact: uploaded to a name of its own and moved; moved     *)
(* into the directory when there is one of that name.  What follows the     *)
(* move may fail as well.                                                   *)
RollbackFileArtifact(i, row) ==
    LET moved == [remote EXCEPT ![row.target] =
                     IF row.target = Directory THEN (IF @ = Gone THEN Garbage ELSE @)
                     ELSE files[row.name]]
    IN  \/ remote' = moved /\ rollback' = Restored(rollback, i) /\ UNCHANGED world
        \/ /\ MayFault /\ Faulted
           /\ remote' \in {remote, moved} /\ rollback' = Lost(rollback, i)

(* rollbackDirectoryArtifact: what is there is removed before the archive   *)
(* is unpacked, and a copy of a file is no archive.  Nobody looks at how    *)
(* the removal ended: the archive may be unpacked over what is left.        *)
RollbackDirectoryArtifact(i, row) ==
    LET removed == [remote EXCEPT ![row.target] = Gone]
        unpacked == IF row.target = Directory THEN [remote EXCEPT ![row.target] = files[row.name]]
                    ELSE removed
    IN  \/ /\ row.target = Directory
           /\ remote' = unpacked /\ rollback' = Restored(rollback, i) /\ UNCHANGED world
        \/ /\ row.target = Directory /\ remote[Directory] # Gone
           /\ MayFault /\ Faulted
           /\ remote' = [remote EXCEPT ![row.target] = Garbage] /\ rollback' = Blended(rollback, i)
        \/ /\ row.target # Directory
           /\ remote' = removed /\ rollback' = Lost(rollback, i) /\ UNCHANGED world
        \/ /\ MayFault /\ Faulted
           /\ remote' \in {remote, removed, unpacked} /\ rollback' = Lost(rollback, i)

RollbackSingleArtifact ==
    /\ rollback.step = "running" /\ rollback.todo # {}
    /\ LET i == NewestOf(rollback.todo)
           row == rollback.was[i]
       IN  \/ /\ ~ValidArtifact(row)
              /\ rollback' = Lost(rollback, i) /\ UNCHANGED <<remote, world>>
           \/ /\ ValidArtifact(row) /\ row.type = "DIRECTORY_BACKUP"
              /\ RollbackDirectoryArtifact(i, row)
           \/ /\ ValidArtifact(row) /\ row.type # "DIRECTORY_BACKUP"
              /\ RollbackFileArtifact(i, row)
    /\ UNCHANGED <<files, rows, calls>>

ReportRollback ==
    /\ rollback.step = "running" /\ rollback.todo = {}
    /\ rollback' = [rollback EXCEPT !.step = "reported"]
    /\ UNCHANGED <<remote, files, rows, calls, world>>

BackupNext ==
    \/ \E t \in BackupTargets : EditRemote(t)
    \/ TickBackup
    \/ \E c \in BackupCalls : \/ \E t \in BackupTargets, type \in ArtifactTypes : BeginBackup(c, t, type)
                              \/ FetchBackup(c) \/ StoreBackup(c)
    \/ \E i \in DOMAIN rows : DeleteBackupArtifact(i)
    \/ ExecuteRollback \/ RollbackSingleArtifact \/ ReportRollback

BackupSpec == BackupInit /\ [][BackupNext]_backupVars

BackupType ==
    /\ DOMAIN remote = BackupTargets
    /\ \A c \in BackupCalls : calls[c].step \in {"idle", "fetching", "storing", "done", "failed"}
    /\ Len(rows) <= Cardinality(BackupCalls)
    /\ rollback.step \in {"idle", "running", "reported"}
    /\ rollback.restored \cup rollback.lost \subseteq BackupTargets
    /\ world.now \in 0..MaxTicks /\ world.edits \in 0..MaxBackupEdits

-----------------------------------------------------------------------------
(* The oldest of the chosen backups of a target.                            *)
FirstBackup(t) ==
    rollback.was[OldestOf({i \in rollback.chosen : rollback.was[i].target = t})]

(* Another call was given the same local name.                              *)
SharesName(row) == \E c \in BackupCalls : c # row.id /\ calls[c].name = row.name

(* A rollback tells what it did: a target that it reports as restored, and  *)
(* not also as failed, is what it was when its oldest backup was fetched    *)
(* (unless it was edited meanwhile, or unpacked over what was left of it),  *)
(* and whatever it removed and did not put back is reported as failed.  The *)
(* exceptions are a directory that was not backed up as a DIRECTORY_BACKUP, *)
(* whose archive is moved into it, and two backups of one millisecond and   *)
(* one base name, which share a file.                                       *)
RollbackReportTrue ==
    rollback.step = "reported" =>
        /\ \A t \in rollback.restored \ (rollback.lost \cup rollback.edited) :
              LET row == FirstBackup(t)
              IN  \/ remote[t] = row.took
                  \/ t = Directory /\ row.type # "DIRECTORY_BACKUP"
                  \/ SharesName(row)
        /\ \A t \in BackupTargets : remote[t] = Gone => t \in rollback.lost
=============================================================================
