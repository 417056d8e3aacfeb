------------------------------ MODULE MC_Healing ------------------------------
(***************************************************************************)
(* The hosts and their sites, the fixes, the backups of an incident, and    *)
(* the verification.  No code of src calls one from another, so each is     *)
(* explored by itself, with the others where they start; BackupRollback     *)
(* lets the fixes edit the files, SiteVerification lets them change the     *)
(* site.                                                                   *)
(***************************************************************************)
EXTENDS WordPressFixes, BackupRollback, SiteVerification, HostDiscovery

VARIABLE explored

healingVars == <<fix, backupVars, verification, discoveryVars, explored>>

AtRest == [NewRun(Healthy, {}, 1) EXCEPT !.phase = "over"]
NotVerifying ==
    [phase |-> "over", page |-> FinePage, shown |-> {FinePage}, pending |-> {}, passed |-> {},
     failed |-> {}, stores |-> FALSE, rows |-> <<>>, left |-> <<>>, told |-> "nothing",
     changes |-> 0, faults |-> 0]

HealingInit ==
    /\ BackupInit /\ DiscoveryInit
    /\ \/ explored = "hosts" /\ fix = AtRest /\ verification = NotVerifying
       \/ explored = "fixes" /\ FixInit /\ verification = NotVerifying
       \/ explored = "backups" /\ fix = AtRest /\ verification = NotVerifying
       \/ explored = "verification" /\ fix = AtRest /\ VerificationInit
    /\ explored # "hosts" => host = [s \in ServerIds |-> CHOOSE stack \in Stacks : TRUE]

HealingNext ==
    \/ /\ explored = "hosts" /\ HostsNext
       /\ UNCHANGED <<fix, backupVars, verification, explored>>
    \/ /\ explored = "fixes" /\ FixNext
       /\ UNCHANGED <<backupVars, verification, discoveryVars, explored>>
    \/ /\ explored = "backups" /\ BackupNext
       /\ UNCHANGED <<fix, verification, discoveryVars, explored>>
    \/ /\ explored = "verification" /\ VerificationNext
       /\ UNCHANGED <<fix, backupVars, discoveryVars, explored>>

HealingSpec == HealingInit /\ [][HealingNext]_healingVars

(* The rows and requests of the hosts, a run of playbooks, the calls of the *)
(* backup service and a verification are always in one of their steps, with *)
(* the bookkeeping of that step; a site's row refers to a server's.         *)
HealingType == FixType /\ BackupType /\ VerificationType /\ DiscoveryType
=============================================================================
